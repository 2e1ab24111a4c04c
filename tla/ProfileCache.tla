----------------------------- MODULE ProfileCache -----------------------------
(***************************************************************************)
(* The per-agent profiles of src/src/main.rs: the PROFILES map, the        *)
(* on_tool handler that looks a profile up, builds it on a miss, runs the  *)
(* tool and touches the idle clock, and the loop that evicts idle ones.    *)
(*                                                                         *)
(* A key is what shared_plugin_for makes of an agent id.  A plugin is one  *)
(* Arc<BrowserPlugin>, used as PluginUse says; dropping the last Arc drops *)
(* its Chrome with it.  A plugin is named by the key its user_data_dir was *)
(* derived from and a serial number, which is used again when nothing      *)
(* refers to the plugin any more.                                          *)
(*                                                                         *)
(* Time is the age of each entry's last_active_at, which stops counting at *)
(* the threshold.  The clock stands still while the loop reads the ages, a *)
(* matter of microseconds against seconds; calls do not.                   *)
(***************************************************************************)
EXTENDS PluginUse, Naturals, FiniteSets

CONSTANTS
    Keys,           \* profile keys
    Serials,        \* tell the BrowserPlugin instances of one key apart
    NoKey, NoPlugin,
    MaxProfiles,    \* limits.max_profiles
    IdleChoices,    \* what limits.idle_secs may be, in ticks; 0 disables eviction
    AttachChoices   \* whether the template configuration may have a cdp_url

Plugins == Keys \X Serials
DirOf(p) == p[1]

ASSUME ProfileConstants ==
    /\ NoPlugin \notin Plugins
    /\ NoKey \notin Keys
    /\ MaxProfiles \in Nat \ {0}
    /\ IdleChoices \subseteq Nat
    /\ AttachChoices \subseteq BOOLEAN
ASSUME FiniteAssumption == IsFiniteSet(Calls) /\ IsFiniteSet(Keys)

VARIABLES
    idleSecs,   \* limits.idle_secs, read once at start-up
    profiles,   \* PROFILES: the plugin each key is mapped to
    age,        \* time since the entry's last_active_at, up to idleSecs
    key,        \* the profile key of each handler
    result,     \* what dispatch_browser_tool returned
    epc,        \* where the eviction loop is
    unread,     \* the keys its scan has not come to
    toEvict,    \* its local to_evict
    victim,     \* the plugin it is shutting down
    touched     \* history: the keys created or touched since the scan began

callVars == <<pc, key, plugin, result>>
loopVars == <<epc, unread, toEvict, victim>>
vars == <<idleSecs, profiles, age, chromeVars, remote, callVars, loopVars, touched>>

PCs == {"idle", "building", "route", "elsewhere"} \cup UsePCs

\* A browser command that fails is `Ok` with `ok: false`; only bad arguments and
\* unknown tools are `Err`.
Results == {"none", "ok", "failed", "err"}

TypeOK ==
    /\ idleSecs \in IdleChoices
    /\ profiles \in [Keys -> Plugins \cup {NoPlugin}]
    /\ age \in [Keys -> 0 .. idleSecs]
    /\ sessions \subseteq Plugins
    /\ up \subseteq Plugins
    /\ remote \in {{}, Plugins}
    /\ overtaken \subseteq Plugins
    /\ pc \in [Calls -> PCs]
    /\ key \in [Calls -> Keys \cup {NoKey}]
    /\ plugin \in [Calls -> Plugins \cup {NoPlugin}]
    /\ result \in [Calls -> Results]
    /\ epc \in {"sleep", "scan", "evict", "shutdown", "kill"}
    /\ unread \subseteq Keys
    /\ toEvict \subseteq Keys
    /\ victim \in Plugins \cup {NoPlugin}
    /\ touched \subseteq Keys

Init ==
    /\ idleSecs \in IdleChoices
    /\ profiles = [k \in Keys |-> NoPlugin]
    /\ age = [k \in Keys |-> 0]
    /\ key = [t \in Calls |-> NoKey]
    /\ sessions = {}
    /\ up = {}
    /\ \E attach \in AttachChoices : remote = IF attach THEN Plugins ELSE {}
    /\ overtaken = {}
    /\ pc = [t \in Calls |-> "idle"]
    /\ plugin = [t \in Calls |-> NoPlugin]
    /\ result = [t \in Calls |-> "none"]
    /\ epc = "sleep"
    /\ unread = {}
    /\ toEvict = {}
    /\ victim = NoPlugin
    /\ touched = {}

Entries == {k \in Keys : profiles[k] # NoPlugin}
Building == {t \in Calls : pc[t] = "building"}
Launching == {t \in Calls : pc[t] = "launch"}

\* The plugins some Arc still points to.
Referenced ==
    {profiles[k] : k \in Keys} \cup {plugin[t] : t \in Calls} \cup {victim}

\* The plugin the loop has cleared the session of and not killed the Chrome of.
Cleared == IF epc = "kill" THEN {victim} ELSE {}

\* The history starts anew with each scan.
Mark(k) == touched' = IF epc = "sleep" THEN touched ELSE touched \cup {k}

-----------------------------------------------------------------------------
(* on_tool.                                                                *)

\* shared_plugin_for finds the entry.
Hit(t, k) ==
    /\ pc[t] = "idle"
    /\ profiles[k] # NoPlugin
    /\ key' = [key EXCEPT ![t] = k]
    /\ plugin' = [plugin EXCEPT ![t] = profiles[k]]
    /\ Goto(t, "route")
    /\ UNCHANGED <<idleSecs, profiles, age, chromeVars, remote, result, loopVars, touched>>

\* Mutation: the cap is checked with > for >=.
MissOffByOne(t, k) ==
    /\ pc[t] = "idle"
    /\ profiles[k] = NoPlugin
    /\ Cardinality(Entries) <= MaxProfiles
    /\ key' = [key EXCEPT ![t] = k]
    /\ Goto(t, "building")
    /\ UNCHANGED <<idleSecs, profiles, age, chromeVars, remote, plugin, result, loopVars, touched>>

\* It does not, and the cap leaves room; at the cap the call is refused with
\* Unavailable and nothing changes.  What follows awaits: the configuration cell
\* and the decoration of the profile directory.
Miss(t, k) ==
    /\ pc[t] = "idle"
    /\ profiles[k] = NoPlugin
    /\ Cardinality(Entries) < MaxProfiles
    /\ key' = [key EXCEPT ![t] = k]
    /\ Goto(t, "building")
    /\ UNCHANGED <<idleSecs, profiles, age, chromeVars, remote, plugin, result, loopVars, touched>>

NewEntry(t, p) ==
    /\ p \notin Referenced
    /\ profiles' = [profiles EXCEPT ![key[t]] = p]
    /\ age' = [age EXCEPT ![key[t]] = 0]
    /\ Mark(key[t])
    /\ plugin' = [plugin EXCEPT ![t] = p]

\* Mutation: insert in place of entry().or_insert_with().
InsertOverwriting(t) ==
    /\ pc[t] = "building"
    /\ \E p \in {key[t]} \X Serials : NewEntry(t, p)
    /\ Goto(t, "route")
    /\ UNCHANGED <<idleSecs, chromeVars, remote, key, result, loopVars>>

\* entry().or_insert_with(): the first of two concurrent builders wins, and the
\* other one's plugin, without a Chrome yet, is dropped.  The cap is not looked at.
Insert(t) ==
    /\ pc[t] = "building"
    /\ \/ /\ profiles[key[t]] = NoPlugin
          /\ \E p \in {key[t]} \X Serials : NewEntry(t, p)
       \/ /\ profiles[key[t]] # NoPlugin
          /\ plugin' = [plugin EXCEPT ![t] = profiles[key[t]]]
          /\ UNCHANGED <<profiles, age, touched>>
    /\ Goto(t, "route")
    /\ UNCHANGED <<idleSecs, chromeVars, remote, key, result, loopVars>>

\* resolve_plugin_or_legacy_gated: the legacy plugin, or a declared instance.
Route(t) ==
    /\ pc[t] = "route"
    /\ \E label \in {"dispatch", "elsewhere"} : Goto(t, label)
    /\ UNCHANGED <<idleSecs, profiles, age, chromeVars, remote, key, plugin, result, loopVars, touched>>

\* The resolver refuses, or the tool on the declared instance ends: in both cases
\* the idle clock is left alone.
Leave(t) ==
    /\ pc[t] \in {"route", "elsewhere"}
    /\ Goto(t, "idle")
    /\ plugin' = [plugin EXCEPT ![t] = NoPlugin]
    /\ key' = [key EXCEPT ![t] = NoKey]
    /\ UNCHANGED <<idleSecs, profiles, age, result, loopVars, touched>>
    /\ Keep(up, Referenced')

\* Everything that waits for the session mutex, boots and runs a command.
Use(t) ==
    /\ \/ Execute(t) \/ SessionFound(t) \/ Spawn(t) \/ StoreChrome(t) \/ Attach(t)
       \/ OpenSession(t, Cleared) \/ PollAgain(t)
    /\ UNCHANGED <<idleSecs, profiles, age, key, result, loopVars, touched>>

\* Bad arguments are Err; a failed boot and a failed command are Ok.
Finish(t) ==
    /\ \/ RejectArguments(t) /\ result' = [result EXCEPT ![t] = "err"]
       \/ BootFails(t) /\ result' = [result EXCEPT ![t] = "failed"]
       \/ /\ EndCommand(t)
          /\ \E r \in {"ok", "failed"} : result' = [result EXCEPT ![t] = r]
    /\ UNCHANGED <<idleSecs, profiles, age, key, loopVars, touched>>

\* An Ok result touches the entry now under the key, whichever plugin it holds.
Touch(t) ==
    IF result[t] # "err" /\ profiles[key[t]] # NoPlugin
    THEN /\ age' = [age EXCEPT ![key[t]] = 0]
         /\ Mark(key[t])
    ELSE UNCHANGED <<age, touched>>

Return(t) ==
    /\ pc[t] = "done"
    /\ Touch(t)
    /\ Goto(t, "idle")
    /\ plugin' = [plugin EXCEPT ![t] = NoPlugin]
    /\ result' = [result EXCEPT ![t] = "none"]
    /\ key' = [key EXCEPT ![t] = NoKey]
    /\ UNCHANGED <<idleSecs, profiles, loopVars>>
    /\ Keep(up, Referenced')

-----------------------------------------------------------------------------
(* The eviction loop.                                                      *)

\* Thirty seconds have passed.
Wake ==
    /\ epc = "sleep"
    /\ idleSecs > 0
    /\ epc' = "scan"
    /\ unread' = Keys
    /\ toEvict' = {}
    /\ UNCHANGED <<idleSecs, profiles, age, chromeVars, remote, callVars, victim, touched>>

\* Mutation: the threshold is not compared.
ReadEntryAnyAge(k) ==
    /\ epc = "scan"
    /\ k \in unread
    /\ unread' = unread \ {k}
    /\ toEvict' = IF k \in Entries THEN toEvict \cup {k} ELSE toEvict
    /\ UNCHANGED <<idleSecs, profiles, age, chromeVars, remote, callVars, epc, victim, touched>>

\* One entry is read; calls go on between one entry and the next.
ReadEntry(k) ==
    /\ epc = "scan"
    /\ k \in unread
    /\ unread' = unread \ {k}
    /\ toEvict' = IF k \in Entries /\ age[k] >= idleSecs THEN toEvict \cup {k} ELSE toEvict
    /\ UNCHANGED <<idleSecs, profiles, age, chromeVars, remote, callVars, epc, victim, touched>>

EndScan ==
    /\ epc = "scan"
    /\ unread = {}
    /\ epc' = "evict"
    /\ UNCHANGED <<idleSecs, profiles, age, chromeVars, remote, callVars, unread, toEvict, victim, touched>>

\* PROFILES.remove: whatever entry is under the key by now, its age not read again.
Remove(k) ==
    /\ epc = "evict"
    /\ k \in toEvict
    /\ toEvict' = toEvict \ {k}
    /\ profiles' = [profiles EXCEPT ![k] = NoPlugin]
    /\ age' = [age EXCEPT ![k] = 0]
    /\ victim' = profiles[k]
    /\ epc' = IF k \in Entries THEN "shutdown" ELSE "evict"
    /\ UNCHANGED <<idleSecs, chromeVars, remote, callVars, unread, touched>>

\* shutdown_chrome, first lock: it waits for the command that has the session
\* mutex, and releases it before it takes the other one.
ClearVictim ==
    /\ epc = "shutdown"
    /\ ClearSession(victim)
    /\ epc' = "kill"
    /\ UNCHANGED <<idleSecs, profiles, age, callVars, unread, toEvict, victim, touched>>

\* Mutation: the loop ends with the first eviction.
KillVictimOnce ==
    /\ epc = "kill"
    /\ victim' = NoPlugin
    /\ UNCHANGED <<idleSecs, profiles, age, callVars, epc, unread, toEvict, touched>>
    /\ Keep(up \ {victim}, Referenced')

\* Second lock: the Chrome is dropped whoever uses it by now, a call that held the
\* plugin and booted it since included.  Such a call may also boot it afterwards.
KillVictim ==
    /\ epc = "kill"
    /\ victim' = NoPlugin
    /\ epc' = "evict"
    /\ UNCHANGED <<idleSecs, profiles, age, callVars, unread, toEvict, touched>>
    /\ Keep(up \ {victim}, Referenced')

Sleep ==
    /\ epc = "evict"
    /\ toEvict = {}
    /\ epc' = "sleep"
    /\ touched' = {}
    /\ UNCHANGED <<idleSecs, profiles, age, chromeVars, remote, callVars, unread, toEvict, victim>>

\* Mutation: the age runs past the threshold.
TickUncapped ==
    /\ epc # "scan"
    /\ age' = [k \in Keys |-> IF k \in Entries THEN age[k] + 1 ELSE age[k]]
    /\ UNCHANGED <<idleSecs, profiles, chromeVars, remote, callVars, loopVars, touched>>

Tick ==
    /\ epc # "scan"
    /\ age' = [k \in Keys |->
            IF k \in Entries /\ age[k] < idleSecs THEN age[k] + 1 ELSE age[k]]
    /\ UNCHANGED <<idleSecs, profiles, chromeVars, remote, callVars, loopVars, touched>>

-----------------------------------------------------------------------------

CallStep(t) ==
    \/ Insert(t)
    \/ Route(t)
    \/ Leave(t)
    \/ Use(t)
    \/ Finish(t)
    \/ Return(t)

LoopStep ==
    \/ Wake
    \/ \E k \in Keys : ReadEntry(k) \/ Remove(k)
    \/ EndScan
    \/ ClearVictim
    \/ KillVictim
    \/ Sleep

Next ==
    \/ \E t \in Calls : CallStep(t) \/ \E k \in Keys : Hit(t, k) \/ Miss(t, k)
    \/ LoopStep
    \/ Tick

Waits(t) == pc[t] = "waiting" /\ (Use(t) \/ Finish(t))
Ends(t) == pc[t] \in LockedPCs /\ Finish(t)

\* A handler goes on once it can.  One that waits for a session mutex gets it in its
\* turn, tokio's mutex being FIFO, and polling ends with its deadline (hence SF).
\* The loop is one task.
Fairness ==
    /\ \A t \in Calls : WF_vars(CallStep(t)) /\ SF_vars(Waits(t)) /\ SF_vars(Ends(t))
    /\ WF_vars(LoopStep)

Spec == Init /\ [][Next]_vars /\ Fairness

-----------------------------------------------------------------------------

\* The cap is checked before two awaits and not again at the insertion, so it can
\* be passed, but by fewer entries than there are concurrent handlers
\* (main.rs 89, 99-135, 146).
OvershootBounded ==
    Cardinality(Entries) + Cardinality(Building) <= MaxProfiles - 1 + Cardinality(Calls)

\* README.md 262: "the plugin spawns one Chrome per agent": no two plugins have
\* Chromes running on one profile directory.
OneChromePerProfile ==
    \A p, q \in up : DirOf(p) = DirOf(q) => p = q

\* Without evictions it is so: concurrent first calls of one agent share one plugin,
\* because the second one finds the first one's entry at the insertion.  A Chrome
\* that is being started then shares the directory with no other, except on a retry
\* after a failed connection, which starts one beside the sessionless Chrome of the
\* same plugin (main.rs 145-152; plugin.rs 216-229).
OneChromeWithoutEviction ==
    idleSecs = 0 =>
        /\ OneChromePerProfile
        /\ \A t \in Launching, p \in up : DirOf(plugin[t]) = DirOf(p) =>
                p = plugin[t] /\ p \notin sessions
        /\ \A t, u \in Launching : DirOf(plugin[t]) = DirOf(plugin[u]) => t = u

\* An eviction never takes the session from under a running command, and never its
\* Chrome, unless the call booted it between the two locks of shutdown_chrome
\* (plugin.rs 183-187, 201-252; main.rs 182-185).
EvictionSparesCommands ==
    \A t \in Calls : pc[t] = "running" =>
        /\ plugin[t] \in sessions
        /\ plugin[t] \in up \cup remote \cup overtaken

\* A profile is evicted only if it was idle, unless it was touched or created since
\* this very scan began: no key is left over from an earlier round (main.rs 172-181).
EvictionJustified ==
    [][\A k \in Entries : profiles'[k] = NoPlugin => age[k] >= idleSecs \/ k \in touched]_vars

\* README.md 350-353: "last_active_at is only updated on Ok(_) results -- failed
\* tool calls preserve the idle clock.  This prevents a stuck-on agent (LLM looping
\* on browser_navigate to a 404) from masking the idle signal".
FailedCallsPreserveClock ==
    [][\A t \in Calls : pc[t] = "done" /\ pc'[t] = "idle" /\ result[t] = "failed" =>
        age' = age]_vars

\* With eviction enabled, an idle profile is evicted or used again, whatever other
\* calls do (main.rs 168-191).
IdleProfilesGo ==
    \A k \in Keys :
        idleSecs > 0 /\ k \in Entries /\ age[k] = idleSecs
            ~> k \notin Entries \/ age[k] < idleSecs

\* No handler waits for ever, neither for the session mutex of its plugin, behind
\* other handlers and the eviction, nor for a command on a Chrome that the eviction
\* killed (main.rs 353-404; plugin.rs 108-120, 183, 202).
EveryCallReturns == \A t \in Calls : pc[t] # "idle" ~> pc[t] = "idle"

\* The handlers and the loop are users and closer of a pool of plugins.  Looking a
\* plugin up, building one, evicting and dropping it, in any order, never starts a
\* Chrome for nobody or leaves one behind, never runs two users on one session, and
\* takes a Chrome from under its user only between the two locks of the shutdown
\* (main.rs 62-192, 353-404; plugin.rs 183-252; chrome.rs 88-98).
Pool == INSTANCE PluginPool WITH
    Users <- Calls,
    entries <- profiles,
    held <- plugin,
    booting <- {t \in Calls : pc[t] \in {"launch", "connect"}},
    busy <- {t \in Calls : pc[t] = "running"},
    closing <- victim,
    doomed <- Cleared,
    chromes <- up

ImplementsPluginPool == Pool!PoolSpec
==============================================================================
