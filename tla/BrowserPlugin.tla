---------------------------- MODULE BrowserPlugin ----------------------------
(***************************************************************************)
(* One `BrowserPlugin` (src/src/plugin.rs): a Chrome that is booted on the *)
(* first command, driven by one command at a time, and killed by           *)
(* `shutdown_chrome`, which the admin verbs, the idle eviction loop and    *)
(* the reconfiguration path all call.                                      *)
(*                                                                         *)
(* Each actor is a tokio task with a program counter; an action is the     *)
(* code between two awaits.  The session mutex is the queue of its waiters *)
(* with the holder in front, because tokio's mutex is FIFO.  The chrome    *)
(* mutex is never held across an await, so what runs under it is one step. *)
(*                                                                         *)
(* A Chrome process is an element of Chromes.  An identifier that no field *)
(* and no task refers to is used again, so behaviours are not bounded in   *)
(* their number of boots.  A kill takes effect at once: the interval       *)
(* between SIGKILL and the exit of the process is abstracted.              *)
(***************************************************************************)
EXTENDS Sequences, FiniteSets

CONSTANTS
    Callers,    \* tasks that run `execute`
    Admins,     \* tasks that run `shutdown_chrome`
    Chromes,    \* identifiers of the Chrome processes this plugin spawns
    NoChrome,   \* the None of the two Option fields
    Remote,     \* the Chrome a `cdp_url` names, which this plugin never owns
    Configs,    \* the configurations a plugin may be built with
    MayCrash    \* whether a Chrome may exit on its own

ASSUME TasksAssumption == Callers \cap Admins = {}
ASSUME ChromesAssumption ==
    /\ NoChrome \notin Chromes
    /\ Remote \notin Chromes
    /\ Remote # NoChrome
ASSUME ConfigsAssumption ==
    /\ Configs \subseteq [attach : BOOLEAN, headless : BOOLEAN, shared : BOOLEAN]
    /\ MayCrash \in BOOLEAN

Tasks == Callers \cup Admins

VARIABLES
    config,     \* BrowserInner.config, as far as booting reads it, and whether
                \* other plugins go by the same metrics label
    session,    \* BrowserInner.session: the Chrome the CDP session drives
    chrome,     \* BrowserInner.chrome: the process this plugin owns
    override,   \* BrowserInner.headless_override_off
    sessionQ,   \* the session mutex: its holder, then the tasks waiting
    live,       \* the Chrome processes now running
    gauge,      \* chrome_alive{instance}, the gauge of this plugin's label
    pc,         \* where each task is
    headless,   \* ensure_session's local cfg_for_launch.headless
    launched    \* ensure_session's local: the Chrome being booted

vars == <<config, session, chrome, override, sessionQ, live, gauge, pc,
          headless, launched>>

CallerPCs == {"idle", "ensure", "launch", "devtools", "connect", "publish",
              "ensured", "relock", "command"}
AdminPCs == {"idle", "requested", "clearSession", "clearChrome"}

\* The program counters at which a task owns the session mutex.
Locked == {"launch", "devtools", "connect", "publish", "command"}

TypeOK ==
    /\ config \in Configs
    /\ session \in Chromes \cup {NoChrome, Remote}
    /\ chrome \in Chromes \cup {NoChrome}
    /\ override \in BOOLEAN
    /\ sessionQ \in Seq(Tasks)
    /\ live \subseteq Chromes
    /\ gauge \in BOOLEAN
    /\ pc \in [Tasks -> CallerPCs \cup AdminPCs]
    /\ \A t \in Callers : pc[t] \in CallerPCs
    /\ \A a \in Admins : pc[a] \in AdminPCs
    /\ headless \in [Callers -> BOOLEAN]
    /\ launched \in [Callers -> Chromes \cup {NoChrome, Remote}]

\* BrowserPlugin::new: IO-free, nothing booted.  A label that other plugins use,
\* or that a replaced plugin used before, may be raised already.
Init ==
    /\ config \in Configs
    /\ session = NoChrome
    /\ chrome = NoChrome
    /\ override = FALSE
    /\ sessionQ = <<>>
    /\ live = {}
    /\ gauge \in {FALSE, config.shared}
    /\ pc = [t \in Tasks |-> "idle"]
    /\ headless = [t \in Callers |-> TRUE]
    /\ launched = [t \in Callers |-> NoChrome]

-----------------------------------------------------------------------------
(* The session mutex, and the processes.                                   *)

Holds(t) == sessionQ # <<>> /\ Head(sessionQ) = t
Join(t) == sessionQ' = Append(sessionQ, t)
Release == sessionQ' = Tail(sessionQ)
Goto(t, label) == pc' = [pc EXCEPT ![t] = label]

\* For the modules that watch: the task goes from one program counter to another.
Moves(t, from, to) == pc[t] = from /\ pc'[t] = to

Fresh(c) ==
    /\ c \notin live
    /\ c # session
    /\ c # chrome
    /\ \A t \in Callers : launched[t] # c

\* ensure_session returns: its locals go out of scope and the guard drops.
ReturnFromEnsure(t, label) ==
    /\ Goto(t, label)
    /\ Release
    /\ headless' = [headless EXCEPT ![t] = TRUE]
    /\ launched' = [launched EXCEPT ![t] = NoChrome]

-----------------------------------------------------------------------------
(* execute, first half: ensure_session.                                    *)

Call(t) ==
    /\ pc[t] = "idle"
    /\ Goto(t, "ensure")
    /\ Join(t)
    /\ UNCHANGED <<config, session, chrome, override, live, gauge, headless, launched>>

\* The session is there already, whether or not its Chrome still runs.
SessionFound(t) ==
    /\ pc[t] = "ensure"
    /\ Holds(t)
    /\ session # NoChrome
    /\ Goto(t, "ensured")
    /\ Release
    /\ UNCHANGED <<config, session, chrome, override, live, gauge, headless, launched>>

\* Mutation: the early return for an existing session is lost.
TakeOverrideAlways(t) ==
    /\ pc[t] = "ensure"
    /\ Holds(t)
    /\ headless' = [headless EXCEPT ![t] = config.headless /\ ~override]
    /\ override' = FALSE
    /\ Goto(t, "launch")
    /\ UNCHANGED <<config, session, chrome, sessionQ, live, gauge, launched>>

\* The one-shot override is consumed before anything that can fail.
TakeOverride(t) ==
    /\ pc[t] = "ensure"
    /\ Holds(t)
    /\ session = NoChrome
    /\ headless' = [headless EXCEPT ![t] = config.headless /\ ~override]
    /\ override' = FALSE
    /\ Goto(t, "launch")
    /\ UNCHANGED <<config, session, chrome, sessionQ, live, gauge, launched>>

SpawnChrome(t) ==
    /\ pc[t] = "launch"
    /\ ~config.attach
    /\ \E c \in Chromes :
        /\ Fresh(c)
        /\ live' = live \cup {c}
        /\ launched' = [launched EXCEPT ![t] = c]
    /\ Goto(t, "devtools")
    /\ UNCHANGED <<config, session, chrome, override, sessionQ, gauge, headless>>

\* Mutation: the attached Chrome is taken for an owned one.
AttachRemoteAsOwned(t) ==
    /\ pc[t] = "launch"
    /\ config.attach
    /\ launched' = [launched EXCEPT ![t] = Remote]
    /\ chrome' = Remote
    /\ Goto(t, "connect")
    /\ UNCHANGED <<config, session, override, sessionQ, live, gauge, headless>>

\* connect_existing found the debugger of the Chrome at cdp_url.
AttachRemote(t) ==
    /\ pc[t] = "launch"
    /\ config.attach
    /\ launched' = [launched EXCEPT ![t] = Remote]
    /\ Goto(t, "connect")
    /\ UNCHANGED <<config, session, chrome, override, sessionQ, live, gauge, headless>>

\* Mutation: the error path forgets the child.
LaunchFailsWithoutKill(t) ==
    /\ pc[t] \in {"launch", "devtools"}
    /\ ReturnFromEnsure(t, "idle")
    /\ UNCHANGED <<config, session, chrome, override, live, gauge>>

\* No executable, a failed spawn, no debugger at cdp_url; or, once spawned, no
\* DevTools line before the deadline, and the child is killed.
LaunchFails(t) ==
    /\ pc[t] \in {"launch", "devtools"}
    /\ live' = live \ {launched[t]}
    /\ ReturnFromEnsure(t, "idle")
    /\ UNCHANGED <<config, session, chrome, override, gauge>>

\* The handle is stored under the chrome mutex, and the handle it replaces, if
\* an earlier boot left one, is dropped only now: its Chrome is killed here.
StoreChrome(t) ==
    /\ pc[t] = "devtools"
    /\ chrome' = launched[t]
    /\ live' = live \ {chrome}
    /\ Goto(t, "connect")
    /\ UNCHANGED <<config, session, override, sessionQ, gauge, headless, launched>>

\* Mutation: the connect error is logged and ignored.
ConnectFailsSilently(t) ==
    /\ pc[t] = "connect"
    /\ ReturnFromEnsure(t, "ensured")
    /\ UNCHANGED <<config, session, chrome, override, live, gauge>>

\* CdpClient::connect, the target list or CdpSession::new failed.  The Chrome
\* stays stored and running, without a session.
ConnectFails(t) ==
    /\ pc[t] = "connect"
    /\ ReturnFromEnsure(t, "idle")
    /\ UNCHANGED <<config, session, chrome, override, live, gauge>>

OpenSession(t) ==
    /\ pc[t] = "connect"
    /\ launched[t] \in live \cup {Remote}
    /\ session' = launched[t]
    /\ Goto(t, "publish")
    /\ UNCHANGED <<config, chrome, override, sessionQ, live, gauge, headless, launched>>

\* The metrics are written last, still under the session mutex: the gauge is the
\* label's, whoever else goes by that label.
Publish(t) ==
    /\ pc[t] = "publish"
    /\ gauge' = TRUE
    /\ ReturnFromEnsure(t, "ensured")
    /\ UNCHANGED <<config, session, chrome, override, live>>

-----------------------------------------------------------------------------
(* execute, second half: the session mutex is taken again.                 *)

Relock(t) ==
    /\ pc[t] = "ensured"
    /\ Goto(t, "relock")
    /\ Join(t)
    /\ UNCHANGED <<config, session, chrome, override, live, gauge, headless, launched>>

\* Mutation: the early return keeps the guard alive.
NoSessionKeepsLock(t) ==
    /\ pc[t] = "relock"
    /\ Holds(t)
    /\ session = NoChrome
    /\ Goto(t, "idle")
    /\ UNCHANGED <<config, session, chrome, override, sessionQ, live, gauge, headless, launched>>

\* "no active session": a shutdown came between the two halves.
NoSession(t) ==
    /\ pc[t] = "relock"
    /\ Holds(t)
    /\ session = NoChrome
    /\ Goto(t, "idle")
    /\ Release
    /\ UNCHANGED <<config, session, chrome, override, live, gauge, headless, launched>>

StartCommand(t) ==
    /\ pc[t] = "relock"
    /\ Holds(t)
    /\ session # NoChrome
    /\ Goto(t, "command")
    /\ UNCHANGED <<config, session, chrome, override, sessionQ, live, gauge, headless, launched>>

\* Success, a CDP error and the command timeout all leave the session in place.
EndCommand(t) ==
    /\ pc[t] = "command"
    /\ Goto(t, "idle")
    /\ Release
    /\ UNCHANGED <<config, session, chrome, override, live, gauge, headless, launched>>

-----------------------------------------------------------------------------
(* shutdown_chrome and request_visible_next_boot.                          *)

\* launch_visible sets the override first, and only then shuts Chrome down.
RequestVisible(a) ==
    /\ pc[a] = "idle"
    /\ override' = TRUE
    /\ Goto(a, "requested")
    /\ UNCHANGED <<config, session, chrome, sessionQ, live, gauge, headless, launched>>

Shutdown(a) ==
    /\ pc[a] \in {"idle", "requested"}
    /\ Goto(a, "clearSession")
    /\ Join(a)
    /\ UNCHANGED <<config, session, chrome, override, live, gauge, headless, launched>>

\* Mutation: the session is cleared without waiting for the lock.
ClearSessionUnlocked(a) ==
    /\ pc[a] = "clearSession"
    /\ session' = NoChrome
    /\ sessionQ' = SelectSeq(sessionQ, LAMBDA t : t # a)
    /\ Goto(a, "clearChrome")
    /\ UNCHANGED <<config, chrome, override, live, gauge, headless, launched>>

\* Mutation: try_lock for lock().await; a busy plugin keeps its session.
ClearSessionIfFree(a) ==
    /\ pc[a] = "clearSession"
    /\ session' = IF Holds(a) THEN NoChrome ELSE session
    /\ sessionQ' = SelectSeq(sessionQ, LAMBDA t : t # a)
    /\ Goto(a, "clearChrome")
    /\ UNCHANGED <<config, chrome, override, live, gauge, headless, launched>>

\* The session mutex is released before the chrome mutex is taken.
ClearSession(a) ==
    /\ pc[a] = "clearSession"
    /\ Holds(a)
    /\ session' = NoChrome
    /\ Release
    /\ Goto(a, "clearChrome")
    /\ UNCHANGED <<config, chrome, override, live, gauge, headless, launched>>

\* Mutation: the gauge is left as the last boot set it.
ClearChromeKeepsGauge(a) ==
    /\ pc[a] = "clearChrome"
    /\ chrome' = NoChrome
    /\ live' = live \ {chrome}
    /\ Goto(a, "idle")
    /\ UNCHANGED <<config, session, override, sessionQ, gauge, headless, launched>>

\* Mutation: a shutdown resets the plugin, a pending override included.
ClearChromeResets(a) ==
    /\ pc[a] = "clearChrome"
    /\ chrome' = NoChrome
    /\ live' = live \ {chrome}
    /\ gauge' = FALSE
    /\ override' = FALSE
    /\ Goto(a, "idle")
    /\ UNCHANGED <<config, session, sessionQ, headless, launched>>

\* The handle is dropped, which kills its Chrome, and the label's gauge is lowered.
ClearChrome(a) ==
    /\ pc[a] = "clearChrome"
    /\ chrome' = NoChrome
    /\ live' = live \ {chrome}
    /\ gauge' = FALSE
    /\ Goto(a, "idle")
    /\ UNCHANGED <<config, session, override, sessionQ, headless, launched>>

-----------------------------------------------------------------------------

\* A Chrome exits by itself.  Nothing in the plugin notices.
Crash(c) ==
    /\ MayCrash
    /\ c \in live
    /\ live' = live \ {c}
    /\ UNCHANGED <<config, session, chrome, override, sessionQ, gauge, pc, headless, launched>>

\* Another plugin with this label boots or is shut down: chrome_alive is one gauge
\* per label for the whole process, and all per-agent plugins are "default".
OtherPlugin ==
    /\ config.shared
    /\ gauge' = ~gauge
    /\ UNCHANGED <<config, session, chrome, override, sessionQ, live, pc, headless, launched>>

EnsureStep(t) ==
    \/ SessionFound(t)
    \/ TakeOverride(t)
    \/ SpawnChrome(t)
    \/ AttachRemote(t)
    \/ LaunchFails(t)
    \/ StoreChrome(t)
    \/ ConnectFails(t)
    \/ OpenSession(t)
    \/ Publish(t)

CallerStep(t) ==
    \/ EnsureStep(t)
    \/ Relock(t)
    \/ NoSession(t)
    \/ StartCommand(t)
    \/ EndCommand(t)

AdminStep(a) == ClearSession(a) \/ ClearChrome(a)

Next ==
    \/ \E t \in Callers : Call(t) \/ CallerStep(t)
    \/ \E a \in Admins : RequestVisible(a) \/ Shutdown(a) \/ AdminStep(a)
    \/ \E c \in Chromes : Crash(c)
    \/ OtherPlugin

\* Every await inside a call ends: the waits for DevTools, for the target list
\* and for a command carry timeouts, and tokio keeps polling a ready task.  New
\* calls, crashes and what other plugins do are not owed.
Fairness ==
    /\ \A t \in Callers : WF_vars(CallerStep(t))
    /\ \A a \in Admins :
        /\ WF_vars(pc[a] = "requested" /\ Shutdown(a))
        /\ WF_vars(AdminStep(a))

Spec == Init /\ [][Next]_vars /\ Fairness

-----------------------------------------------------------------------------
(* Safety.                                                                 *)

\* No Chrome leaks: one that runs is in the `chrome` field, where a later
\* shutdown or boot kills it, or belongs to the launch still waiting for its
\* DevTools line, which kills it on failure (plugin.rs 217-219, chrome.rs 230-234).
NoLeakedChrome ==
    \A c \in live :
        \/ c = chrome
        \/ \E t \in Callers : pc[t] = "devtools" /\ launched[t] = c

\* The session never drives another Chrome than the owned one: if a session and
\* a handle are both there, they belong to the same boot.  It takes a boot that
\* replaced the handle under a live session to break it (plugin.rs 201-243).
SessionMatchesChrome ==
    session # NoChrome => chrome \in {session, NoChrome}

\* For a label that only this plugin uses, chrome_alive reads 1 only while a session
\* exists, or while a shutdown that removed the session is about to lower it: no
\* order of boots and shutdowns leaves the gauge raised over a plugin with no session
\* (plugin.rs 188, 249).  For a shared label nothing of the kind holds.
GaugeNeedsSession ==
    ~config.shared /\ gauge =>
        session # NoChrome \/ \E a \in Admins : pc[a] = "clearChrome"

\* The session a command runs on is neither closed nor replaced under it,
\* whatever shutdowns arrive meanwhile (plugin.rs 108-166, 183-184).
CommandKeepsSession ==
    [][\A t \in Callers :
        pc[t] \in {"publish", "command"} => session # NoChrome /\ session' = session]_vars

\* plugin.rs 178-181: "Both fields stay re-bootable -- the next execute call will
\* lazy-reboot a fresh Chrome".  With nobody inside the plugin, either there is no
\* session, so the next call boots, or the session's Chrome is still owned.
RebootableAfterShutdown ==
    (\A t \in Tasks : pc[t] = "idle") /\ session \in Chromes => chrome = session

-----------------------------------------------------------------------------
(* Liveness.                                                               *)

\* No call and no shutdown is stuck, however the others are interleaved: the
\* error paths all give the session mutex back, and a waiter is not overtaken
\* for ever.
EveryCallReturns == \A t \in Tasks : pc[t] # "idle" ~> pc[t] = "idle"

-----------------------------------------------------------------------------
(* The abstract plugin.                                                    *)

\* How a caller at each program counter looks from outside.
StatusOf(t) ==
    IF pc[t] = "idle" THEN "idle" ELSE IF pc[t] = "command" THEN "served" ELSE "waiting"

Lazy == INSTANCE LazyBrowser WITH
            Browsers <- Chromes \cup {Remote},
            NoBrowser <- NoChrome,
            browser <- session,
            status <- [t \in Callers |-> StatusOf(t)]

\* Behind its two locks, its boots and its shutdowns, the plugin is a browser that
\* serves one command at a time, is not swapped or closed under a command, and
\* refuses a call only while it has no session (plugin.rs 104-252).
ImplementsLazyBrowser == Lazy!LazySpec
==============================================================================
