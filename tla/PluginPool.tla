------------------------------ MODULE PluginPool ------------------------------
(***************************************************************************)
(* What the plugin's two maps, PROFILES (src/src/main.rs) and REGISTRY     *)
(* (src/src/instance_registry.rs), promise of the BrowserPlugins in them,  *)
(* without clocks, scans, caps, configurations or routing.  A user takes   *)
(* the plugin under a key, boots it, runs one command after the other on   *)
(* it and lets it go; meanwhile the entry may be taken out, shut down and  *)
(* made anew.  A shutdown has two parts: it takes the session, never from  *)
(* a user of it, and later the Chrome, from whoever uses it by then.       *)
(* ProfileCache and InstanceRegistry implement it.                         *)
(***************************************************************************)

CONSTANTS Users, Keys, Serials, NoPlugin

Plugins == Keys \X Serials

VARIABLES
    entries,    \* the plugin under each key
    held,       \* the plugin each user holds
    booting,    \* the users that start a Chrome and connect to it
    busy,       \* the users that run a command
    closing,    \* the plugin that was taken out and is not shut down yet
    doomed,     \* the plugins that have lost their session and not yet their Chrome
    sessions,   \* the plugins with a session
    chromes,    \* the plugins whose own Chrome runs
    remote,     \* the plugins that attach to a Chrome of somebody else's
    overtaken   \* history: the sessions that were opened on a doomed plugin

useVars == <<booting, busy>>
chromeVars == <<sessions, chromes, overtaken>>
poolVars == <<entries, held, useVars, closing, doomed, chromeVars, remote>>

PoolInit ==
    /\ entries = [k \in Keys |-> NoPlugin]
    /\ held = [t \in Users |-> NoPlugin]
    /\ booting = {}
    /\ busy = {}
    /\ closing = NoPlugin
    /\ doomed = {}
    /\ sessions = {}
    /\ chromes = {}
    /\ remote \subseteq Plugins
    /\ overtaken = {}

PoolReferenced == {entries[k] : k \in Keys} \cup {held[t] : t \in Users} \cup {closing}

\* Some user has its session mutex.
InUse(p) == \E t \in booting \cup busy : held[t] = p

\* What plugins nobody refers to have ends.
Remain(C) ==
    /\ chromes' = C \cap PoolReferenced'
    /\ sessions' = sessions \cap PoolReferenced'
    /\ overtaken' = overtaken \cap PoolReferenced'

Acquire(t, k) ==
    /\ held[t] = NoPlugin
    /\ entries[k] # NoPlugin
    /\ held' = [held EXCEPT ![t] = entries[k]]
    /\ UNCHANGED <<entries, useVars, closing, doomed, chromeVars>>

\* A new plugin, for a user or for nobody yet.  The one it replaces, if any, stays
\* with those who hold it.
Create(k) ==
    /\ \E p \in {k} \X Serials :
        /\ p \notin PoolReferenced
        /\ entries' = [entries EXCEPT ![k] = p]
        /\ \/ UNCHANGED held
           \/ \E t \in Users : held[t] = NoPlugin /\ held' = [held EXCEPT ![t] = p]
    /\ UNCHANGED <<useVars, closing, doomed>>
    /\ Remain(chromes)

\* Only a user boots, alone with the plugin, and only one without a session.
Boot(t) ==
    /\ held[t] # NoPlugin
    /\ ~InUse(held[t])
    /\ held[t] \notin sessions
    /\ booting' = booting \cup {t}
    /\ UNCHANGED <<entries, held, busy, closing, doomed, chromeVars>>

Store(t) ==
    /\ t \in booting
    /\ chromes' = chromes \cup {held[t]}
    /\ UNCHANGED <<entries, held, useVars, closing, doomed, sessions, overtaken>>

Open(t) ==
    /\ t \in booting
    /\ held[t] \in chromes \cup remote
    /\ booting' = booting \ {t}
    /\ busy' = busy \cup {t}
    /\ sessions' = sessions \cup {held[t]}
    /\ overtaken' = overtaken \cup (doomed \cap {held[t]})
    /\ UNCHANGED <<entries, held, closing, doomed, chromes>>

Serve(t) ==
    /\ held[t] \in sessions
    /\ ~InUse(held[t])
    /\ busy' = busy \cup {t}
    /\ UNCHANGED <<entries, held, booting, closing, doomed, chromeVars>>

Stop(t) ==
    /\ t \in booting \cup busy
    /\ booting' = booting \ {t}
    /\ busy' = busy \ {t}
    /\ UNCHANGED <<entries, held, closing, doomed, chromeVars>>

Free(t) ==
    /\ held[t] # NoPlugin
    /\ t \notin booting \cup busy
    /\ held' = [held EXCEPT ![t] = NoPlugin]
    /\ UNCHANGED <<entries, useVars, closing, doomed>>
    /\ Remain(chromes)

Retire(k) ==
    /\ closing = NoPlugin
    /\ entries[k] # NoPlugin
    /\ closing' = entries[k]
    /\ entries' = [entries EXCEPT ![k] = NoPlugin]
    /\ UNCHANGED <<held, useVars, doomed, chromeVars>>

\* A shutdown of the plugin taken out, or by a user that holds it, waits for those
\* who have the session mutex.
Clear(p) ==
    /\ p # NoPlugin
    /\ p = closing \/ \E t \in Users : held[t] = p
    /\ ~InUse(p)
    /\ sessions' = sessions \ {p}
    /\ overtaken' = overtaken \ {p}
    /\ doomed' = doomed \cup {p}
    /\ UNCHANGED <<entries, held, useVars, closing, chromes>>

\* It does not wait again.  Another shutdown of the plugin may still be under way.
Kill(p) ==
    /\ p \in doomed
    /\ doomed' \in {doomed, doomed \ {p}}
    /\ \/ closing = p /\ closing' = NoPlugin /\ UNCHANGED held
       \/ \E t \in Users \ (booting \cup busy) :
            held[t] = p /\ held' = [held EXCEPT ![t] = NoPlugin] /\ UNCHANGED closing
    /\ UNCHANGED <<entries, useVars>>
    /\ Remain(chromes \ {p})

PoolNext ==
    /\ \/ \E k \in Keys : Create(k) \/ Retire(k)
       \/ \E p \in Plugins : Clear(p) \/ Kill(p)
       \/ \E t \in Users :
            \/ \E k \in Keys : Acquire(t, k)
            \/ Boot(t) \/ Store(t) \/ Open(t) \/ Serve(t) \/ Stop(t) \/ Free(t)
    /\ UNCHANGED remote

PoolSpec == PoolInit /\ [][PoolNext]_poolVars

-----------------------------------------------------------------------------

\* A command has its session as long as it runs; no two users boot a plugin or run
\* commands on it at a time; a session is over a Chrome that runs, unless it was
\* opened between the two parts of a shutdown; an entry is of its own key's
\* directory; and a plugin that nobody refers to has neither session nor Chrome.
PoolSafe ==
    /\ \A t \in busy : held[t] \in sessions
    /\ \A t, u \in booting \cup busy : held[t] = held[u] => t = u
    /\ sessions \subseteq chromes \cup remote \cup overtaken
    /\ \A k \in Keys : entries[k] # NoPlugin => entries[k] \in {k} \X Serials
    /\ chromes \cup sessions \cup overtaken \subseteq PoolReferenced
==============================================================================
