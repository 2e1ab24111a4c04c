------------------------------ MODULE PluginUse ------------------------------
(***************************************************************************)
(* How tool calls and shutdowns use the BrowserPlugins (src/src/plugin.rs) *)
(* that the maps of main.rs and instance_registry.rs hand out.  Each       *)
(* plugin is seen as far as its users meet on it: whether it has a         *)
(* session, whether the process its `chrome` field owns runs, and who has  *)
(* its session mutex.  The override, the metrics, the queue of the mutex   *)
(* and Chromes that exit by themselves are BrowserPlugin's subject.        *)
(*                                                                         *)
(* `execute` takes the session mutex twice.  A call that loses its session *)
(* between the two is one whose boot fails; one that gets to its command   *)
(* took the mutex, for the others, once.                                   *)
(***************************************************************************)

CONSTANT Calls      \* concurrent on_tool handlers

VARIABLES
    pc,         \* where each task is
    plugin,     \* the plugin it holds
    sessions,   \* the plugins that have a CDP session
    up,         \* the plugins whose own Chrome runs
    remote,     \* the plugins built with a cdp_url: they attach and own no Chrome
    overtaken   \* history: sessions opened while a shutdown was between its locks

chromeVars == <<sessions, up, overtaken>>

\* From the spawn to the end of the command the session mutex is held.
LockedPCs == {"launch", "connect", "running"}
UsePCs == {"dispatch", "waiting", "done"} \cup LockedPCs

Locked(p) == \E t \in Calls : pc[t] \in LockedPCs /\ plugin[t] = p
Goto(t, label) == pc' = [pc EXCEPT ![t] = label]

\* Mutation: the mutex is not held between the check and the end of the boot.
MustBootUnlocked(t) ==
    /\ pc[t] = "waiting"
    /\ plugin[t] \notin sessions

\* The session mutex is the caller's, and there is no session yet.
MustBoot(t) ==
    /\ pc[t] = "waiting"
    /\ ~Locked(plugin[t])
    /\ plugin[t] \notin sessions

\* A missing argument or an unknown tool is found before execute is called.
RejectArguments(t) ==
    /\ pc[t] = "dispatch"
    /\ Goto(t, "done")
    /\ UNCHANGED <<plugin, remote, chromeVars>>

Execute(t) ==
    /\ pc[t] = "dispatch"
    /\ Goto(t, "waiting")
    /\ UNCHANGED <<plugin, remote, chromeVars>>

\* Whether or not its Chrome still runs.
SessionFound(t) ==
    /\ pc[t] = "waiting"
    /\ ~Locked(plugin[t])
    /\ plugin[t] \in sessions
    /\ Goto(t, "running")
    /\ UNCHANGED <<plugin, remote, chromeVars>>

\* A Chrome is started, beside the one an earlier boot may have left.
Spawn(t) ==
    /\ MustBoot(t)
    /\ plugin[t] \notin remote
    /\ Goto(t, "launch")
    /\ UNCHANGED <<plugin, remote, chromeVars>>

\* The handle is stored, and one that an earlier boot left is dropped.
StoreChrome(t) ==
    /\ pc[t] = "launch"
    /\ up' = up \cup {plugin[t]}
    /\ Goto(t, "connect")
    /\ UNCHANGED <<plugin, remote, sessions, overtaken>>

Attach(t) ==
    /\ MustBoot(t)
    /\ plugin[t] \in remote
    /\ Goto(t, "connect")
    /\ UNCHANGED <<plugin, remote, chromeVars>>

\* `cleared`: the plugins of which a shutdown is between its locks.
OpenSession(t, cleared) ==
    /\ pc[t] = "connect"
    /\ plugin[t] \in up \cup remote
    /\ sessions' = sessions \cup {plugin[t]}
    /\ overtaken' = overtaken \cup (cleared \cap {plugin[t]})
    /\ Goto(t, "running")
    /\ UNCHANGED <<plugin, remote, up>>

\* No session: before a Chrome is spawned, before its DevTools line, which kills
\* it, or, with the Chrome stored and left running, at the connection.
BootFails(t) ==
    /\ MustBoot(t) \/ pc[t] \in {"launch", "connect"}
    /\ Goto(t, "done")
    /\ UNCHANGED <<plugin, remote, chromeVars>>

\* Mutation: no timeout around the command, which a dead Chrome never answers.
EndCommandAnswered(t) ==
    /\ pc[t] = "running"
    /\ plugin[t] \in up \cup remote
    /\ Goto(t, "done")
    /\ UNCHANGED <<plugin, remote, chromeVars>>

\* An answer, an error or the command timeout.
EndCommand(t) ==
    /\ pc[t] = "running"
    /\ Goto(t, "done")
    /\ UNCHANGED <<plugin, remote, chromeVars>>

\* browser_wait_for calls execute again, whatever became of the last call.
PollAgain(t) ==
    /\ pc[t] \in LockedPCs
    /\ Goto(t, "waiting")
    /\ UNCHANGED <<plugin, remote, chromeVars>>

\* Mutation: the session is cleared without its mutex.
ClearSessionUnlocked(p) ==
    /\ sessions' = sessions \ {p}
    /\ overtaken' = overtaken \ {p}
    /\ UNCHANGED <<up, remote>>

\* shutdown_chrome, under its first lock: it waits for the session mutex.
ClearSession(p) ==
    /\ ~Locked(p)
    /\ sessions' = sessions \ {p}
    /\ overtaken' = overtaken \ {p}
    /\ UNCHANGED <<up, remote>>

\* Mutation: RunningChrome has no Drop.
KeepAll(C, S) ==
    /\ up' = C
    /\ sessions' = sessions \cap S
    /\ overtaken' = overtaken \cap S
    /\ UNCHANGED remote

\* The plugins outside S are dropped, and with them what they have; of the
\* Chromes that are not, those in C run on.
Keep(C, S) ==
    /\ up' = C \cap S
    /\ sessions' = sessions \cap S
    /\ overtaken' = overtaken \cap S
    /\ UNCHANGED remote
==============================================================================
