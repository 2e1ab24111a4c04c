------------------------ MODULE BrowserPluginHistory ------------------------
(***************************************************************************)
(* BrowserPlugin with history variables, for what a call promises over its *)
(* whole duration.  The history only watches: each step of HNext is a step *)
(* of Next, and every step of Next has exactly one such extension.         *)
(***************************************************************************)
EXTENDS BrowserPlugin

VARIABLES
    doomed,     \* per shutdown: the Chromes running since it was called
    cut,        \* the calls whose session was cleared since they ensured it
    excused,    \* the Chromes that exited, or were stored during a shutdown
    unmet,      \* the launch_visible requests since which no boot has begun
    owed        \* one of those replied, and no boot has begun since

hvars == <<doomed, cut, excused, unmet, owed>>
allVars == <<vars, hvars>>

HTypeOK ==
    /\ doomed \in [Admins -> SUBSET Chromes]
    /\ cut \subseteq Callers
    /\ excused \subseteq Chromes
    /\ unmet \subseteq Admins
    /\ owed \in BOOLEAN

HInit ==
    /\ Init
    /\ doomed = [a \in Admins |-> {}]
    /\ cut = {}
    /\ excused = {}
    /\ unmet = {}
    /\ owed = FALSE

SessionCleared == \E a \in Admins : Moves(a, "clearSession", "clearChrome")
Returned == {a \in Admins : Moves(a, "clearChrome", "idle")}
Asking == {a \in Admins : Moves(a, "idle", "requested")}
BootBegins == \E t \in Callers : Moves(t, "ensure", "launch")

\* A Chrome that exits by itself: of the steps that move no task, the one that
\* changes what runs.
Exited == IF pc' = pc THEN live \ live' ELSE {}

\* The Chromes stored now, while a shutdown is between its two locks.
StoredMeanwhile ==
    IF \E a \in Admins : pc[a] = "clearChrome"
    THEN {launched[t] : t \in {u \in Callers : Moves(u, "devtools", "connect")}}
    ELSE {}

Watch ==
    /\ doomed' = [a \in Admins |->
            IF pc[a] # "clearSession" /\ pc'[a] = "clearSession"
            THEN live'
            ELSE doomed[a] \cap live']
    /\ cut' = {t \in Callers :
            /\ pc'[t] \in {"ensured", "relock"}
            /\ SessionCleared \/ t \in cut}
    /\ unmet' = IF BootBegins THEN {} ELSE (unmet \cup Asking) \ Returned
    /\ owed' = (~BootBegins /\ (owed \/ Returned \cap unmet # {}))
    /\ excused' = {c \in excused \cup Exited \cup StoredMeanwhile : ~Fresh(c)'}

HNext == Next /\ Watch

HSpec == HInit /\ [][HNext]_allVars

\* With the fairness of Spec, which the history does not touch.
HFairSpec == HSpec /\ Fairness

-----------------------------------------------------------------------------

\* When shutdown_chrome returns, no Chrome that ran when it was called still
\* runs: neither the one stored then, nor one whose launch was under way, though
\* other calls boot and replace Chromes between its two locks (plugin.rs 182-189).
ShutdownKills ==
    [][\A a \in Returned : doomed'[a] = {}]_allVars

\* "no active session" is answered only to a call whose session a shutdown
\* cleared after the call had ensured it: a failed boot never comes out that way
\* (plugin.rs 105-111).
NoSessionMeansShutdown ==
    [][\A t \in Callers : Moves(t, "relock", "idle") => t \in cut]_allVars

\* The boot after launch_visible is visible unless a boot began between the request
\* and the reply: no failed boot before, no shutdown and no other request takes the
\* override (plugin.rs 66-72, 206-215; admin.rs 118-139).
VisibleUnlessMet ==
    [][owed =>
        \A t \in Callers : Moves(t, "ensure", "launch") => ~headless'[t]]_allVars

\* The one way a session comes to outlive its Chrome, apart from a Chrome that
\* exits: it was booted while a shutdown was between its two locks.  No failed
\* boot, no replaced handle and no other order of calls and shutdowns leaves a
\* session behind on a killed process (plugin.rs 182-189, 200-243).
DeadSessionExplained == session \in Chromes \ live => session \in excused
==============================================================================
