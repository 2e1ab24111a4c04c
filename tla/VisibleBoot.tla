----------------------------- MODULE VisibleBoot -----------------------------
(***************************************************************************)
(* BrowserPlugin with history variables for the promise of launch_visible. *)
(* Like BrowserPluginHistory it only watches.                              *)
(***************************************************************************)
EXTENDS BrowserPlugin

VARIABLES
    asked,      \* the admin tasks inside a launch_visible
    promised    \* a launch_visible replied, and no boot has begun since

visibleVars == <<vars, asked, promised>>

Asking == {a \in Admins : Moves(a, "idle", "requested")}
Replied == {a \in Admins : Moves(a, "clearChrome", "idle")}
BootBegins == \E t \in Callers : Moves(t, "ensure", "launch")

VisibleInit == Init /\ asked = {} /\ promised = FALSE

VisibleNext ==
    /\ Next
    /\ asked' = (asked \cup Asking) \ Replied
    /\ promised' = (Replied \cap asked # {} \/ (promised /\ ~BootBegins))

VisibleSpec == VisibleInit /\ [][VisibleNext]_visibleVars

\* admin.rs 137, the reply of launch_visible: "Chrome will spawn visible on next
\* tool.invoke".  The first boot that begins after the reply is visible.
NextBootVisible ==
    [][promised =>
        \A t \in Callers : Moves(t, "ensure", "launch") => ~headless'[t]]_visibleVars
==============================================================================
