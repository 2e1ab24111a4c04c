--------------------------- MODULE MCBrowserPlugin ---------------------------
(* Values of BrowserPlugin's constants for TLC.                            *)
EXTENDS BrowserPlugin

\* Every configuration of a plugin that has its label for itself, spawning or
\* attaching, headless or not; and one that shares its label.
AllConfigs ==
    [attach : BOOLEAN, headless : BOOLEAN, shared : {FALSE}]
        \cup {[attach |-> FALSE, headless |-> TRUE, shared |-> TRUE]}

\* A plugin that spawns its own Chrome, without a window: the default.
SpawnHeadless == {[attach |-> FALSE, headless |-> TRUE, shared |-> FALSE]}
==============================================================================
