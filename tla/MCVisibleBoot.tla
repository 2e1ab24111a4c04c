---------------------------- MODULE MCVisibleBoot ----------------------------
(* VisibleBoot with the constants of MCBrowserPlugin.                      *)
EXTENDS VisibleBoot, MCBrowserPlugin
==============================================================================
