----------------------- MODULE MCBrowserPluginHistory -----------------------
(* BrowserPluginHistory with the constants of MCBrowserPlugin.             *)
EXTENDS BrowserPluginHistory, MCBrowserPlugin
==============================================================================
