--------------------------- MODULE InstanceRegistry ---------------------------
(***************************************************************************)
(* The declared instances: apply_configure (boot.rs), which diffs the      *)
(* registry against a new configuration while tool calls are routed        *)
(* through it (dispatch.rs) and admin verbs shut instances down            *)
(* (admin.rs).                                                             *)
(*                                                                         *)
(* A plugin is its label, which fixes its user_data_dir, and a serial      *)
(* number, used again when nothing refers to the plugin any more; it is    *)
(* used as PluginUse says.  Each operation on the registry map is one      *)
(* step; the host sends one `plugin.configure` at a time.                  *)
(***************************************************************************)
EXTENDS PluginUse, Naturals, Sequences, FiniteSets, Functions

CONSTANTS
    Admins,         \* concurrent admin requests that shut an instance down
    Labels,         \* sanitised instance labels
    Serials,        \* tell the plugins of one label apart
    RemoteSerials,  \* those of plugins whose configuration has a cdp_url
    NoPlugin,
    Payloads        \* the label lists a `Many` configuration may carry

Plugins == Labels \X Serials
LabelOf(p) == p[1]
Tasks == Calls \cup Admins

\* The legacy shape declares nothing in the registry.
Single == [shape |-> "single", labels |-> <<>>]
Many(ls) == [shape |-> "many", labels |-> ls]
Declared(c) == Range(c.labels)

ASSUME RegistryConstants ==
    /\ NoPlugin \notin Plugins
    /\ Calls \cap Admins = {}
    /\ RemoteSerials \subseteq Serials
    /\ Payloads \subseteq Seq(Labels)

Configurations == {Single} \cup {Many(ls) : ls \in Payloads}

VARIABLES
    registry,   \* REGISTRY: the plugin of each declared label
    configured, \* the configured_state cell; Single before the first configure
    gauge,      \* browser_instances_configured
    cpc,        \* where apply_configure is
    target,     \* its configuration; Single when it does not run
    stale,      \* the labels it has still to unregister
    todo,       \* the labels it has still to register
    closing     \* the unregistered plugin it is shutting down

configVars == <<cpc, target, stale, todo, closing>>
taskVars == <<pc, plugin>>
vars == <<registry, configured, gauge, chromeVars, remote, configVars, taskVars>>

CallPCs == {"idle", "legacy"} \cup UsePCs
AdminPCs == {"idle", "shutdown", "kill"}

TypeOK ==
    /\ registry \in [Labels -> Plugins \cup {NoPlugin}]
    /\ configured \in Configurations
    /\ gauge \in Nat
    /\ sessions \subseteq Plugins
    /\ up \subseteq Plugins
    /\ remote \subseteq Plugins
    /\ overtaken \subseteq Plugins
    /\ cpc \in {"idle", "reload", "close", "kill", "count"}
    /\ target \in Configurations
    /\ stale \subseteq Labels
    /\ todo \in Seq(Labels)
    /\ closing \in Plugins \cup {NoPlugin}
    /\ pc \in [Tasks -> CallPCs \cup AdminPCs]
    /\ \A t \in Calls : pc[t] \in CallPCs
    /\ \A a \in Admins : pc[a] \in AdminPCs
    /\ plugin \in [Tasks -> Plugins \cup {NoPlugin}]

Init ==
    /\ registry = [l \in Labels |-> NoPlugin]
    /\ configured = Single
    /\ gauge = 0
    /\ sessions = {}
    /\ up = {}
    /\ remote = Labels \X RemoteSerials
    /\ overtaken = {}
    /\ cpc = "idle"
    /\ target = Single
    /\ stale = {}
    /\ todo = <<>>
    /\ closing = NoPlugin
    /\ pc = [t \in Tasks |-> "idle"]
    /\ plugin = [t \in Tasks |-> NoPlugin]

Registered == {l \in Labels : registry[l] # NoPlugin}
\* The plugins some Arc points to.
Referenced == {registry[l] : l \in Labels} \cup {plugin[t] : t \in Tasks} \cup {closing}

\* The plugins of which a shutdown is between its locks.
Cleared ==
    {p \in {closing} : cpc = "kill"} \cup {plugin[a] : a \in {b \in Admins : pc[b] = "kill"}}

-----------------------------------------------------------------------------
(* apply_configure.                                                        *)

\* Mutation: duplicate labels are accepted.
ConfigureDuplicates(c) ==
    /\ cpc = "idle"
    /\ cpc' = "reload"
    /\ target' = c
    /\ stale' = Registered \ Declared(c)
    /\ todo' = c.labels
    /\ UNCHANGED <<registry, configured, gauge, chromeVars, remote, closing, taskVars>>

\* Mutation: every instance is unregistered, kept ones included.
ConfigureAfresh(c) ==
    /\ cpc = "idle"
    /\ IsInjective(c.labels)
    /\ cpc' = "reload"
    /\ target' = c
    /\ stale' = Registered
    /\ todo' = c.labels
    /\ UNCHANGED <<registry, configured, gauge, chromeVars, remote, closing, taskVars>>

\* A configuration with a duplicate or malformed label is refused before anything
\* is changed.  Otherwise the labels it no longer declares are found; Single
\* declares none.
Configure(c) ==
    /\ cpc = "idle"
    /\ IsInjective(c.labels)
    /\ cpc' = "reload"
    /\ target' = c
    /\ stale' = Registered \ Declared(c)
    /\ todo' = c.labels
    /\ UNCHANGED <<registry, configured, gauge, chromeVars, remote, closing, taskVars>>

Unregister(l) ==
    /\ cpc = "reload"
    /\ l \in stale
    /\ stale' = stale \ {l}
    /\ closing' = registry[l]
    /\ registry' = [registry EXCEPT ![l] = NoPlugin]
    /\ cpc' = "close"
    /\ UNCHANGED <<configured, gauge, chromeVars, remote, target, todo, taskVars>>

\* shutdown_chrome, first lock: it waits for the command that runs on the instance.
ClearStale ==
    /\ cpc = "close"
    /\ ClearSession(closing)
    /\ cpc' = "kill"
    /\ UNCHANGED <<registry, configured, gauge, target, stale, todo, closing, taskVars>>

\* Second lock: it does not wait for one that began in between.
KillStale ==
    /\ cpc = "kill"
    /\ closing' = NoPlugin
    /\ cpc' = "reload"
    /\ UNCHANGED <<registry, configured, gauge, target, stale, todo, taskVars>>
    /\ Keep(up \ {closing}, Referenced')

Unused(l) == ({l} \X Serials) \ Referenced

\* A label that was registered before gets a new plugin, with or without a cdp_url;
\* the old one is dropped from the map without a shutdown.
Register ==
    /\ cpc = "reload"
    /\ stale = {}
    /\ todo # <<>>
    /\ \E S \in {Unused(Head(todo)) \cap remote, Unused(Head(todo)) \ remote} \ {{}} :
        registry' = [registry EXCEPT ![Head(todo)] = CHOOSE p \in S : TRUE]
    /\ todo' = Tail(todo)
    /\ UNCHANGED <<configured, gauge, cpc, target, stale, closing, taskVars>>
    /\ Keep(up, Referenced')

\* Single: the cell is written, and the gauge stays as it was.
WriteTemplate ==
    /\ cpc = "reload"
    /\ target.shape = "single"
    /\ stale = {}
    /\ configured' = target
    /\ cpc' = "idle"
    /\ UNCHANGED <<registry, gauge, chromeVars, remote, target, stale, todo, closing, taskVars>>

WriteSnapshot ==
    /\ cpc = "reload"
    /\ target.shape = "many"
    /\ stale = {}
    /\ todo = <<>>
    /\ configured' = target
    /\ cpc' = "count"
    /\ UNCHANGED <<registry, gauge, chromeVars, remote, target, stale, todo, closing, taskVars>>

CountInstances ==
    /\ cpc = "count"
    /\ gauge' = Len(target.labels)
    /\ cpc' = "idle"
    /\ target' = Single
    /\ UNCHANGED <<registry, configured, chromeVars, remote, stale, todo, closing, taskVars>>

-----------------------------------------------------------------------------
(* Tool calls and admin verbs.  A refused one changes nothing.             *)

Take(t, p, label) ==
    /\ plugin' = [plugin EXCEPT ![t] = p]
    /\ pc' = [pc EXCEPT ![t] = label]
    /\ UNCHANGED <<registry, configured, gauge, chromeVars, remote, configVars>>

\* Case 1: the call names a declared instance.
RouteExplicit(t, l) ==
    /\ pc[t] = "idle"
    /\ l \in Registered
    /\ Take(t, registry[l], "dispatch")

\* Case 2: it names none, and one is registered.
RouteImplicit(t) ==
    /\ pc[t] = "idle"
    /\ \E l \in Registered :
        /\ Registered = {l}
        /\ Take(t, registry[l], "dispatch")

\* Mutation: the legacy case is taken for a routed one.
RouteLegacyOn(t) ==
    /\ pc[t] = "idle"
    /\ Registered = {}
    /\ Take(t, NoPlugin, "dispatch")

\* Case 3: it names none, and none is registered: the plugin of its agent.
RouteLegacy(t) ==
    /\ pc[t] = "idle"
    /\ Registered = {}
    /\ Take(t, NoPlugin, "legacy")

\* What waits for the session mutex, boots and runs a command,
Use(t) ==
    /\ \/ Execute(t) \/ SessionFound(t) \/ Spawn(t) \/ StoreChrome(t) \/ Attach(t)
       \/ OpenSession(t, Cleared) \/ PollAgain(t)
    /\ UNCHANGED <<registry, configured, gauge, configVars>>

\* and what ends it.
Finish(t) ==
    /\ RejectArguments(t) \/ BootFails(t) \/ EndCommand(t)
    /\ UNCHANGED <<registry, configured, gauge, configVars>>

\* The handler lets its plugin go.
Return(t) ==
    /\ pc[t] \in {"done", "legacy"}
    /\ Goto(t, "idle")
    /\ plugin' = [plugin EXCEPT ![t] = NoPlugin]
    /\ UNCHANGED <<registry, configured, gauge, configVars>>
    /\ Keep(up, Referenced')

\* shutdown, restart and launch_visible look the instance up,
AdminLookup(a, l) ==
    /\ pc[a] = "idle"
    /\ l \in Registered
    /\ Take(a, registry[l], "shutdown")

\* and shut down the plugin they found, which a reload may have replaced: they wait
\* for its session mutex
AdminClear(a) ==
    /\ pc[a] = "shutdown"
    /\ ClearSession(plugin[a])
    /\ Goto(a, "kill")
    /\ UNCHANGED <<registry, configured, gauge, configVars, plugin>>

\* and, without it, drop its Chrome.
AdminKill(a) ==
    /\ pc[a] = "kill"
    /\ Goto(a, "idle")
    /\ plugin' = [plugin EXCEPT ![a] = NoPlugin]
    /\ UNCHANGED <<registry, configured, gauge, configVars>>
    /\ Keep(up \ {plugin[a]}, Referenced')

-----------------------------------------------------------------------------

ConfigureStep ==
    \/ \E l \in Labels : Unregister(l)
    \/ ClearStale
    \/ KillStale
    \/ Register
    \/ WriteTemplate
    \/ WriteSnapshot
    \/ CountInstances

CallStep(t) == Use(t) \/ Finish(t) \/ Return(t)
AdminStep(a) == AdminClear(a) \/ AdminKill(a)

Next ==
    \/ \E c \in Configurations : Configure(c)
    \/ ConfigureStep
    \/ \E t \in Calls :
        \/ \E l \in Labels : RouteExplicit(t, l)
        \/ RouteImplicit(t)
        \/ RouteLegacy(t)
        \/ CallStep(t)
    \/ \E a \in Admins : AdminStep(a) \/ \E l \in Labels : AdminLookup(a, l)

Ends(t) == pc[t] \in LockedPCs /\ Finish(t)

\* A command ends by its timeout, and polling with its deadline (hence SF).  Nothing
\* more is assumed for a task that waits for a session mutex: those it waits for
\* come to an end.  Reloads, calls and admin requests are not owed.
Fairness ==
    /\ WF_vars(ConfigureStep)
    /\ \A t \in Calls : WF_vars(CallStep(t)) /\ SF_vars(Ends(t))
    /\ \A a \in Admins : WF_vars(AdminStep(a))

Spec == Init /\ [][Next]_vars /\ Fairness

-----------------------------------------------------------------------------

\* Between reloads the registry, the snapshot cell and, for declared instances, the
\* gauge tell the same: what the last accepted configuration declares, whatever
\* was registered before and whatever calls did meanwhile (boot.rs 64-94).
RegistryIsConfigured ==
    cpc = "idle" =>
        /\ Registered = Declared(configured)
        /\ configured.shape = "many" => gauge = Cardinality(Registered)

\* An instance that the old configuration and the new one both declare can be named
\* at every moment of the reload (boot.rs 64-90).
KeptInstancesServe ==
    cpc # "idle" => Declared(configured) \cap Declared(target) \subseteq Registered

\* A reload ends, though it waits behind the commands of every instance it drops
\* (boot.rs 69-79).
ReloadsEnd == cpc # "idle" ~> cpc = "idle"

\* The Chrome of a plugin that is no longer registered ends, though calls that found
\* the plugin before may boot it after its shutdown, and a kept label's old plugin
\* is not shut down at all (boot.rs 70-71, 84; chrome.rs 88-98).
ReplacedChromesEnd ==
    \A p \in Plugins : p \in up /\ registry[LabelOf(p)] # p ~> p \notin up

\* dispatch.rs 25-26: "No arg + 0 instances declared -> fall back to legacy".  A call
\* goes to the legacy plugin only if the configuration in force, or the one
\* being applied, declares no instance.
LegacyOnlyWithoutInstances ==
    [][\A t \in Calls : pc[t] = "idle" /\ pc'[t] = "legacy" =>
        Declared(configured) = {} \/ (cpc # "idle" /\ Declared(target) = {})]_vars

\* The registry is a pool of plugins too, though a reload replaces the plugin of a
\* label it keeps and admin requests shut down plugins that calls hold: no command
\* loses its session, none its Chrome but between the locks of a shutdown, and
\* nothing is left behind (boot.rs 64-94, admin.rs 57-139, plugin.rs 183-252).
Pool == INSTANCE PluginPool WITH
    Users <- Tasks,
    Keys <- Labels,
    entries <- registry,
    held <- plugin,
    booting <- {t \in Calls : pc[t] \in {"launch", "connect"}},
    busy <- {t \in Calls : pc[t] = "running"},
    doomed <- Cleared,
    chromes <- up

ImplementsPluginPool == Pool!PoolSpec
==============================================================================
