------------------------ MODULE InstanceRegistryProofs ------------------------
(***************************************************************************)
(* Proofs about InstanceRegistry: between reloads the registry is what the *)
(* last configuration declares, and a reload never takes away an instance  *)
(* that both configurations declare.  And the registry implements          *)
(* PluginPool, whose safety it inherits.                                   *)
(***************************************************************************)
EXTENDS InstanceRegistry, FiniteSetTheorems, TLAPS

-----------------------------------------------------------------------------
(* The inductive invariant.                                                *)

\* A routed call holds a plugin, and so does a reload or a request that shuts one down.
HoldersInv ==
    /\ \A t \in Tasks : pc[t] \notin {"idle", "legacy"} => plugin[t] \in Plugins
    /\ \A t \in Tasks : pc[t] \in {"idle", "legacy"} => plugin[t] = NoPlugin
    /\ closing # NoPlugin <=> cpc \in {"close", "kill"}

\* Accepted configurations have no duplicate labels.
AcceptedInv == IsInjective(configured.labels) /\ IsInjective(target.labels)

\* What a reload still has to do: the registry lacks at most the labels to be
\* registered, and has in excess exactly those to be unregistered.
ReloadInv ==
    cpc \in {"reload", "close", "kill"} =>
        /\ stale = Registered \ Declared(target)
        /\ Declared(target) \subseteq Registered \cup Range(todo)
        /\ Range(todo) \subseteq Declared(target)

\* What is left once the snapshot is written.
CountInv ==
    cpc = "count" =>
        /\ target.shape = "many"
        /\ configured = target
        /\ Registered = Declared(target)

SettledInv ==
    cpc = "idle" =>
        /\ Registered = Declared(configured)
        /\ configured.shape = "many" => gauge = Len(configured.labels)

RInv ==
    /\ TypeOK
    /\ HoldersInv
    /\ AcceptedInv
    /\ ReloadInv
    /\ CountInv
    /\ SettledInv
    /\ KeptInstancesServe

\* What routing, booting, returning and shutting down leave alone.
reloadState == <<registry, configured, gauge, cpc, target, stale, todo>>

TaskMoves ==
    \/ \E t \in Calls :
        \/ \E l \in Labels : RouteExplicit(t, l)
        \/ RouteImplicit(t)
        \/ RouteLegacy(t)
        \/ CallStep(t)
    \/ \E a \in Admins : AdminStep(a) \/ \E l \in Labels : AdminLookup(a, l)

USE DEF Goto, chromeVars, UsePCs, LockedPCs, CallPCs, AdminPCs

-----------------------------------------------------------------------------

\* Configurations are records of a shape and of a sequence of labels.
LEMMA ConfigurationShape ==
    ASSUME NEW c \in Configurations
    PROVE  /\ c.shape \in {"single", "many"}
           /\ c.labels \in Seq(Labels)
           /\ Declared(c) \subseteq Labels
           /\ c.shape = "single" => c.labels = <<>>
<1>1. /\ c.shape \in {"single", "many"}
      /\ c.labels \in Seq(Labels)
      /\ c.shape = "single" => c.labels = <<>>
  <2>1. CASE c = Single
    <3>1. <<>> \in Seq(Labels)
        OBVIOUS
    <3>2. QED
        BY <2>1, <3>1 DEF Single
  <2>2. CASE \E ls \in Payloads : c = Many(ls)
    BY <2>2, RegistryConstants DEF Many
  <2>3. QED
    BY <2>1, <2>2 DEF Configurations
<1>2. QED
    BY <1>1 DEF Declared, Range

\* A sequence holds its head and the elements of its tail.
LEMMA RangeHeadTail ==
    ASSUME NEW S, NEW s \in Seq(S), s # <<>>
    PROVE  /\ Head(s) \in S
           /\ Tail(s) \in Seq(S)
           /\ Range(s) = {Head(s)} \cup Range(Tail(s))
<1>1. /\ Head(s) \in S /\ Tail(s) \in Seq(S)
      /\ Len(s) \in Nat \ {0}
      /\ Len(Tail(s)) = Len(s) - 1
      /\ Head(s) = s[1]
      /\ \A i \in 1 .. Len(Tail(s)) : Tail(s)[i] = s[i + 1]
    OBVIOUS
<1>2. DOMAIN s = 1 .. Len(s) /\ DOMAIN Tail(s) = 1 .. Len(Tail(s))
    BY <1>1
<1>3. Range(s) \subseteq {Head(s)} \cup Range(Tail(s))
  <2> SUFFICES ASSUME NEW i \in 1 .. Len(s), i # 1 PROVE s[i] \in Range(Tail(s))
    BY <1>1, <1>2 DEF Range
  <2>1. i - 1 \in 1 .. Len(Tail(s)) /\ s[i] = Tail(s)[i - 1]
    BY <1>1
  <2>2. QED
    BY <1>2, <2>1 DEF Range
<1>4. {Head(s)} \cup Range(Tail(s)) \subseteq Range(s)
  <2>1. Head(s) \in Range(s)
    BY <1>1, <1>2 DEF Range
  <2>2. ASSUME NEW i \in 1 .. Len(Tail(s)) PROVE Tail(s)[i] \in Range(s)
    <3>1. i + 1 \in 1 .. Len(s) /\ Tail(s)[i] = s[i + 1]
        BY <1>1
    <3>2. QED
        BY <1>2, <3>1 DEF Range
  <2>3. QED
    BY <1>2, <2>1, <2>2 DEF Range
<1>5. QED
    BY <1>1, <1>3, <1>4

\* A sequence without duplicates is as long as the set of its elements is large.
LEMMA LengthCountsElements ==
    ASSUME NEW S, NEW s \in Seq(S), IsInjective(s)
    PROVE  Cardinality(Range(s)) = Len(s)
<1>1. Len(s) \in Nat /\ DOMAIN s = 1 .. Len(s)
    OBVIOUS
<1>2. s \in [1 .. Len(s) -> Range(s)]
    BY <1>1 DEF Range
<1>3. s \in Bijection(1 .. Len(s), Range(s))
    BY <1>1, <1>2 DEF Bijection, Injection, Surjection, Range
<1>4. IsFiniteSet(1 .. Len(s)) /\ Cardinality(1 .. Len(s)) = Len(s)
    BY <1>1, FS_Interval
<1>5. QED
    BY <1>3, <1>4, FS_Bijection DEF ExistsBijection

-----------------------------------------------------------------------------

\* An empty registry satisfies the invariant.
LEMMA InitRInv == Init => RInv
<1> SUFFICES ASSUME Init PROVE RInv
    OBVIOUS
<1>1. Single \in Configurations /\ Declared(Single) = {} /\ IsInjective(Single.labels)
    BY DEF Configurations, Single, Declared, Range, IsInjective
<1>2. Registered = {}
    BY DEF Init, Registered
<1>3. TypeOK
    <2>1. remote \subseteq Plugins
        BY RegistryConstants DEF Init, Plugins
    <2>2. todo \in Seq(Labels)
        BY DEF Init
    <2>3. /\ pc \in [Tasks -> CallPCs \cup AdminPCs] /\ \A t \in Tasks : pc[t] = "idle"
          /\ Calls \subseteq Tasks /\ Admins \subseteq Tasks
          /\ "idle" \in CallPCs /\ "idle" \in AdminPCs
        BY DEF Init, CallPCs, AdminPCs, Tasks
    <2>4. /\ registry \in [Labels -> Plugins \cup {NoPlugin}]
          /\ plugin \in [Tasks -> Plugins \cup {NoPlugin}]
        BY DEF Init
    <2>5. QED
        BY <1>1, <2>1, <2>2, <2>3, <2>4 DEF Init, TypeOK
<1>4. HoldersInv
    BY DEF Init, HoldersInv, Tasks
<1>5. AcceptedInv /\ ReloadInv /\ CountInv /\ KeptInstancesServe
    BY <1>1 DEF Init, AcceptedInv, ReloadInv, CountInv, KeptInstancesServe
<1>6. SettledInv
    BY <1>1, <1>2 DEF Init, SettledInv, Single
<1>7. QED
    BY <1>3, <1>4, <1>5, <1>6 DEF RInv

\* What the use of a plugin changes.
LEMMA UseFrame ==
    ASSUME RInv, NEW t \in Calls, Use(t) \/ Finish(t)
    PROVE  /\ pc[t] \in UsePCs
           /\ plugin[t] \in Plugins
           /\ \E l \in UsePCs : pc' = [pc EXCEPT ![t] = l]
           /\ UNCHANGED <<registry, configured, gauge, configVars, plugin, remote>>
           /\ up' \in {up, up \cup {plugin[t]}}
           /\ sessions' \in {sessions, sessions \cup {plugin[t]}}
           /\ overtaken' \in {overtaken, overtaken \cup {plugin[t]}}
<1>1. pc[t] \in UsePCs
    BY DEF Use, Finish, Execute, SessionFound, Spawn, StoreChrome, Attach, PollAgain,
           OpenSession, MustBoot, RejectArguments, BootFails, EndCommand
<1>2. plugin[t] \in Plugins
    BY <1>1 DEF RInv, HoldersInv, Tasks
<1>3. CASE Use(t)
    <2>1. CASE OpenSession(t, Cleared)
        BY <1>1, <1>2, <1>3, <2>1 DEF Use, OpenSession
    <2>2. CASE ~OpenSession(t, Cleared)
        BY <1>1, <1>2, <1>3, <2>2
           DEF Use, Execute, SessionFound, Spawn, StoreChrome, Attach, PollAgain
    <2>3. QED
        BY <2>1, <2>2
<1>4. CASE Finish(t)
    BY <1>1, <1>2, <1>4 DEF Finish, RejectArguments, BootFails, EndCommand
<1>5. QED
    BY <1>3, <1>4

\* Calls and admin verbs leave the reload alone and keep the types.
LEMMA TaskStep ==
    ASSUME RInv, TaskMoves
    PROVE  TypeOK' /\ HoldersInv' /\ UNCHANGED reloadState
<1> USE DEF RInv, TypeOK, HoldersInv, Tasks, Plugins, reloadState, configVars
<1>1. ASSUME NEW t \in Calls, NEW l \in Labels, RouteExplicit(t, l)
      PROVE  TypeOK' /\ HoldersInv' /\ UNCHANGED reloadState
    BY <1>1, RegistryConstants DEF RouteExplicit, Take, Registered
<1>2. ASSUME NEW t \in Calls, RouteImplicit(t) \/ RouteLegacy(t)
      PROVE  TypeOK' /\ HoldersInv' /\ UNCHANGED reloadState
  <2>1. CASE RouteImplicit(t)
    <3>1. PICK l \in Registered : Take(t, registry[l], "dispatch")
        BY <2>1 DEF RouteImplicit
    <3>2. QED
        BY <3>1, RegistryConstants DEF Take, Registered
  <2>2. CASE RouteLegacy(t)
    BY <2>2, RegistryConstants DEF RouteLegacy, Take
  <2>3. QED
    BY <1>2, <2>1, <2>2
<1>3. ASSUME NEW t \in Calls, CallStep(t)
      PROVE  TypeOK' /\ HoldersInv' /\ UNCHANGED reloadState
  <2>1. CASE Use(t) \/ Finish(t)
    <3>1. TypeOK'
        BY <2>1, UseFrame, RegistryConstants
    <3>2. HoldersInv'
        BY <2>1, UseFrame, RegistryConstants
    <3>3. QED
        BY <2>1, <3>1, <3>2, UseFrame
  <2>2. CASE Return(t)
    BY <2>2, RegistryConstants DEF Return, Keep
  <2>3. QED
    BY <1>3, <2>1, <2>2 DEF CallStep
<1>4. ASSUME NEW a \in Admins, NEW l \in Labels, AdminLookup(a, l)
      PROVE  TypeOK' /\ HoldersInv' /\ UNCHANGED reloadState
    BY <1>4, RegistryConstants DEF AdminLookup, Take, Registered
<1>5. ASSUME NEW a \in Admins, AdminStep(a)
      PROVE  TypeOK' /\ HoldersInv' /\ UNCHANGED reloadState
    BY <1>5, RegistryConstants DEF AdminStep, AdminClear, ClearSession, AdminKill, Keep
<1>6. QED
    BY <1>1, <1>2, <1>3, <1>4, <1>5 DEF TaskMoves

\* What only reads the state of the reload is kept by a step that leaves it alone.
LEMMA ReloadStateKept ==
    ASSUME RInv, UNCHANGED reloadState
    PROVE  AcceptedInv' /\ ReloadInv' /\ CountInv' /\ SettledInv' /\ KeptInstancesServe'
BY DEF RInv, reloadState, AcceptedInv, ReloadInv, CountInv, SettledInv, KeptInstancesServe,
       Registered, Declared

\* A reload begins.
LEMMA ConfigureKeeps ==
    ASSUME RInv, NEW c \in Configurations, Configure(c)
    PROVE  RInv'
<1>1. TypeOK' /\ HoldersInv'
    BY ConfigurationShape
       DEF Configure, RInv, TypeOK, HoldersInv, taskVars, Registered
<1>2. AcceptedInv' /\ CountInv' /\ SettledInv'
    BY DEF Configure, RInv, AcceptedInv, CountInv, SettledInv
<1>3. Registered' = Registered /\ Registered = Declared(configured)
    BY DEF Configure, RInv, SettledInv, Registered
<1>4. ReloadInv' /\ KeptInstancesServe'
    BY <1>3 DEF Configure, ReloadInv, KeptInstancesServe, Declared
<1>5. QED
    BY <1>1, <1>2, <1>4 DEF RInv

\* A stale instance leaves the registry.
LEMMA UnregisterKeeps ==
    ASSUME RInv, NEW l \in Labels, Unregister(l)
    PROVE  RInv'
<1>1. l \in Registered /\ l \notin Declared(target)
    BY DEF Unregister, RInv, ReloadInv
<1>2. TypeOK' /\ HoldersInv'
    BY <1>1 DEF Unregister, RInv, TypeOK, HoldersInv, taskVars, Registered
<1>3. Registered' = Registered \ {l}
    BY DEF Unregister, RInv, TypeOK, Registered
<1>4. /\ Declared(target)' = Declared(target)
      /\ Declared(configured)' = Declared(configured)
      /\ Range(todo)' = Range(todo)
    BY DEF Unregister, Declared
<1>5. AcceptedInv' /\ CountInv' /\ SettledInv'
    BY DEF Unregister, RInv, AcceptedInv, CountInv, SettledInv
<1>6. ReloadInv' /\ KeptInstancesServe'
    BY <1>1, <1>3, <1>4 DEF Unregister, RInv, ReloadInv, KeptInstancesServe
<1>7. QED
    BY <1>2, <1>5, <1>6 DEF RInv

\* The stale instance is shut down.
LEMMA CloseStaleKeeps ==
    ASSUME RInv, ClearStale \/ KillStale
    PROVE  RInv'
<1>1. TypeOK' /\ HoldersInv'
    BY DEF ClearStale, ClearSession, KillStale, Keep, RInv, TypeOK, HoldersInv, taskVars
<1>2. AcceptedInv' /\ CountInv' /\ SettledInv' /\ ReloadInv' /\ KeptInstancesServe'
    BY DEF ClearStale, KillStale, RInv, AcceptedInv, CountInv, SettledInv, ReloadInv,
           KeptInstancesServe, Registered, Declared
<1>3. QED
    BY <1>1, <1>2 DEF RInv

\* A declared instance enters the registry, perhaps in the place of its old plugin.
LEMMA RegisterKeeps ==
    ASSUME RInv, Register
    PROVE  RInv'
<1> DEFINE l == Head(todo)
<1>1. /\ l \in Labels
      /\ Tail(todo) \in Seq(Labels)
      /\ Range(todo) = {l} \cup Range(Tail(todo))
    BY RangeHeadTail DEF Register, RInv, TypeOK
<1>2. PICK p \in Unused(l) : registry' = [registry EXCEPT ![l] = p]
    BY DEF Register
<1>3. p \in Plugins /\ p # NoPlugin /\ todo' = Tail(todo)
    BY <1>1, <1>2, RegistryConstants DEF Unused, Plugins, Register
<1> HIDE DEF l
<1>4. Registered' = Registered \cup {l}
    BY <1>1, <1>2, <1>3 DEF RInv, TypeOK, Registered
<1>5. TypeOK' /\ HoldersInv'
    BY <1>1, <1>2, <1>3 DEF Register, Keep, RInv, TypeOK, HoldersInv, taskVars
<1>6. AcceptedInv' /\ CountInv' /\ SettledInv'
    BY DEF Register, RInv, AcceptedInv, CountInv, SettledInv
<1>7. /\ Declared(target)' = Declared(target)
      /\ Declared(configured)' = Declared(configured)
      /\ stale' = stale
      /\ cpc = "reload" /\ cpc' = "reload"
    BY DEF Register, Declared
<1>8. ReloadInv' /\ KeptInstancesServe'
  <2>1. l \in Declared(target)
    BY <1>1, <1>7 DEF RInv, ReloadInv
  <2>2. QED
    BY <1>1, <1>3, <1>4, <1>7, <2>1 DEF RInv, ReloadInv, KeptInstancesServe
<1>9. QED
    BY <1>5, <1>6, <1>8 DEF RInv

\* The registry is complete, and the snapshot cell is written.
LEMMA WriteSnapshotKeeps ==
    ASSUME RInv, WriteSnapshot
    PROVE  RInv'
<1>1. Registered = Declared(target)
  <2>1. Range(todo) = {}
    BY DEF WriteSnapshot, Range
  <2>2. QED
    BY <2>1 DEF WriteSnapshot, RInv, ReloadInv
<1>2. TypeOK' /\ HoldersInv'
    BY DEF WriteSnapshot, RInv, TypeOK, HoldersInv, taskVars
<1>3. target.shape \in {"single", "many"}
    BY ConfigurationShape DEF RInv, TypeOK
<1>4. /\ Registered' = Registered
      /\ Declared(target)' = Declared(target)
      /\ Declared(configured)' = Declared(target)
    BY DEF WriteSnapshot, Registered, Declared
<1>5. AcceptedInv' /\ ReloadInv' /\ CountInv' /\ SettledInv' /\ KeptInstancesServe'
    BY <1>1, <1>3, <1>4 DEF WriteSnapshot, RInv, AcceptedInv, ReloadInv, CountInv,
                            SettledInv, KeptInstancesServe
<1>6. QED
    BY <1>2, <1>5 DEF RInv

\* The registry is empty, and the template is written.
LEMMA WriteTemplateKeeps ==
    ASSUME RInv, WriteTemplate
    PROVE  RInv'
<1>1. Declared(target) = {}
    <2>1. target.labels = <<>>
        BY ConfigurationShape DEF WriteTemplate, RInv, TypeOK
    <2>2. QED
        BY <2>1 DEF Declared, Range
<1>2. Registered = {}
    BY <1>1 DEF WriteTemplate, RInv, ReloadInv
<1>3. TypeOK' /\ HoldersInv'
    BY DEF WriteTemplate, RInv, TypeOK, HoldersInv, taskVars
<1>4. /\ Registered' = Registered
      /\ Declared(target)' = Declared(target)
      /\ Declared(configured)' = Declared(target)
    BY DEF WriteTemplate, Registered, Declared
<1>5. AcceptedInv' /\ ReloadInv' /\ CountInv' /\ SettledInv' /\ KeptInstancesServe'
    BY <1>1, <1>2, <1>4 DEF WriteTemplate, RInv, AcceptedInv, ReloadInv, CountInv,
                            SettledInv, KeptInstancesServe
<1>6. QED
    BY <1>3, <1>5 DEF RInv

\* The gauge is set, and the reload returns.
LEMMA CountInstancesKeeps ==
    ASSUME RInv, CountInstances
    PROVE  RInv'
<1>1. Single \in Configurations /\ IsInjective(Single.labels)
    BY DEF Configurations, Single, IsInjective
<1>2. Len(target.labels) \in Nat
    BY ConfigurationShape DEF RInv, TypeOK
<1>3. TypeOK' /\ HoldersInv'
    BY <1>1, <1>2 DEF CountInstances, RInv, TypeOK, HoldersInv, taskVars
<1>4. Registered' = Registered /\ Declared(configured)' = Declared(configured)
    BY DEF CountInstances, Registered, Declared
<1>5. AcceptedInv' /\ ReloadInv' /\ CountInv' /\ SettledInv' /\ KeptInstancesServe'
    BY <1>1, <1>4 DEF CountInstances, RInv, AcceptedInv, ReloadInv, CountInv, SettledInv,
                      KeptInstancesServe
<1>6. QED
    BY <1>3, <1>5 DEF RInv

\* Every step keeps the invariant.
LEMMA NextRInv == RInv /\ [Next]_vars => RInv'
<1>1. ASSUME RInv, TaskMoves PROVE RInv'
    BY <1>1, TaskStep, ReloadStateKept DEF RInv
<1>2. ASSUME RInv, UNCHANGED vars PROVE RInv'
  <2>1. UNCHANGED reloadState /\ TypeOK' /\ HoldersInv'
    BY <1>2 DEF RInv, TypeOK, HoldersInv, reloadState, vars, configVars, taskVars
  <2>2. QED
    BY <1>2, <2>1, ReloadStateKept DEF RInv
<1>3. QED
    BY <1>1, <1>2, ConfigureKeeps, UnregisterKeeps, CloseStaleKeeps, RegisterKeeps,
       WriteTemplateKeeps, WriteSnapshotKeeps, CountInstancesKeeps
       DEF Next, ConfigureStep, TaskMoves

\* The invariant holds in every reachable state.
THEOREM Invariance == Spec => []RInv
BY InitRInv, NextRInv, PTL DEF Spec

-----------------------------------------------------------------------------

\* The types of the registry and of the tasks around it (boot.rs 27-95).
THEOREM TypeCorrect == Spec => []TypeOK
BY Invariance, PTL DEF RInv

\* Between reloads the registry, the snapshot cell and the gauge agree with the last
\* accepted configuration, for any labels and any payloads (boot.rs 64-94).
THEOREM RegistryFollowsConfiguration == Spec => []RegistryIsConfigured
<1>1. RInv => RegistryIsConfigured
  <2> SUFFICES ASSUME RInv, cpc = "idle"
               PROVE  /\ Registered = Declared(configured)
                      /\ configured.shape = "many" => gauge = Cardinality(Registered)
    BY DEF RegistryIsConfigured
  <2>1. configured.labels \in Seq(Labels) /\ IsInjective(configured.labels)
    BY ConfigurationShape DEF RInv, TypeOK, AcceptedInv
  <2>2. Cardinality(Declared(configured)) = Len(configured.labels)
    BY <2>1, LengthCountsElements DEF Declared
  <2>3. QED
    BY <2>2 DEF RInv, SettledInv
<1>2. QED
    BY Invariance, <1>1, PTL

\* No reload takes away an instance that the old and the new configuration declare
\* (boot.rs 64-90).
THEOREM KeptInstancesStay == Spec => []KeptInstancesServe
BY Invariance, PTL DEF RInv

-----------------------------------------------------------------------------
(* The registry is a pool of plugins.                                      *)

PoolP == INSTANCE PluginPoolProofs WITH
    Users <- Tasks,
    Keys <- Labels,
    entries <- registry,
    held <- plugin,
    booting <- {t \in Calls : pc[t] \in {"launch", "connect"}},
    busy <- {t \in Calls : pc[t] = "running"},
    doomed <- Cleared,
    chromes <- up

Booting == {t \in Calls : pc[t] \in {"launch", "connect"}}
Busy == {t \in Calls : pc[t] = "running"}

\* What plugins have, they have while they are referred to.
NoOrphans == up \cup sessions \cup overtaken \subseteq Referenced

USE DEF Plugins, Pool!useVars, Pool!chromeVars, Pool!poolVars, Pool!Plugins

\* The two modules see the same references and the same users.
LEMMA SameView ==
    /\ Pool!PoolReferenced = Referenced
    /\ \A p : Pool!InUse(p) <=> Locked(p)
BY DEF Pool!PoolReferenced, Referenced, Pool!InUse, Locked

\* An empty registry is an empty pool.
LEMMA InitPool == Init => Pool!PoolInit /\ NoOrphans
BY RegistryConstants DEF Init, Pool!PoolInit, NoOrphans, Tasks, Cleared

\* What Keep leaves is what remains of the pool, and orphans nothing.
LEMMA KeepRemains ==
    ASSUME NEW C, Keep(C, Referenced')
    PROVE  Pool!Remain(C) /\ NoOrphans' /\ UNCHANGED remote
<1>1. Pool!PoolReferenced' = Referenced'
    BY DEF Pool!PoolReferenced, Referenced
<1>2. QED
    BY <1>1 DEF Keep, Pool!Remain, NoOrphans

\* A step that loses no reference orphans nothing.
LEMMA OrphansKept ==
    ASSUME RInv, NoOrphans, UNCHANGED chromeVars, Referenced \subseteq Referenced' \cup {NoPlugin}
    PROVE  NoOrphans'
BY RegistryConstants DEF NoOrphans, RInv, TypeOK

\* What the pool does not see.
LEMMA PoolStutters ==
    ASSUME NoOrphans, Booting' = Booting, Busy' = Busy, Cleared' = Cleared,
           UNCHANGED <<registry, plugin, closing, chromeVars, remote>>
    PROVE  UNCHANGED Pool!poolVars /\ NoOrphans'
BY DEF NoOrphans, Referenced, Booting, Busy

\* A step of a call neither begins a shutdown nor ends one.
LEMMA CallsClearNothing ==
    ASSUME NEW t \in Calls, UNCHANGED <<cpc, closing>>,
           \A a \in Admins : pc'[a] = pc[a] /\ plugin'[a] = plugin[a]
    PROVE  Cleared' = Cleared
BY DEF Cleared

\* Routing and the lookup of an admin verb take the plugin of an entry.
LEMMA LookupAcquires ==
    ASSUME RInv, NoOrphans, NEW t \in Tasks, NEW l \in Registered,
           NEW label \in {"dispatch", "shutdown"}, pc[t] = "idle", Take(t, registry[l], label)
    PROVE  Pool!Acquire(t, l) /\ UNCHANGED remote /\ NoOrphans'
<1>1. plugin[t] = NoPlugin /\ registry[l] # NoPlugin
    BY DEF RInv, HoldersInv, Registered
<1>2. /\ plugin' = [plugin EXCEPT ![t] = registry[l]]
      /\ pc' = [pc EXCEPT ![t] = label]
      /\ UNCHANGED <<registry, cpc, closing, chromeVars, remote>>
    BY DEF Take, configVars
<1>3. Booting' = Booting /\ Busy' = Busy
    BY <1>2 DEF RInv, TypeOK, Booting, Busy, Tasks
<1>4. Cleared' = Cleared
    <2>1. \A a \in Admins : pc'[a] = "kill" <=> pc[a] = "kill"
        BY <1>2 DEF RInv, TypeOK, Tasks
    <2>2. \A a \in Admins : pc[a] = "kill" => plugin'[a] = plugin[a]
        BY <1>2 DEF RInv, TypeOK, Tasks
    <2>3. QED
        BY <1>2, <2>1, <2>2 DEF Cleared
<1>5. Pool!Acquire(t, l)
    BY <1>1, <1>2, <1>3, <1>4 DEF Pool!Acquire, Booting, Busy
<1>6. Referenced \subseteq Referenced' \cup {NoPlugin}
    BY <1>1, <1>2 DEF Referenced, RInv, TypeOK
<1>7. QED
    BY <1>2, <1>5, <1>6, OrphansKept

\* A call that is sent to the legacy plugin holds none of the registry's.
LEMMA LegacyStutters ==
    ASSUME RInv, NoOrphans, NEW t \in Calls, RouteLegacy(t)
    PROVE  UNCHANGED Pool!poolVars /\ UNCHANGED remote /\ NoOrphans'
<1>1. /\ UNCHANGED <<registry, plugin, cpc, closing, chromeVars, remote>>
      /\ pc' = [pc EXCEPT ![t] = "legacy"] /\ pc[t] = "idle"
    BY DEF RouteLegacy, Take, configVars, RInv, TypeOK, HoldersInv, Tasks
<1>2. Booting' = Booting /\ Busy' = Busy
    BY <1>1 DEF RInv, TypeOK, Booting, Busy, Tasks
<1>3. Cleared' = Cleared
    BY <1>1, RegistryConstants, CallsClearNothing DEF RInv, TypeOK, Tasks
<1>4. QED
    BY <1>1, <1>2, <1>3, PoolStutters

\* A routed call lets its plugin go, another one has none.
LEMMA ReturnFrees ==
    ASSUME RInv, NoOrphans, NEW t \in Calls, Return(t)
    PROVE  (Pool!Free(t) \/ UNCHANGED Pool!poolVars) /\ UNCHANGED remote /\ NoOrphans'
<1>1. /\ plugin' = [plugin EXCEPT ![t] = NoPlugin]
      /\ pc' = [pc EXCEPT ![t] = "idle"] /\ pc[t] \in {"done", "legacy"}
      /\ UNCHANGED <<registry, cpc, closing>>
      /\ Keep(up, Referenced')
    BY DEF Return, configVars
<1>2. Booting' = Booting /\ Busy' = Busy /\ t \notin Booting \cup Busy
    BY <1>1 DEF RInv, TypeOK, Booting, Busy, Tasks
<1>3. Cleared' = Cleared
    BY <1>1, RegistryConstants, CallsClearNothing DEF RInv, TypeOK, Tasks
<1>4. Pool!Remain(up) /\ NoOrphans' /\ UNCHANGED remote
    BY <1>1, KeepRemains
<1>5. CASE plugin[t] # NoPlugin
    BY <1>1, <1>2, <1>3, <1>4, <1>5 DEF Pool!Free, Booting, Busy
<1>6. CASE plugin[t] = NoPlugin
    <2>1. plugin' = plugin
        BY <1>1, <1>6 DEF RInv, TypeOK, Tasks
    <2>2. Referenced' = Referenced
        BY <1>1, <2>1 DEF Referenced
    <2>3. UNCHANGED chromeVars
        BY <1>1, <2>2 DEF Keep, NoOrphans
    <2>4. QED
        BY <1>1, <1>2, <1>3, <1>4, <2>1, <2>3, PoolStutters
<1>7. QED
    BY <1>5, <1>6

\* A handler that waits for the mutex takes it to boot or to run its command.
LEMMA EntersPool ==
    ASSUME RInv, NEW t \in Calls, Use(t), SessionFound(t) \/ Spawn(t) \/ Attach(t),
           Cleared' = Cleared
    PROVE  Pool!Boot(t) \/ Pool!Serve(t)
<1>1. /\ plugin[t] # NoPlugin /\ ~Pool!InUse(plugin[t])
      /\ UNCHANGED <<registry, plugin, closing, chromeVars>>
    BY UseFrame, SameView, RegistryConstants DEF SessionFound, Spawn, Attach, MustBoot, configVars
<1>2. CASE SessionFound(t)
    <2>1. Booting' = Booting /\ Busy' = Busy \cup {t}
        BY <1>2 DEF SessionFound, RInv, TypeOK, Booting, Busy, Tasks
    <2>2. QED
        BY <1>1, <1>2, <2>1 DEF SessionFound, Pool!Serve, Booting, Busy
<1>3. CASE Spawn(t) \/ Attach(t)
    <2>1. Booting' = Booting \cup {t} /\ Busy' = Busy
        BY <1>3 DEF Spawn, Attach, MustBoot, RInv, TypeOK, Booting, Busy, Tasks
    <2>2. QED
        BY <1>1, <1>3, <2>1 DEF Spawn, Attach, MustBoot, Pool!Boot, Booting, Busy
<1>4. QED
    BY <1>2, <1>3

\* Inside it the Chrome is stored and the session opened.
LEMMA BootsInPool ==
    ASSUME RInv, NEW t \in Calls, Use(t), StoreChrome(t) \/ OpenSession(t, Cleared),
           Cleared' = Cleared
    PROVE  Pool!Store(t) \/ Pool!Open(t)
<1>1. UNCHANGED <<registry, plugin, closing>>
    BY UseFrame DEF configVars
<1>2. CASE StoreChrome(t)
    <2>1. t \in Booting /\ Booting' = Booting /\ Busy' = Busy
        BY <1>2 DEF StoreChrome, RInv, TypeOK, Booting, Busy, Tasks
    <2>2. QED
        BY <1>1, <1>2, <2>1 DEF StoreChrome, Pool!Store, Booting, Busy
<1>3. CASE OpenSession(t, Cleared)
    <2>1. t \in Booting /\ Booting' = Booting \ {t} /\ Busy' = Busy \cup {t}
        BY <1>3 DEF OpenSession, RInv, TypeOK, Booting, Busy, Tasks
    <2>2. QED
        BY <1>1, <1>3, <2>1 DEF OpenSession, Pool!Open, Booting, Busy
<1>4. QED
    BY <1>2, <1>3

\* The mutex is given up, or was not held.
LEMMA LeavesPool ==
    ASSUME RInv, NEW t \in Calls, Use(t) \/ Finish(t), Execute(t) \/ PollAgain(t) \/ Finish(t),
           Cleared' = Cleared
    PROVE  Pool!Stop(t) \/ UNCHANGED Pool!poolVars
<1>1. UNCHANGED <<registry, plugin, closing, chromeVars, remote>>
    BY UseFrame DEF Execute, PollAgain, Finish, RejectArguments, BootFails, EndCommand, configVars
<1>2. Booting' = Booting \ {t} /\ Busy' = Busy \ {t}
    BY DEF Execute, PollAgain, Finish, RejectArguments, BootFails, EndCommand, RInv, TypeOK,
           Booting, Busy, Tasks
<1>3. CASE t \in Booting \cup Busy
    BY <1>1, <1>2, <1>3 DEF Pool!Stop, Booting, Busy
<1>4. CASE t \notin Booting \cup Busy
    BY <1>1, <1>2, <1>4 DEF Booting, Busy
<1>5. QED
    BY <1>3, <1>4

\* A handler that uses its plugin is a user of the pool.
LEMMA UseIsPool ==
    ASSUME RInv, NoOrphans, NEW t \in Calls, Use(t) \/ Finish(t)
    PROVE  [Pool!PoolNext]_(Pool!poolVars) /\ NoOrphans'
<1>1. /\ plugin[t] \in Referenced /\ Referenced' = Referenced /\ UNCHANGED remote
    BY UseFrame DEF Referenced, Tasks, configVars
<1>2. NoOrphans'
    BY <1>1, UseFrame DEF NoOrphans
<1>3. Cleared' = Cleared
    BY UseFrame, CallsClearNothing, RegistryConstants DEF configVars, RInv, TypeOK, Tasks
<1>4. \/ Pool!Boot(t) \/ Pool!Serve(t) \/ Pool!Store(t) \/ Pool!Open(t) \/ Pool!Stop(t)
      \/ UNCHANGED Pool!poolVars
    BY <1>3, EntersPool, BootsInPool, LeavesPool DEF Use
<1>5. QED
    BY <1>1, <1>2, <1>4 DEF Pool!PoolNext, Tasks

\* An admin request takes the session from nobody who uses it,
LEMMA AdminClears ==
    ASSUME RInv, NoOrphans, NEW a \in Admins, AdminClear(a)
    PROVE  Pool!Clear(plugin[a]) /\ plugin[a] \in Plugins /\ UNCHANGED remote /\ NoOrphans'
<1>1. plugin[a] \in Plugins /\ plugin[a] # NoPlugin /\ ~Pool!InUse(plugin[a])
    BY SameView, RegistryConstants DEF AdminClear, ClearSession, RInv, HoldersInv, Tasks
<1>2. /\ UNCHANGED <<registry, plugin, cpc, closing>>
      /\ pc' = [pc EXCEPT ![a] = "kill"] /\ pc[a] = "shutdown"
    BY DEF AdminClear, configVars
<1>3. Booting' = Booting /\ Busy' = Busy
    BY <1>2, RegistryConstants DEF RInv, TypeOK, Booting, Busy, Tasks
<1>4. Cleared' = Cleared \cup {plugin[a]}
    <2>1. {b \in Admins : pc'[b] = "kill"} = {b \in Admins : pc[b] = "kill"} \cup {a}
        BY <1>2 DEF RInv, TypeOK, Tasks
    <2>2. QED
        BY <1>2, <2>1 DEF Cleared
<1>5. Referenced' = Referenced
    BY <1>2 DEF Referenced
<1>6. \E t \in Tasks : plugin[t] = plugin[a]
    BY DEF Tasks
<1>7. QED
    BY <1>1, <1>2, <1>3, <1>4, <1>5, <1>6
       DEF AdminClear, ClearSession, Pool!Clear, NoOrphans, Booting, Busy

\* and then its Chrome.
LEMMA AdminKills ==
    ASSUME RInv, NoOrphans, NEW a \in Admins, AdminKill(a)
    PROVE  Pool!Kill(plugin[a]) /\ plugin[a] \in Plugins /\ UNCHANGED remote /\ NoOrphans'
<1>1. /\ UNCHANGED <<registry, cpc, closing>>
      /\ plugin' = [plugin EXCEPT ![a] = NoPlugin]
      /\ pc' = [pc EXCEPT ![a] = "idle"] /\ pc[a] = "kill"
    BY DEF AdminKill, configVars
<1>2. Booting' = Booting /\ Busy' = Busy /\ a \in Tasks \ (Booting \cup Busy)
    BY <1>1, RegistryConstants DEF RInv, TypeOK, Booting, Busy, Tasks
<1>3. plugin[a] \in Cleared /\ Cleared' \in {Cleared, Cleared \ {plugin[a]}}
    <2>1. {b \in Admins : pc'[b] = "kill"} = {b \in Admins : pc[b] = "kill"} \ {a}
        BY <1>1 DEF RInv, TypeOK, Tasks
    <2>2. \A b \in Admins \ {a} : plugin'[b] = plugin[b]
        BY <1>1 DEF RInv, TypeOK, Tasks
    <2>3. Cleared = Cleared' \cup {plugin[a]}
        BY <1>1, <2>1, <2>2 DEF Cleared
    <2>4. QED
        BY <2>3
<1>4. Pool!Remain(up \ {plugin[a]}) /\ NoOrphans' /\ UNCHANGED remote
    BY KeepRemains DEF AdminKill
<1>5. plugin[a] \in Plugins
    BY <1>1 DEF RInv, HoldersInv, Tasks
<1>6. QED
    BY <1>1, <1>2, <1>3, <1>4, <1>5 DEF Pool!Kill, Booting, Busy

\* The reload takes a plugin out, shuts it down, and makes new ones.
LEMMA UnregisterRetires ==
    ASSUME RInv, NoOrphans, NEW l \in Labels, Unregister(l)
    PROVE  Pool!Retire(l) /\ UNCHANGED remote /\ NoOrphans'
<1>1. /\ closing = NoPlugin /\ closing' = registry[l]
      /\ registry[l] # NoPlugin
      /\ registry' = [registry EXCEPT ![l] = NoPlugin]
      /\ cpc = "reload" /\ cpc' = "close"
      /\ UNCHANGED <<pc, plugin, chromeVars, remote>>
    BY DEF Unregister, taskVars, RInv, HoldersInv, ReloadInv, Registered
<1>2. Referenced \subseteq Referenced' \cup {NoPlugin}
    BY <1>1 DEF Referenced, RInv, TypeOK
<1>3. NoOrphans'
    BY <1>1, <1>2, OrphansKept
<1>4. Cleared' = Cleared
    BY <1>1 DEF Cleared
<1>5. QED
    BY <1>1, <1>3, <1>4 DEF Pool!Retire

LEMMA StaleClears ==
    ASSUME RInv, NoOrphans, ClearStale
    PROVE  Pool!Clear(closing) /\ closing \in Plugins /\ UNCHANGED remote /\ NoOrphans'
<1>1. closing \in Plugins /\ closing # NoPlugin /\ ~Pool!InUse(closing)
    BY SameView DEF ClearStale, ClearSession, RInv, TypeOK, HoldersInv
<1>2. Cleared' = Cleared \cup {closing}
    BY DEF ClearStale, taskVars, Cleared
<1>3. Referenced' = Referenced
    BY DEF ClearStale, taskVars, Referenced
<1>4. QED
    BY <1>1, <1>2, <1>3 DEF ClearStale, ClearSession, taskVars, Pool!Clear, NoOrphans

LEMMA StaleKills ==
    ASSUME RInv, NoOrphans, KillStale
    PROVE  Pool!Kill(closing) /\ closing \in Plugins /\ UNCHANGED remote /\ NoOrphans'
<1>1. closing \in Plugins
    BY DEF KillStale, RInv, TypeOK, HoldersInv
<1>2. closing \in Cleared /\ Cleared' \in {Cleared, Cleared \ {closing}}
    BY DEF KillStale, taskVars, Cleared
<1>3. Pool!Remain(up \ {closing}) /\ NoOrphans' /\ UNCHANGED remote
    BY KeepRemains DEF KillStale
<1>4. QED
    BY <1>1, <1>2, <1>3 DEF KillStale, taskVars, Pool!Kill

LEMMA RegisterCreates ==
    ASSUME RInv, NoOrphans, Register
    PROVE  Pool!Create(Head(todo)) /\ Head(todo) \in Labels /\ UNCHANGED remote /\ NoOrphans'
<1> DEFINE l == Head(todo)
<1>1. l \in Labels
    BY RangeHeadTail DEF Register, RInv, TypeOK
<1>2. PICK p \in Unused(l) : registry' = [registry EXCEPT ![l] = p]
    BY DEF Register
<1>3. p \in {l} \X Serials /\ p \notin Pool!PoolReferenced
    BY <1>2, SameView DEF Unused
<1>4. UNCHANGED <<pc, plugin, cpc, closing>> /\ Cleared' = Cleared
    BY DEF Register, taskVars, Cleared
<1>5. Pool!Remain(up) /\ NoOrphans' /\ UNCHANGED remote
    BY KeepRemains DEF Register
<1>6. Pool!Create(l)
    BY <1>2, <1>3, <1>4, <1>5 DEF Pool!Create
<1>7. QED
    BY <1>1, <1>5, <1>6

\* Every step of the registry is a step of the pool, or none.
LEMMA PoolStep ==
    ASSUME RInv, NoOrphans, [Next]_vars
    PROVE  [Pool!PoolNext]_(Pool!poolVars) /\ NoOrphans'
<1> DEFINE Goal == [Pool!PoolNext]_(Pool!poolVars) /\ NoOrphans'
<1>1. ASSUME NEW t \in Calls, NEW l \in Labels, RouteExplicit(t, l) PROVE Goal
    BY <1>1, LookupAcquires DEF RouteExplicit, Pool!PoolNext, Tasks, Registered
<1>2. ASSUME NEW t \in Calls, RouteImplicit(t) PROVE Goal
    BY <1>2, LookupAcquires DEF RouteImplicit, Pool!PoolNext, Tasks, Registered
<1>3. ASSUME NEW a \in Admins, NEW l \in Labels, AdminLookup(a, l) PROVE Goal
    BY <1>3, LookupAcquires DEF AdminLookup, Pool!PoolNext, Tasks, Registered
<1>4. ASSUME NEW t \in Calls, CallStep(t) \/ RouteLegacy(t) PROVE Goal
    BY <1>4, UseIsPool, ReturnFrees, LegacyStutters DEF CallStep, Pool!PoolNext, Tasks
<1>5. ASSUME NEW a \in Admins, AdminStep(a) PROVE Goal
    BY <1>5, AdminClears, AdminKills DEF AdminStep, Pool!PoolNext
<1>6. ASSUME NEW l \in Labels, Unregister(l) PROVE Goal
    BY <1>6, UnregisterRetires DEF Pool!PoolNext
<1>7. CASE ClearStale \/ KillStale
    BY <1>7, StaleClears, StaleKills DEF Pool!PoolNext
<1>8. CASE Register
    BY <1>8, RegisterCreates DEF Pool!PoolNext
<1>9. CASE \/ \E c \in Configurations : Configure(c)
           \/ WriteTemplate \/ WriteSnapshot \/ CountInstances \/ UNCHANGED vars
    <2>1. UNCHANGED <<registry, plugin, closing, chromeVars, remote, pc>>
        BY <1>9 DEF Configure, WriteTemplate, WriteSnapshot, CountInstances, vars, configVars,
                    taskVars
    <2>2. Cleared' = Cleared
        BY <1>9, <2>1 DEF Configure, WriteTemplate, WriteSnapshot, CountInstances, vars,
                          configVars, taskVars, Cleared
    <2>3. QED
        BY <2>1, <2>2, PoolStutters DEF Booting, Busy
<1>10. QED
    BY <1>1, <1>2, <1>3, <1>4, <1>5, <1>6, <1>7, <1>8, <1>9 DEF Next, ConfigureStep

\* The registry implements the pool, for any labels, payloads, calls and admin
\* requests (boot.rs 64-94, admin.rs 57-139, dispatch.rs 46-106, plugin.rs 183-252).
THEOREM RegistryIsPluginPool == Spec => ImplementsPluginPool
<1>1. RInv /\ NoOrphans /\ [Next]_vars => [Pool!PoolNext]_(Pool!poolVars) /\ NoOrphans'
    BY PoolStep
<1>2. QED
    BY Invariance, InitPool, <1>1, PTL DEF Spec, ImplementsPluginPool, Pool!PoolSpec

\* So no reload and no admin request takes the session from under a command, its
\* Chrome only if it was booted between the locks of a shutdown, and nothing is left
\* running once its plugin is dropped.
THEOREM RegistryIsSafe == Spec => []Pool!PoolSafe
<1>1. NoPlugin \notin PoolP!Plugins
    BY RegistryConstants DEF PoolP!Plugins
<1>2. PoolP!PoolSpec => []PoolP!PoolSafe
    BY <1>1, PoolP!PoolIsSafe
<1>3. Pool!PoolInit => PoolP!PoolInit
    BY DEF Pool!PoolInit, PoolP!PoolInit, PoolP!Plugins
<1>4. [Pool!PoolNext]_(Pool!poolVars) => [PoolP!PoolNext]_(PoolP!poolVars)
    BY DEF Pool!PoolNext, Pool!Create, Pool!Retire, Pool!Clear, Pool!Kill, Pool!Acquire,
           Pool!Boot, Pool!Store, Pool!Open, Pool!Serve, Pool!Stop, Pool!Free, Pool!InUse,
           Pool!Remain, Pool!PoolReferenced,
           PoolP!PoolNext, PoolP!poolVars, PoolP!useVars, PoolP!chromeVars, PoolP!Plugins,
           PoolP!Create, PoolP!Retire, PoolP!Clear, PoolP!Kill, PoolP!Acquire, PoolP!Boot,
           PoolP!Store, PoolP!Open, PoolP!Serve, PoolP!Stop, PoolP!Free, PoolP!InUse,
           PoolP!Remain, PoolP!PoolReferenced
<1>5. PoolP!PoolSafe => Pool!PoolSafe
    BY DEF Pool!PoolSafe, PoolP!PoolSafe, Pool!PoolReferenced, PoolP!PoolReferenced
<1>6. QED
    BY <1>2, <1>3, <1>4, <1>5, RegistryIsPluginPool, PTL
       DEF ImplementsPluginPool, Pool!PoolSpec, PoolP!PoolSpec
==============================================================================
