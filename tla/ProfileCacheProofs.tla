-------------------------- MODULE ProfileCacheProofs --------------------------
(***************************************************************************)
(* Proofs about ProfileCache: its types, that agents share one Chrome      *)
(* while nothing is evicted, that evictions are justified, the bound on    *)
(* passing the cap, and that the cache implements PluginPool, whose safety *)
(* it inherits, and with it what an eviction spares.                       *)
(***************************************************************************)
EXTENDS ProfileCache, FiniteSetTheorems, TLAPS

-----------------------------------------------------------------------------
(* The inductive invariant.                                                *)

\* A handler that is not idle has its key, and from the lookup on its plugin.
Locals ==
    \A t \in Calls :
        /\ pc[t] \in {"idle", "building"} => plugin[t] = NoPlugin
        /\ pc[t] # "idle" => key[t] \in Keys
        /\ pc[t] \notin {"idle", "building"} => plugin[t] \in Plugins

\* Entries and handlers have plugins of their own key's directory.
Directories ==
    /\ \A k \in Keys : profiles[k] # NoPlugin => profiles[k] \in {k} \X Serials
    /\ \A t \in Calls : plugin[t] # NoPlugin => plugin[t] \in {key[t]} \X Serials

\* While eviction is disabled the loop sleeps, a handler's plugin is the one its
\* key is mapped to, and so is every plugin whose Chrome runs.
Undisturbed ==
    idleSecs = 0 =>
        /\ epc = "sleep"
        /\ victim = NoPlugin
        /\ \A t \in Calls : plugin[t] # NoPlugin => profiles[key[t]] = plugin[t]
        /\ \A p \in up : profiles[DirOf(p)] = p

\* One handler at a time is between its spawn and the end of its command, and one
\* that boots has found no session.
Mutexes ==
    /\ \A t, u \in Calls :
        pc[t] \in LockedPCs /\ pc[u] \in LockedPCs /\ plugin[t] = plugin[u] => t = u
    /\ \A t \in Calls : pc[t] \in {"launch", "connect"} => plugin[t] \notin sessions

\* What the loop has decided to evict was idle when it was read.
Decided ==
    /\ epc = "sleep" => toEvict = {}
    /\ \A k \in toEvict :
        profiles[k] # NoPlugin => age[k] >= idleSecs \/ k \in touched

\* The loop has a victim from its removal to the end of its shutdown.
Victims == victim # NoPlugin <=> epc \in {"shutdown", "kill"}

PInv == TypeOK /\ Locals /\ Directories /\ Undisturbed /\ Mutexes /\ Decided /\ Victims

USE DEF Plugins, DirOf, Goto, callVars, loopVars, chromeVars, UsePCs, LockedPCs

-----------------------------------------------------------------------------

\* A fresh cache satisfies the invariant.
LEMMA InitPInv == Init => PInv
BY ProfileConstants
   DEF Init, PInv, TypeOK, Locals, Directories, Undisturbed, Mutexes, Decided, Victims,
       PCs, Results

\* What the use of a plugin changes.
LEMMA UseFrame ==
    ASSUME PInv, NEW t \in Calls, Use(t) \/ Finish(t)
    PROVE  /\ pc[t] \in UsePCs
           /\ \E l \in UsePCs : pc' = [pc EXCEPT ![t] = l]
           /\ result' \in [Calls -> Results]
           /\ UNCHANGED <<idleSecs, profiles, age, key, plugin, remote, loopVars, touched>>
           /\ up' \in {up, up \cup {plugin[t]}}
           /\ sessions' \in {sessions, sessions \cup {plugin[t]}}
           /\ overtaken' \in {overtaken, overtaken \cup {plugin[t]}}
<1>1. CASE Use(t)
    <2>1. CASE OpenSession(t, Cleared)
        BY <1>1, <2>1 DEF Use, OpenSession, PInv, TypeOK
    <2>2. CASE ~OpenSession(t, Cleared)
        BY <1>1, <2>2 DEF Use, Execute, SessionFound, Spawn, StoreChrome, Attach, PollAgain,
                          MustBoot, PInv, TypeOK
    <2>3. QED
        BY <2>1, <2>2
<1>2. CASE Finish(t)
    BY <1>2 DEF Finish, RejectArguments, BootFails, EndCommand, MustBoot, PInv, TypeOK, Results
<1>3. QED
    BY <1>1, <1>2

\* Every step keeps the types.
LEMMA TypeStep == PInv /\ [Next]_vars => TypeOK'
<1> SUFFICES ASSUME PInv, [Next]_vars PROVE TypeOK'
    OBVIOUS
<1> USE ProfileConstants DEF PInv, TypeOK, Locals, PCs, Results
<1>1. ASSUME NEW t \in Calls, NEW k \in Keys, Hit(t, k) \/ Miss(t, k) PROVE TypeOK'
    BY <1>1 DEF Hit, Miss
<1>2. ASSUME NEW t \in Calls, Insert(t) PROVE TypeOK'
    BY <1>2 DEF Insert, NewEntry, Mark
<1>3. ASSUME NEW t \in Calls, Route(t) \/ Leave(t) PROVE TypeOK'
    BY <1>3 DEF Route, Leave, Keep
<1>4. ASSUME NEW t \in Calls, Use(t) \/ Finish(t) PROVE TypeOK'
    BY <1>4, UseFrame
<1>5. ASSUME NEW t \in Calls, Return(t) PROVE TypeOK'
    BY <1>5 DEF Return, Touch, Mark, Keep
<1>6. ASSUME NEW k \in Keys, ReadEntry(k) \/ Remove(k) PROVE TypeOK'
    BY <1>6 DEF ReadEntry, Remove, Entries
<1>7. CASE Wake \/ EndScan \/ ClearVictim \/ KillVictim \/ Sleep
    BY <1>7 DEF Wake, EndScan, ClearVictim, ClearSession, KillVictim, Sleep, Keep
<1>8. CASE Tick
    BY <1>8 DEF Tick, Entries
<1>9. CASE UNCHANGED vars
    BY <1>9 DEF vars
<1>10. QED
    BY <1>1, <1>2, <1>3, <1>4, <1>5, <1>6, <1>7, <1>8, <1>9 DEF Next, CallStep, LoopStep

\* Every step keeps the locals of the handlers in order.
LEMMA LocalsStep == PInv /\ [Next]_vars => Locals'
<1> SUFFICES ASSUME PInv, [Next]_vars PROVE Locals'
    OBVIOUS
<1> USE ProfileConstants DEF PInv, TypeOK, Locals, PCs, Results
<1>1. ASSUME NEW t \in Calls, NEW k \in Keys, Hit(t, k) \/ Miss(t, k) PROVE Locals'
    BY <1>1 DEF Hit, Miss
<1>2. ASSUME NEW t \in Calls, Insert(t) PROVE Locals'
    BY <1>2 DEF Insert, NewEntry
<1>3. ASSUME NEW t \in Calls, Route(t) \/ Leave(t) \/ Return(t) PROVE Locals'
    BY <1>3 DEF Route, Leave, Return
<1>4. ASSUME NEW t \in Calls, Use(t) \/ Finish(t) PROVE Locals'
    BY <1>4, UseFrame
<1>5. CASE LoopStep \/ Tick \/ UNCHANGED vars
    BY <1>5 DEF LoopStep, Wake, ReadEntry, EndScan, Remove, ClearVictim, KillVictim, Sleep,
                Tick, vars
<1>6. QED
    BY <1>1, <1>2, <1>3, <1>4, <1>5 DEF Next, CallStep

\* Every step keeps plugins with their directories.
LEMMA DirectoriesStep == PInv /\ [Next]_vars => Directories'
<1> SUFFICES ASSUME PInv, [Next]_vars PROVE Directories'
    OBVIOUS
<1> USE ProfileConstants DEF PInv, TypeOK, Locals, Directories
<1>1. ASSUME NEW t \in Calls, NEW k \in Keys, Hit(t, k) \/ Miss(t, k) PROVE Directories'
    BY <1>1 DEF Hit, Miss
<1>2. ASSUME NEW t \in Calls, Insert(t) PROVE Directories'
    BY <1>2 DEF Insert, NewEntry
<1>3. ASSUME NEW t \in Calls, Route(t) \/ Leave(t) \/ Return(t) PROVE Directories'
    BY <1>3 DEF Route, Leave, Return
<1>4. ASSUME NEW t \in Calls, Use(t) \/ Finish(t) PROVE Directories'
    BY <1>4, UseFrame
<1>5. CASE LoopStep \/ Tick \/ UNCHANGED vars
    BY <1>5 DEF LoopStep, Wake, ReadEntry, EndScan, Remove, ClearVictim, KillVictim, Sleep,
                Tick, vars
<1>6. QED
    BY <1>1, <1>2, <1>3, <1>4, <1>5 DEF Next, CallStep

\* No step changes the idle time.
LEMMA IdleKept == PInv /\ [Next]_vars => idleSecs' = idleSecs
<1> SUFFICES ASSUME PInv, [Next]_vars PROVE idleSecs' = idleSecs
    OBVIOUS
<1>1. ASSUME NEW t \in Calls, Use(t) \/ Finish(t) PROVE idleSecs' = idleSecs
    BY <1>1, UseFrame
<1>2. QED
    BY <1>1 DEF Next, CallStep, LoopStep, Hit, Miss, Insert, Route, Leave, Return, Wake, ReadEntry,
                EndScan, Remove, ClearVictim, KillVictim, Sleep, Tick, vars

\* Every step leaves an undisturbed cache undisturbed.
LEMMA UndisturbedStep == PInv /\ [Next]_vars => Undisturbed'
<1> SUFFICES ASSUME PInv, [Next]_vars, idleSecs = 0, idleSecs' = 0 PROVE Undisturbed'
    BY IdleKept DEF Undisturbed
<1> USE ProfileConstants DEF PInv, TypeOK, Locals, Directories, Undisturbed
<1>1. ASSUME NEW t \in Calls, NEW k \in Keys, Hit(t, k) \/ Miss(t, k) PROVE Undisturbed'
    BY <1>1 DEF Hit, Miss
<1>2. ASSUME NEW t \in Calls, Insert(t) PROVE Undisturbed'
    BY <1>2 DEF Insert, NewEntry
<1>3. ASSUME NEW t \in Calls, Leave(t) \/ Return(t) PROVE Undisturbed'
    BY <1>3 DEF Leave, Return, Keep
<1>4. ASSUME NEW t \in Calls, Route(t) PROVE Undisturbed'
    BY <1>4 DEF Route
<1>5. ASSUME NEW t \in Calls, Use(t) \/ Finish(t) PROVE Undisturbed'
    <2>1. plugin[t] \in {key[t]} \X Serials /\ profiles[key[t]] = plugin[t]
        BY <1>5, UseFrame
    <2>2. QED
        BY <1>5, <2>1, UseFrame
<1>6. CASE LoopStep \/ Tick \/ UNCHANGED vars
    BY <1>6 DEF LoopStep, Wake, ReadEntry, EndScan, Remove, ClearVictim, KillVictim, Sleep,
                Tick, vars
<1>7. QED
    BY <1>1, <1>2, <1>3, <1>4, <1>5, <1>6 DEF Next, CallStep

\* A step after which no more handlers have a session mutex, and no plugin has a
\* session that it did not have, keeps the mutexes in order.
LEMMA MutexesKept ==
    ASSUME PInv, sessions' \subseteq sessions,
           \A t \in Calls : pc'[t] \in LockedPCs => pc'[t] = pc[t] /\ plugin'[t] = plugin[t]
    PROVE  Mutexes'
BY DEF PInv, Mutexes

\* So does a handler that takes the mutex, holds it or gives it up.
LEMMA MutexesUse ==
    ASSUME PInv, NEW t \in Calls, Use(t) \/ Finish(t)
    PROVE  Mutexes'
<1>1. PICK l \in UsePCs : pc' = [pc EXCEPT ![t] = l]
    BY UseFrame
<1>2. plugin' = plugin /\ pc'[t] = l /\ \A u \in Calls \ {t} : pc'[u] = pc[u]
    BY <1>1, UseFrame DEF PInv, TypeOK
<1>3. CASE SessionFound(t) \/ Spawn(t) \/ Attach(t)
    <2>1. /\ ~Locked(plugin[t])
          /\ sessions' = sessions
          /\ pc'[t] \in {"launch", "connect"} => plugin[t] \notin sessions
        BY <1>2, <1>3 DEF SessionFound, Spawn, Attach, MustBoot, PInv, TypeOK
    <2>2. QED
        BY <1>2, <2>1 DEF PInv, Mutexes, Locked
<1>4. CASE StoreChrome(t)
    BY <1>2, <1>4 DEF StoreChrome, PInv, TypeOK, Mutexes
<1>5. CASE OpenSession(t, Cleared)
    <2>1. /\ pc[t] = "connect" /\ pc'[t] = "running"
          /\ sessions' = sessions \cup {plugin[t]}
        BY <1>2, <1>5 DEF OpenSession, PInv, TypeOK
    <2>2. \A u \in Calls \ {t} : pc[u] \in LockedPCs => plugin[u] # plugin[t]
        BY <2>1 DEF PInv, Mutexes
    <2>3. QED
        BY <1>2, <2>1, <2>2 DEF PInv, Mutexes
<1>6. CASE Execute(t) \/ PollAgain(t) \/ Finish(t)
    <2>1. pc'[t] \notin LockedPCs /\ sessions' = sessions
        BY <1>6 DEF Execute, PollAgain, Finish, RejectArguments, BootFails, EndCommand, PInv, TypeOK
    <2>2. QED
        BY <1>2, <2>1, MutexesKept
<1>7. QED
    BY <1>3, <1>4, <1>5, <1>6 DEF Use

\* Every step keeps the mutexes in order.
LEMMA MutexesStep == PInv /\ [Next]_vars => Mutexes'
<1> SUFFICES ASSUME PInv, [Next]_vars PROVE Mutexes'
    OBVIOUS
<1>1. ASSUME NEW t \in Calls, Use(t) \/ Finish(t) PROVE Mutexes'
    BY <1>1, MutexesUse
<1>2. ASSUME NEW t \in Calls, NEW k \in Keys, Hit(t, k) \/ Miss(t, k) PROVE Mutexes'
    BY <1>2, MutexesKept DEF Hit, Miss, PInv, TypeOK
<1>3. ASSUME NEW t \in Calls, Insert(t) \/ Route(t) \/ Leave(t) \/ Return(t) PROVE Mutexes'
    BY <1>3, MutexesKept DEF Insert, NewEntry, Route, Leave, Return, Keep, PInv, TypeOK
<1>4. CASE LoopStep \/ Tick \/ UNCHANGED vars
    BY <1>4, MutexesKept DEF LoopStep, Wake, ReadEntry, EndScan, Remove, ClearVictim, ClearSession,
                             KillVictim, Keep, Sleep, Tick, vars
<1>5. QED
    BY <1>1, <1>2, <1>3, <1>4 DEF Next, CallStep

\* Every step keeps the loop's decisions justified: only touching or creating an
\* entry lowers its age, and that is on record.
LEMMA DecidedStep == PInv /\ [Next]_vars => Decided'
<1> SUFFICES ASSUME PInv, [Next]_vars PROVE Decided'
    OBVIOUS
<1> USE ProfileConstants DEF PInv, TypeOK, Decided
<1>1. ASSUME NEW t \in Calls, NEW k \in Keys, Hit(t, k) \/ Miss(t, k) PROVE Decided'
    BY <1>1 DEF Hit, Miss
<1>2. ASSUME NEW t \in Calls, Insert(t) PROVE Decided'
    BY <1>2 DEF Insert, NewEntry, Mark, Locals
<1>3. ASSUME NEW t \in Calls, Return(t) PROVE Decided'
    BY <1>3 DEF Return, Touch, Mark, Locals
<1>4. ASSUME NEW t \in Calls, Route(t) \/ Leave(t) PROVE Decided'
    BY <1>4 DEF Route, Leave
<1>10. ASSUME NEW t \in Calls, Use(t) \/ Finish(t) PROVE Decided'
    BY <1>10, UseFrame
<1>5. ASSUME NEW k \in Keys, ReadEntry(k) \/ Remove(k) PROVE Decided'
    BY <1>5 DEF ReadEntry, Remove, Entries
<1>6. CASE Wake \/ EndScan \/ ClearVictim \/ KillVictim \/ Sleep
    BY <1>6 DEF Wake, EndScan, ClearVictim, KillVictim, Sleep
<1>7. CASE Tick
    BY <1>7 DEF Tick, Entries
<1>8. CASE UNCHANGED vars
    BY <1>8 DEF vars
<1>9. QED
    BY <1>1, <1>2, <1>3, <1>4, <1>5, <1>6, <1>7, <1>8, <1>10 DEF Next, CallStep, LoopStep

\* Every step keeps the victim with the shutdown.
LEMMA VictimsStep == PInv /\ [Next]_vars => Victims'
<1> SUFFICES ASSUME PInv, [Next]_vars PROVE Victims'
    OBVIOUS
<1> USE DEF PInv, TypeOK, Victims
<1>1. ASSUME NEW t \in Calls, Use(t) \/ Finish(t) PROVE Victims'
    BY <1>1, UseFrame
<1>2. ASSUME NEW t \in Calls,
             \/ Insert(t) \/ Route(t) \/ Leave(t) \/ Return(t)
             \/ \E k \in Keys : Hit(t, k) \/ Miss(t, k)
      PROVE  Victims'
    BY <1>2 DEF Hit, Miss, Insert, Route, Leave, Return
<1>3. CASE LoopStep \/ Tick \/ UNCHANGED vars
    BY <1>3 DEF LoopStep, Wake, ReadEntry, EndScan, Remove, ClearVictim, KillVictim, Sleep, Tick,
                vars, Entries
<1>4. QED
    BY <1>1, <1>2, <1>3 DEF Next, CallStep

\* The invariant holds in every reachable state.
THEOREM Invariance == Spec => []PInv
<1>1. PInv /\ [Next]_vars => PInv'
    BY TypeStep, LocalsStep, DirectoriesStep, UndisturbedStep, MutexesStep, DecidedStep,
       VictimsStep DEF PInv
<1>2. QED
    BY InitPInv, <1>1, PTL DEF Spec

-----------------------------------------------------------------------------

\* The types of the cache, its handlers and the loop (main.rs 52-192, 353-404).
THEOREM TypeCorrect == Spec => []TypeOK
BY Invariance, PTL DEF PInv

\* While eviction is disabled the Chromes that run on a profile directory are one
\* plugin's, and there is a second one only while its next boot starts it
\* (main.rs 145-152, plugin.rs 216-229).
THEOREM OneChromeUndisturbed == Spec => []OneChromeWithoutEviction
<1>1. ASSUME PInv PROVE OneChromeWithoutEviction
    <2> SUFFICES ASSUME idleSecs = 0 PROVE OneChromeWithoutEviction
        BY DEF OneChromeWithoutEviction
    <2>1. OneChromePerProfile
        BY <1>1 DEF PInv, Undisturbed, OneChromePerProfile
    <2>2. \A t \in Launching : plugin[t] \in {key[t]} \X Serials /\ profiles[key[t]] = plugin[t]
        <3>1. \A t \in Launching : plugin[t] # NoPlugin
            BY <1>1, ProfileConstants DEF PInv, Locals, Launching
        <3>2. QED
            BY <1>1, <3>1 DEF PInv, Directories, Undisturbed, Launching
    <2>3. ASSUME NEW t \in Launching, NEW p \in up, DirOf(plugin[t]) = DirOf(p)
          PROVE  p = plugin[t] /\ p \notin sessions
        BY <1>1, <2>2, <2>3 DEF PInv, Undisturbed, Mutexes, Launching
    <2>4. ASSUME NEW t \in Launching, NEW u \in Launching, DirOf(plugin[t]) = DirOf(plugin[u])
          PROVE  t = u
        BY <1>1, <2>2, <2>4 DEF PInv, Mutexes, Launching
    <2>5. QED
        BY <2>1, <2>3, <2>4 DEF OneChromeWithoutEviction
<1>2. QED
    BY Invariance, <1>1, PTL

\* Only idle entries, and entries touched during the same scan, are evicted
\* (main.rs 172-181).
THEOREM EvictionsAreJustified == Spec => EvictionJustified
<1> DEFINE Justified == \A k \in Entries :
        profiles'[k] = NoPlugin => age[k] >= idleSecs \/ k \in touched
<1>1. ASSUME PInv, [Next]_vars PROVE Justified
  <2> SUFFICES ASSUME NEW k \in Keys, profiles[k] # NoPlugin, profiles'[k] = NoPlugin
               PROVE age[k] >= idleSecs \/ k \in touched
    BY DEF Entries
  <2>1. \E j \in Keys : Remove(j)
    <3>1. ASSUME NEW t \in Calls, Use(t) \/ Finish(t) PROVE FALSE
        BY <1>1, <3>1, UseFrame
    <3>2. QED
        BY <1>1, <3>1, ProfileConstants
           DEF Next, CallStep, LoopStep, Hit, Miss, Insert, NewEntry, Route, Leave, Return, Wake,
               ReadEntry, EndScan, ClearVictim, KillVictim, Sleep, Tick, vars, PInv, TypeOK, Locals
  <2>2. Remove(k)
    <3>1. PICK j \in Keys : Remove(j)
        BY <2>1
    <3>2. profiles' = [profiles EXCEPT ![j] = NoPlugin] /\ profiles \in [Keys -> Plugins \cup {NoPlugin}]
        BY <1>1, <3>1 DEF Remove, PInv, TypeOK
    <3>3. j = k
        BY <3>2
    <3>4. QED
        BY <3>1, <3>3
  <2>3. QED
    BY <1>1, <2>2 DEF Remove, PInv, Decided
<1>2. QED
    BY Invariance, <1>1, PTL DEF Spec, EvictionJustified

-----------------------------------------------------------------------------
(* The bound on passing the cap.                                           *)

\* Entries and builders are finitely many.
LEMMA Finite == IsFiniteSet(Entries) /\ IsFiniteSet(Building)
BY FiniteAssumption, FS_Subset DEF Entries, Building

\* A step that adds no entry and no builder does not come nearer to the bound.
LEMMA BoundKept ==
    ASSUME OvershootBounded, Entries' \subseteq Entries, Building' \subseteq Building
    PROVE  OvershootBounded'
<1>1. /\ Cardinality(Entries') <= Cardinality(Entries)
      /\ Cardinality(Building') <= Cardinality(Building)
      /\ Cardinality(Entries') \in Nat /\ Cardinality(Building') \in Nat
      /\ Cardinality(Entries) \in Nat /\ Cardinality(Building) \in Nat
      /\ Cardinality(Calls) \in Nat
    BY Finite, FiniteAssumption, FS_Subset, FS_CardinalityType
<1>2. QED
    BY <1>1, ProfileConstants DEF OvershootBounded

\* A call that found room has at most all the others beside it.
LEMMA BoundMiss ==
    ASSUME PInv, NEW t \in Calls, NEW k \in Keys, Miss(t, k)
    PROVE  OvershootBounded'
<1>1. Entries' = Entries
    BY DEF Miss, Entries
<1>2. Cardinality(Building') <= Cardinality(Calls)
    BY FiniteAssumption, FS_Subset DEF Building
<1>3. /\ Cardinality(Entries) \in Nat
      /\ Cardinality(Calls) \in Nat
      /\ Cardinality(Building') \in Nat
  <2>1. IsFiniteSet(Building')
    BY FiniteAssumption, FS_Subset DEF Building
  <2>2. QED
    BY <2>1, Finite, FiniteAssumption, FS_CardinalityType
<1>4. QED
    BY <1>1, <1>2, <1>3, ProfileConstants DEF Miss, OvershootBounded

\* An insertion trades a builder for at most one entry.
LEMMA BoundInsert ==
    ASSUME PInv, OvershootBounded, NEW t \in Calls, Insert(t)
    PROVE  OvershootBounded'
<1>1. /\ t \in Building
      /\ Building' = Building \ {t}
    BY DEF Insert, Building, PInv, TypeOK
<1>2. Entries' \subseteq Entries \cup {key[t]}
    BY DEF Insert, NewEntry, Entries, PInv, TypeOK, Locals
<1>3. Cardinality(Building') = Cardinality(Building) - 1
    BY <1>1, Finite, FS_RemoveElement
<1>4. /\ Cardinality(Entries') <= Cardinality(Entries) + 1
      /\ Cardinality(Entries') \in Nat
  <2>1. /\ IsFiniteSet(Entries \cup {key[t]})
        /\ Cardinality(Entries \cup {key[t]}) <= Cardinality(Entries) + 1
    BY Finite, FS_AddElement, FS_CardinalityType
  <2>2. /\ IsFiniteSet(Entries')
        /\ Cardinality(Entries') <= Cardinality(Entries \cup {key[t]})
    BY <1>2, <2>1, FS_Subset
  <2>3. QED
    BY <2>1, <2>2, Finite, FS_CardinalityType
<1>5. /\ Cardinality(Entries) \in Nat
      /\ Cardinality(Building) \in Nat
      /\ Cardinality(Calls) \in Nat
    BY Finite, FiniteAssumption, FS_CardinalityType
<1>6. QED
    BY <1>3, <1>4, <1>5, ProfileConstants DEF OvershootBounded

\* Every step keeps the bound.
LEMMA BoundStep == PInv /\ OvershootBounded /\ [Next]_vars => OvershootBounded'
<1> SUFFICES ASSUME PInv, OvershootBounded, [Next]_vars PROVE OvershootBounded'
    OBVIOUS
<1>1. ASSUME NEW t \in Calls, NEW k \in Keys, Hit(t, k) PROVE OvershootBounded'
    BY <1>1, BoundKept DEF Hit, Entries, Building, PInv, TypeOK
<1>2. ASSUME NEW t \in Calls, NEW k \in Keys, Miss(t, k) PROVE OvershootBounded'
    BY <1>2, BoundMiss
<1>3. ASSUME NEW t \in Calls, Insert(t) PROVE OvershootBounded'
    BY <1>3, BoundInsert
<1>4. ASSUME NEW t \in Calls, CallStep(t), ~Insert(t) PROVE OvershootBounded'
  <2>1. Entries' \subseteq Entries /\ Building' \subseteq Building
    <3>1. CASE Use(t) \/ Finish(t)
        BY <3>1, UseFrame DEF Entries, Building, PInv, TypeOK
    <3>2. QED
        BY <1>4, <3>1 DEF CallStep, Route, Leave, Return, Entries, Building, PInv, TypeOK
  <2>2. QED
    BY <2>1, BoundKept
<1>5. CASE LoopStep \/ Tick \/ UNCHANGED vars
  <2>1. Entries' \subseteq Entries /\ Building' \subseteq Building
    BY <1>5 DEF LoopStep, Wake, ReadEntry, EndScan, Remove, ClearVictim, KillVictim, Sleep,
                Tick, vars, Entries, Building, PInv, TypeOK
  <2>2. QED
    BY <2>1, BoundKept
<1>6. QED
    BY <1>1, <1>2, <1>3, <1>4, <1>5 DEF Next

\* The cap is passed by fewer entries than there are handlers, for any cap and
\* any number of handlers and agents (main.rs 89, 99-135, 146).
THEOREM OvershootIsBounded == Spec => []OvershootBounded
<1>1. Init => OvershootBounded
  <2> SUFFICES ASSUME Init PROVE OvershootBounded
    OBVIOUS
  <2>1. Entries = {} /\ Building = {}
    BY DEF Init, Entries, Building
  <2>2. Cardinality(Entries) = 0 /\ Cardinality(Building) = 0
    BY <2>1, FS_EmptySet
  <2>3. Cardinality(Calls) \in Nat
    BY FiniteAssumption, FS_CardinalityType
  <2>4. QED
    BY <2>2, <2>3, ProfileConstants DEF OvershootBounded
<1>2. QED
    BY Invariance, <1>1, BoundStep, PTL DEF Spec

-----------------------------------------------------------------------------
(* The cache is a pool of plugins.                                         *)

PoolP == INSTANCE PluginPoolProofs WITH
    Users <- Calls,
    entries <- profiles,
    held <- plugin,
    booting <- {t \in Calls : pc[t] \in {"launch", "connect"}},
    busy <- {t \in Calls : pc[t] = "running"},
    closing <- victim,
    doomed <- Cleared,
    chromes <- up

Booting == {t \in Calls : pc[t] \in {"launch", "connect"}}
Busy == {t \in Calls : pc[t] = "running"}

\* What plugins have, they have while they are referred to.
NoOrphans == up \cup sessions \cup overtaken \subseteq Referenced

USE DEF Pool!useVars, Pool!chromeVars, Pool!poolVars, Pool!Plugins

\* The two modules see the same references and the same users.
LEMMA SameView ==
    /\ Pool!PoolReferenced = Referenced
    /\ \A p : Pool!InUse(p) <=> Locked(p)
BY DEF Pool!PoolReferenced, Referenced, Pool!InUse, Locked

\* An empty cache is an empty pool.
LEMMA InitPool == Init => Pool!PoolInit /\ NoOrphans
BY DEF Init, Pool!PoolInit, NoOrphans, Cleared

\* What Keep leaves is what remains of the pool, and orphans nothing.
LEMMA KeepRemains ==
    ASSUME NEW C, Keep(C, Referenced')
    PROVE  Pool!Remain(C) /\ NoOrphans' /\ UNCHANGED remote
<1>1. Pool!PoolReferenced' = Referenced'
    BY DEF Pool!PoolReferenced, Referenced
<1>2. QED
    BY <1>1 DEF Keep, Pool!Remain, NoOrphans

\* A step that loses no reference orphans nothing.
LEMMA OrphansKept ==
    ASSUME PInv, NoOrphans, UNCHANGED chromeVars, Referenced \subseteq Referenced' \cup {NoPlugin}
    PROVE  NoOrphans'
BY ProfileConstants DEF NoOrphans, PInv, TypeOK

\* What the pool does not see.
LEMMA PoolStutters ==
    ASSUME NoOrphans, Booting' = Booting, Busy' = Busy, Cleared' = Cleared,
           UNCHANGED <<profiles, plugin, victim, chromeVars, remote>>
    PROVE  UNCHANGED Pool!poolVars /\ NoOrphans'
BY DEF NoOrphans, Referenced, Booting, Busy

\* A lookup that finds the entry is an acquisition.
LEMMA HitAcquires ==
    ASSUME PInv, NoOrphans, NEW t \in Calls, NEW k \in Keys, Hit(t, k)
    PROVE  Pool!Acquire(t, k) /\ UNCHANGED remote /\ NoOrphans'
<1>1. plugin[t] = NoPlugin /\ plugin' = [plugin EXCEPT ![t] = profiles[k]]
    BY DEF Hit, PInv, Locals
<1>2. Booting' = Booting /\ Busy' = Busy /\ Cleared' = Cleared
    BY DEF Hit, PInv, TypeOK, Booting, Busy, Cleared
<1>3. Pool!Acquire(t, k)
    BY <1>1, <1>2 DEF Hit, Pool!Acquire, Booting, Busy
<1>4. Referenced \subseteq Referenced' \cup {NoPlugin}
    BY <1>1 DEF Hit, Referenced, PInv, TypeOK
<1>5. QED
    BY <1>3, <1>4, OrphansKept DEF Hit

\* The first builder makes an entry, the later ones take it.
LEMMA InsertCreates ==
    ASSUME PInv, NoOrphans, NEW t \in Calls, Insert(t)
    PROVE  /\ Pool!Create(key[t]) \/ Pool!Acquire(t, key[t])
           /\ UNCHANGED remote
           /\ NoOrphans'
<1>1. /\ plugin[t] = NoPlugin /\ key[t] \in Keys
      /\ UNCHANGED <<victim, chromeVars, remote>>
    BY DEF Insert, PInv, Locals
<1>2. Booting' = Booting /\ Busy' = Busy /\ Cleared' = Cleared
    BY DEF Insert, PInv, TypeOK, Booting, Busy, Cleared
<1>3. CASE profiles[key[t]] = NoPlugin
    <2>1. PICK p \in {key[t]} \X Serials : NewEntry(t, p)
        BY <1>3 DEF Insert
    <2>2. Referenced \subseteq Referenced' \cup {NoPlugin}
        BY <1>1, <1>3, <2>1 DEF NewEntry, Referenced, PInv, TypeOK
    <2>3. NoOrphans'
        BY <1>1, <2>2, OrphansKept
    <2>4. Pool!Remain(up)
        <3>1. Pool!PoolReferenced' = Referenced'
            BY DEF Pool!PoolReferenced, Referenced
        <3>2. QED
            BY <1>1, <2>3, <3>1 DEF Pool!Remain, NoOrphans
    <2>5. Pool!Create(key[t])
        BY <1>1, <1>2, <2>1, <2>4, SameView DEF Pool!Create, NewEntry, Booting, Busy
    <2>6. QED
        BY <1>1, <2>3, <2>5
<1>4. CASE profiles[key[t]] # NoPlugin
    <2>1. UNCHANGED profiles /\ plugin' = [plugin EXCEPT ![t] = profiles[key[t]]]
        BY <1>4 DEF Insert
    <2>2. Referenced \subseteq Referenced' \cup {NoPlugin}
        BY <1>1, <2>1 DEF Referenced, PInv, TypeOK
    <2>3. Pool!Acquire(t, key[t])
        BY <1>1, <1>2, <1>4, <2>1 DEF Pool!Acquire, Booting, Busy
    <2>4. QED
        BY <1>1, <2>2, <2>3, OrphansKept
<1>5. QED
    BY <1>3, <1>4

\* A call that ends lets its plugin go, and may be the last to.
LEMMA ReturnFrees ==
    ASSUME PInv, NoOrphans, NEW t \in Calls, Leave(t) \/ Return(t)
    PROVE  Pool!Free(t) /\ UNCHANGED remote /\ NoOrphans'
<1>1. /\ plugin[t] # NoPlugin /\ t \notin Booting \cup Busy
      /\ plugin' = [plugin EXCEPT ![t] = NoPlugin]
      /\ UNCHANGED <<profiles, victim>>
      /\ Keep(up, Referenced')
    BY ProfileConstants DEF Leave, Return, PInv, Locals, Booting, Busy
<1>2. Booting' = Booting /\ Busy' = Busy /\ Cleared' = Cleared
    BY DEF Leave, Return, PInv, TypeOK, Booting, Busy, Cleared
<1>3. QED
    BY <1>1, <1>2, KeepRemains DEF Pool!Free, Booting, Busy

\* A handler that waits for the mutex takes it to boot or to run its command.
LEMMA EntersPool ==
    ASSUME PInv, NEW t \in Calls, Use(t), SessionFound(t) \/ Spawn(t) \/ Attach(t)
    PROVE  Pool!Boot(t) \/ Pool!Serve(t)
<1>1. /\ plugin[t] # NoPlugin /\ ~Pool!InUse(plugin[t])
      /\ UNCHANGED <<profiles, plugin, victim, Cleared, chromeVars>>
    BY UseFrame, SameView, ProfileConstants
       DEF SessionFound, Spawn, Attach, MustBoot, Cleared, PInv, Locals
<1>2. CASE SessionFound(t)
    <2>1. Booting' = Booting /\ Busy' = Busy \cup {t}
        BY <1>2 DEF SessionFound, PInv, TypeOK, Booting, Busy
    <2>2. QED
        BY <1>1, <1>2, <2>1 DEF SessionFound, Pool!Serve, Booting, Busy
<1>3. CASE Spawn(t) \/ Attach(t)
    <2>1. Booting' = Booting \cup {t} /\ Busy' = Busy
        BY <1>3 DEF Spawn, Attach, MustBoot, PInv, TypeOK, Booting, Busy
    <2>2. QED
        BY <1>1, <1>3, <2>1 DEF Spawn, Attach, MustBoot, Pool!Boot, Booting, Busy
<1>4. QED
    BY <1>2, <1>3

\* Inside it the Chrome is stored and the session opened.
LEMMA BootsInPool ==
    ASSUME PInv, NEW t \in Calls, Use(t), StoreChrome(t) \/ OpenSession(t, Cleared)
    PROVE  Pool!Store(t) \/ Pool!Open(t)
<1>1. UNCHANGED <<profiles, plugin, victim, Cleared>>
    BY UseFrame DEF Cleared
<1>2. CASE StoreChrome(t)
    <2>1. t \in Booting /\ Booting' = Booting /\ Busy' = Busy
        BY <1>2 DEF StoreChrome, PInv, TypeOK, Booting, Busy
    <2>2. QED
        BY <1>1, <1>2, <2>1 DEF StoreChrome, Pool!Store, Booting, Busy
<1>3. CASE OpenSession(t, Cleared)
    <2>1. t \in Booting /\ Booting' = Booting \ {t} /\ Busy' = Busy \cup {t}
        BY <1>3 DEF OpenSession, PInv, TypeOK, Booting, Busy
    <2>2. QED
        BY <1>1, <1>3, <2>1 DEF OpenSession, Pool!Open, Booting, Busy
<1>4. QED
    BY <1>2, <1>3

\* The mutex is given up, or was not held.
LEMMA LeavesPool ==
    ASSUME PInv, NEW t \in Calls, Use(t) \/ Finish(t), Execute(t) \/ PollAgain(t) \/ Finish(t)
    PROVE  Pool!Stop(t) \/ UNCHANGED Pool!poolVars
<1>1. UNCHANGED <<profiles, plugin, victim, Cleared, chromeVars, remote>>
    BY UseFrame DEF Execute, PollAgain, Finish, RejectArguments, BootFails, EndCommand, Cleared
<1>2. Booting' = Booting \ {t} /\ Busy' = Busy \ {t}
    BY DEF Execute, PollAgain, Finish, RejectArguments, BootFails, EndCommand, PInv, TypeOK,
           Booting, Busy
<1>3. CASE t \in Booting \cup Busy
    BY <1>1, <1>2, <1>3 DEF Pool!Stop, Booting, Busy
<1>4. CASE t \notin Booting \cup Busy
    BY <1>1, <1>2, <1>4 DEF Booting, Busy
<1>5. QED
    BY <1>3, <1>4

\* A handler that uses its plugin is a user of the pool.
LEMMA UseIsPool ==
    ASSUME PInv, NoOrphans, NEW t \in Calls, Use(t) \/ Finish(t)
    PROVE  [Pool!PoolNext]_(Pool!poolVars) /\ NoOrphans'
<1>1. /\ plugin[t] \in Referenced /\ Referenced' = Referenced /\ UNCHANGED remote
    BY UseFrame DEF Referenced
<1>2. NoOrphans'
    BY <1>1, UseFrame DEF NoOrphans
<1>3. \/ Pool!Boot(t) \/ Pool!Serve(t) \/ Pool!Store(t) \/ Pool!Open(t) \/ Pool!Stop(t)
      \/ UNCHANGED Pool!poolVars
    BY EntersPool, BootsInPool, LeavesPool DEF Use
<1>4. QED
    BY <1>1, <1>2, <1>3 DEF Pool!PoolNext

\* The loop takes an entry out, or finds none under the key.
LEMMA RemoveRetires ==
    ASSUME PInv, NoOrphans, NEW k \in Keys, Remove(k)
    PROVE  /\ Pool!Retire(k) \/ UNCHANGED Pool!poolVars
           /\ UNCHANGED remote
           /\ NoOrphans'
<1>1. /\ victim = NoPlugin /\ victim' = profiles[k]
      /\ profiles' = [profiles EXCEPT ![k] = NoPlugin]
      /\ UNCHANGED <<pc, plugin, chromeVars, remote>>
      /\ Cleared' = Cleared
    BY DEF Remove, PInv, Victims, Cleared
<1>2. Referenced \subseteq Referenced' \cup {NoPlugin}
    BY <1>1 DEF Referenced, PInv, TypeOK
<1>3. NoOrphans'
    BY <1>1, <1>2, OrphansKept
<1>4. CASE profiles[k] # NoPlugin
    BY <1>1, <1>3, <1>4 DEF Pool!Retire
<1>5. CASE profiles[k] = NoPlugin
    <2>1. profiles' = profiles
        BY <1>1, <1>5 DEF PInv, TypeOK
    <2>2. QED
        BY <1>1, <1>3, <1>5, <2>1
<1>6. QED
    BY <1>4, <1>5

\* It takes the victim's session from nobody who uses it,
LEMMA ClearVictimClears ==
    ASSUME PInv, NoOrphans, ClearVictim
    PROVE  Pool!Clear(victim) /\ UNCHANGED remote /\ NoOrphans'
<1>1. victim # NoPlugin /\ victim \in Plugins /\ ~Pool!InUse(victim)
    BY SameView DEF ClearVictim, ClearSession, PInv, TypeOK, Victims
<1>2. Cleared = {} /\ Cleared' = {victim}
    BY DEF ClearVictim, Cleared
<1>3. Referenced' = Referenced
    BY DEF ClearVictim, Referenced
<1>4. QED
    BY <1>1, <1>2, <1>3 DEF ClearVictim, ClearSession, Pool!Clear, NoOrphans

\* and then its Chrome.
LEMMA KillVictimKills ==
    ASSUME PInv, NoOrphans, KillVictim
    PROVE  Pool!Kill(victim) /\ UNCHANGED remote /\ NoOrphans'
<1>1. Cleared = {victim} /\ Cleared' = {}
    BY DEF KillVictim, Cleared
<1>2. Pool!Remain(up \ {victim}) /\ NoOrphans' /\ UNCHANGED remote
    BY KeepRemains DEF KillVictim
<1>3. QED
    BY <1>1, <1>2 DEF KillVictim, Pool!Kill

\* Every step of the cache is a step of the pool, or none.
LEMMA PoolStep ==
    ASSUME PInv, NoOrphans, [Next]_vars
    PROVE  [Pool!PoolNext]_(Pool!poolVars) /\ NoOrphans'
<1> DEFINE Goal == [Pool!PoolNext]_(Pool!poolVars) /\ NoOrphans'
<1>1. ASSUME NEW t \in Calls, NEW k \in Keys, Hit(t, k) PROVE Goal
    BY <1>1, HitAcquires DEF Pool!PoolNext
<1>2. ASSUME NEW t \in Calls, Insert(t) PROVE Goal
    <2>1. key[t] \in Keys
        BY <1>2 DEF Insert, PInv, Locals
    <2>2. QED
        BY <1>2, <2>1, InsertCreates DEF Pool!PoolNext
<1>3. ASSUME NEW t \in Calls, Leave(t) \/ Return(t) PROVE Goal
    BY <1>3, ReturnFrees DEF Pool!PoolNext
<1>4. ASSUME NEW t \in Calls, Use(t) \/ Finish(t) PROVE Goal
    BY <1>4, UseIsPool
<1>5. ASSUME NEW t \in Calls, Route(t) \/ \E k \in Keys : Miss(t, k) PROVE Goal
    <2>1. /\ UNCHANGED <<profiles, plugin, victim, chromeVars, remote>>
          /\ Booting' = Booting /\ Busy' = Busy /\ Cleared' = Cleared
        BY <1>5 DEF Route, Miss, PInv, TypeOK, Booting, Busy, Cleared
    <2>2. QED
        BY <2>1, PoolStutters
<1>6. ASSUME NEW k \in Keys, Remove(k) PROVE Goal
    BY <1>6, RemoveRetires DEF Pool!PoolNext
<1>7. CASE ClearVictim
    <2>1. victim \in Plugins
        BY <1>7 DEF ClearVictim, PInv, TypeOK, Victims
    <2>2. QED
        BY <1>7, <2>1, ClearVictimClears DEF Pool!PoolNext
<1>8. CASE KillVictim
    <2>1. victim \in Plugins
        BY <1>8 DEF KillVictim, PInv, TypeOK, Victims
    <2>2. QED
        BY <1>8, <2>1, KillVictimKills DEF Pool!PoolNext
<1>9. CASE Wake \/ EndScan \/ Sleep \/ Tick \/ UNCHANGED vars \/ \E k \in Keys : ReadEntry(k)
    <2>1. /\ UNCHANGED <<profiles, plugin, victim, chromeVars, remote, pc>>
          /\ Cleared' = Cleared
        BY <1>9 DEF Wake, EndScan, Sleep, Tick, vars, ReadEntry, Cleared
    <2>2. QED
        BY <2>1, PoolStutters DEF Booting, Busy
<1>10. QED
    BY <1>1, <1>2, <1>3, <1>4, <1>5, <1>6, <1>7, <1>8, <1>9 DEF Next, CallStep, LoopStep

\* The cache implements the pool, for any agents, handlers, caps and idle times
\* (main.rs 62-192, 353-404; plugin.rs 183-252).
THEOREM CacheIsPluginPool == Spec => ImplementsPluginPool
<1>1. PInv /\ NoOrphans /\ [Next]_vars => [Pool!PoolNext]_(Pool!poolVars) /\ NoOrphans'
    BY PoolStep
<1>2. QED
    BY Invariance, InitPool, <1>1, PTL DEF Spec, ImplementsPluginPool, Pool!PoolSpec

\* So no eviction takes the session from under a command, no two handlers boot or
\* drive one plugin, and nothing is left running once its plugin is dropped.
THEOREM CacheIsSafe == Spec => []Pool!PoolSafe
<1>1. NoPlugin \notin PoolP!Plugins
    BY ProfileConstants DEF PoolP!Plugins
<1>2. PoolP!PoolSpec => []PoolP!PoolSafe
    BY <1>1, PoolP!PoolIsSafe
<1>3. Pool!PoolInit => PoolP!PoolInit
    BY DEF Pool!PoolInit, PoolP!PoolInit, PoolP!Plugins
<1>4. [Pool!PoolNext]_(Pool!poolVars) => [PoolP!PoolNext]_(PoolP!poolVars)
    BY DEF Pool!PoolNext, Pool!Create, Pool!Retire, Pool!Clear, Pool!Kill, Pool!Acquire,
           Pool!Boot, Pool!Store, Pool!Open, Pool!Serve, Pool!Stop, Pool!Free, Pool!InUse,
           Pool!Remain, Pool!PoolReferenced,
           PoolP!PoolNext, PoolP!poolVars, PoolP!useVars, PoolP!chromeVars, PoolP!Plugins,
           PoolP!Create, PoolP!Retire, PoolP!Clear, PoolP!Kill, PoolP!Acquire, PoolP!Boot,
           PoolP!Store, PoolP!Open, PoolP!Serve, PoolP!Stop, PoolP!Free, PoolP!InUse,
           PoolP!Remain, PoolP!PoolReferenced
<1>5. PoolP!PoolSafe => Pool!PoolSafe
    BY DEF Pool!PoolSafe, PoolP!PoolSafe, Pool!PoolReferenced, PoolP!PoolReferenced
<1>6. QED
    BY <1>2, <1>3, <1>4, <1>5, CacheIsPluginPool, PTL
       DEF ImplementsPluginPool, Pool!PoolSpec, PoolP!PoolSpec

\* Whatever is evicted when, a command keeps its session, and its Chrome unless it
\* was booted between the locks of the shutdown (main.rs 182-185, plugin.rs 183-187).
THEOREM EvictionsSpareCommands == Spec => []EvictionSparesCommands
<1>1. Pool!PoolSafe => EvictionSparesCommands
    BY DEF Pool!PoolSafe, EvictionSparesCommands
<1>2. QED
    BY CacheIsSafe, <1>1, PTL
==============================================================================
