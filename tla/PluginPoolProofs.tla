--------------------------- MODULE PluginPoolProofs ---------------------------
(***************************************************************************)
(* PluginPool is safe, and so is whatever implements it.                   *)
(***************************************************************************)
EXTENDS PluginPool, TLAPS

PoolType ==
    /\ entries \in [Keys -> Plugins \cup {NoPlugin}]
    /\ held \in [Users -> Plugins \cup {NoPlugin}]
    /\ booting \subseteq Users
    /\ busy \subseteq Users
    /\ closing \in Plugins \cup {NoPlugin}
    /\ doomed \subseteq Plugins
    /\ sessions \subseteq Plugins
    /\ chromes \subseteq Plugins
    /\ overtaken \subseteq Plugins
    /\ \A t \in booting \cup busy : held[t] # NoPlugin

\* The session of a doomed plugin was opened after the shutdown took the last one.
PoolInv ==
    /\ PoolType
    /\ PoolSafe
    /\ doomed \cap sessions \subseteq overtaken

\* An empty pool satisfies the invariant.
LEMMA InitPool == PoolInit => PoolInv
BY DEF PoolInit, PoolInv, PoolType, PoolSafe

\* Every step keeps the types.
LEMMA TypePool ==
    ASSUME NoPlugin \notin Plugins, PoolInv, [PoolNext]_poolVars
    PROVE  PoolType'
<1> USE DEF PoolInv, PoolType, useVars, chromeVars, Remain
<1>1. ASSUME NEW k \in Keys, Create(k) PROVE PoolType'
    BY <1>1 DEF Create, Plugins
<1>2. ASSUME NEW k \in Keys, Retire(k) PROVE PoolType'
    BY <1>2 DEF Retire
<1>3. ASSUME NEW p \in Plugins, Clear(p) PROVE PoolType'
    BY <1>3 DEF Clear
<1>4. ASSUME NEW p \in Plugins, Kill(p) PROVE PoolType'
    BY <1>4 DEF Kill
<1>5. ASSUME NEW t \in Users, NEW k \in Keys, Acquire(t, k) PROVE PoolType'
    BY <1>5 DEF Acquire
<1>6. ASSUME NEW t \in Users, Boot(t) PROVE PoolType'
    BY <1>6 DEF Boot
<1>7. ASSUME NEW t \in Users, Store(t) PROVE PoolType'
    BY <1>7 DEF Store
<1>8. ASSUME NEW t \in Users, Open(t) PROVE PoolType'
    BY <1>8 DEF Open
<1>9. ASSUME NEW t \in Users, Serve(t) PROVE PoolType'
    BY <1>9 DEF Serve
<1>10. ASSUME NEW t \in Users, Stop(t) \/ Free(t) PROVE PoolType'
    BY <1>10 DEF Stop, Free
<1>11. CASE UNCHANGED poolVars
    BY <1>11 DEF poolVars
<1>12. QED
    BY <1>1, <1>2, <1>3, <1>4, <1>5, <1>6, <1>7, <1>8, <1>9, <1>10, <1>11 DEF PoolNext

\* What is left of a safe pool by a step that drops plugins and the Chromes outside C
\* is safe, if users keep the plugins they work with and C loses only a doomed one.
LEMMA RemainsSafe ==
    ASSUME PoolInv, PoolType', NEW C, Remain(C), C \subseteq chromes, chromes \subseteq C \cup doomed,
           UNCHANGED <<useVars, remote>>, doomed' \subseteq doomed,
           \A t \in booting \cup busy : held'[t] = held[t],
           \A k \in Keys : entries'[k] # NoPlugin => entries'[k] \in {k} \X Serials
    PROVE  PoolInv'
<1> USE DEF PoolInv, PoolType, PoolSafe, Remain, useVars
<1>1. \A t \in booting \cup busy : held[t] \in PoolReferenced'
    BY DEF PoolReferenced
<1>2. \A t \in busy' : held'[t] \in sessions'
    BY <1>1
<1>3. \A t, u \in booting' \cup busy' : held'[t] = held'[u] => t = u
    OBVIOUS
<1>4. sessions' \subseteq chromes' \cup remote' \cup overtaken'
    OBVIOUS
<1>5. QED
    BY <1>2, <1>3, <1>4

\* Every step keeps the pool safe.
LEMMA SafePool ==
    ASSUME NoPlugin \notin Plugins, PoolInv, [PoolNext]_poolVars
    PROVE  PoolInv'
<1> USE DEF useVars, chromeVars
<1>type. PoolType'
    BY TypePool
<1>1. ASSUME NEW k \in Keys, Create(k), UNCHANGED remote PROVE PoolInv'
    <2>1. PICK p \in {k} \X Serials :
            /\ entries' = [entries EXCEPT ![k] = p]
            /\ \A t \in Users : held[t] # NoPlugin => held'[t] = held[t]
        BY <1>1 DEF Create, PoolInv, PoolType
    <2>2. \A j \in Keys : entries'[j] # NoPlugin => entries'[j] \in {j} \X Serials
        BY <2>1 DEF PoolInv, PoolType, PoolSafe
    <2>3. \A t \in booting \cup busy : held'[t] = held[t]
        BY <2>1 DEF PoolInv, PoolType
    <2>4. QED
        BY <1>type, <1>1, <2>2, <2>3, RemainsSafe DEF Create
<1>2. ASSUME NEW k \in Keys, Retire(k), UNCHANGED remote PROVE PoolInv'
    <2>1. PoolReferenced \subseteq PoolReferenced' \cup {NoPlugin}
        BY <1>2 DEF Retire, PoolReferenced, PoolInv, PoolType
    <2>2. QED
        BY <1>type, <1>2, <2>1 DEF Retire, PoolInv, PoolType, PoolSafe
<1>3. ASSUME NEW p \in Plugins, Clear(p), UNCHANGED remote PROVE PoolInv'
    <2>1. PoolReferenced' = PoolReferenced
        BY <1>3 DEF Clear, PoolReferenced
    <2>2. \A t \in busy' : held'[t] \in sessions'
        BY <1>3 DEF Clear, InUse, PoolInv, PoolType, PoolSafe
    <2>3. QED
        BY <1>type, <1>3, <2>1, <2>2 DEF Clear, PoolInv, PoolType, PoolSafe
<1>4. ASSUME NEW p \in Plugins, Kill(p), UNCHANGED remote PROVE PoolInv'
    <2>1. \A t \in booting \cup busy : held'[t] = held[t]
        BY <1>4 DEF Kill, PoolInv, PoolType
    <2>2. \A k \in Keys : entries'[k] # NoPlugin => entries'[k] \in {k} \X Serials
        BY <1>4 DEF Kill, PoolInv, PoolSafe
    <2>3. chromes \subseteq (chromes \ {p}) \cup doomed /\ doomed' \subseteq doomed
        BY <1>4 DEF Kill
    <2>4. QED
        BY <1>type, <1>4, <2>1, <2>2, <2>3, RemainsSafe DEF Kill
<1>5. ASSUME NEW t \in Users, NEW k \in Keys, Acquire(t, k), UNCHANGED remote PROVE PoolInv'
    <2>1. held' = [held EXCEPT ![t] = entries[k]] /\ held[t] = NoPlugin
        BY <1>5 DEF Acquire
    <2>2. PoolReferenced \subseteq PoolReferenced' \cup {NoPlugin}
        BY <1>5, <2>1 DEF Acquire, PoolReferenced, PoolInv, PoolType
    <2>3. \A u \in booting \cup busy : held'[u] = held[u]
        BY <2>1 DEF PoolInv, PoolType
    <2>4. QED
        BY <1>type, <1>5, <2>2, <2>3 DEF Acquire, PoolInv, PoolType, PoolSafe
<1>6. ASSUME NEW t \in Users, Boot(t), UNCHANGED remote PROVE PoolInv'
    BY <1>type, <1>6 DEF Boot, InUse, PoolReferenced, PoolInv, PoolType, PoolSafe
<1>7. ASSUME NEW t \in Users, Store(t), UNCHANGED remote PROVE PoolInv'
    <2>1. PoolReferenced' = PoolReferenced /\ held[t] \in PoolReferenced
        BY <1>7 DEF Store, PoolReferenced
    <2>2. QED
        BY <1>type, <1>7, <2>1 DEF Store, PoolInv, PoolType, PoolSafe
<1>8. ASSUME NEW t \in Users, Open(t), UNCHANGED remote PROVE PoolInv'
    <2>1. PoolReferenced' = PoolReferenced /\ held[t] \in PoolReferenced
        BY <1>8 DEF Open, PoolReferenced
    <2>2. booting' \cup busy' = booting \cup busy /\ held' = held
        BY <1>8 DEF Open, PoolInv, PoolType
    <2>3. /\ \A u \in busy' : held'[u] \in sessions'
          /\ sessions' \subseteq chromes' \cup remote' \cup overtaken'
          /\ doomed' \cap sessions' \subseteq overtaken'
        BY <1>8 DEF Open, PoolInv, PoolSafe
    <2>4. chromes' \cup sessions' \cup overtaken' \subseteq PoolReferenced'
        BY <1>8, <2>1 DEF Open, PoolInv, PoolSafe
    <2>5. QED
        BY <1>type, <1>8, <2>2, <2>3, <2>4 DEF Open, PoolInv, PoolSafe
<1>9. ASSUME NEW t \in Users, Serve(t), UNCHANGED remote PROVE PoolInv'
    BY <1>type, <1>9 DEF Serve, InUse, PoolReferenced, PoolInv, PoolType, PoolSafe
<1>10. ASSUME NEW t \in Users, Stop(t), UNCHANGED remote PROVE PoolInv'
    BY <1>type, <1>10 DEF Stop, PoolReferenced, PoolInv, PoolType, PoolSafe
<1>11. ASSUME NEW t \in Users, Free(t), UNCHANGED remote PROVE PoolInv'
    <2>1. \A u \in booting \cup busy : held'[u] = held[u]
        BY <1>11 DEF Free, PoolInv, PoolType
    <2>2. \A k \in Keys : entries'[k] # NoPlugin => entries'[k] \in {k} \X Serials
        BY <1>11 DEF Free, PoolInv, PoolSafe
    <2>3. QED
        BY <1>type, <1>11, <2>1, <2>2, RemainsSafe DEF Free
<1>12. CASE UNCHANGED poolVars
    BY <1>type, <1>12 DEF poolVars, PoolReferenced, PoolInv, PoolType, PoolSafe
<1>13. QED
    BY <1>1, <1>2, <1>3, <1>4, <1>5, <1>6, <1>7, <1>8, <1>9, <1>10, <1>11, <1>12 DEF PoolNext

\* Whatever the users, keys and plugins, the pool is safe (chrome.rs 88-98,
\* plugin.rs 104-113, 182-252).
THEOREM PoolIsSafe ==
    ASSUME NoPlugin \notin Plugins
    PROVE  PoolSpec => []PoolSafe
<1>1. PoolInv /\ [PoolNext]_poolVars => PoolInv'
    BY SafePool
<1>2. PoolInv => PoolSafe
    BY DEF PoolInv
<1>3. QED
    BY InitPool, <1>1, <1>2, PTL DEF PoolSpec
==============================================================================
