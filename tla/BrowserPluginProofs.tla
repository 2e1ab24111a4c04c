------------------------- MODULE BrowserPluginProofs -------------------------
(***************************************************************************)
(* The safety of BrowserPlugin, for any number of callers, shutdowns and   *)
(* Chromes.  The invariants are not inductive alone: they rest on who owns *)
(* the session mutex (MutexInv), on what a boot in progress knows          *)
(* (BootInv), and on a plugin that attaches owning nothing (AttachInv).    *)
(* Then: the mutex is never lost (MutexServed), and the plugin implements  *)
(* LazyBrowser.                                                            *)
(***************************************************************************)
EXTENDS BrowserPlugin, Naturals, TLAPS

\* A task past its lock().await is at the front of the mutex's queue.
MutexInv == \A t \in Callers : pc[t] \in Locked => Holds(t)

\* A plugin with a cdp_url spawns nothing.
AttachInv ==
    config.attach => /\ chrome = NoChrome
                     /\ \A t \in Callers : pc[t] # "devtools"

\* What holds around the boot and the command that own the mutex.
BootInv ==
    \A t \in Callers :
        /\ pc[t] \in {"launch", "devtools", "connect"} => session = NoChrome
        /\ pc[t] = "devtools" => launched[t] \in Chromes
        /\ pc[t] = "connect" => /\ launched[t] # NoChrome
                                /\ chrome \in {launched[t], NoChrome}
        /\ pc[t] \in {"publish", "command"} => session # NoChrome

IInv ==
    /\ TypeOK
    /\ MutexInv
    /\ AttachInv
    /\ BootInv
    /\ NoLeakedChrome
    /\ SessionMatchesChrome
    /\ GaugeNeedsSession

-----------------------------------------------------------------------------
(* The session mutex.                                                      *)

\* At most one task is past its lock().await, and it is the holder.
LEMMA OneDriver ==
    ASSUME MutexInv, NEW t \in Callers, NEW u \in Tasks, pc[t] \in Locked, Holds(u)
    PROVE  t = u
BY DEF MutexInv, Holds

\* A task that joins the queue takes the mutex from nobody.
LEMMA JoinKeepsHolder ==
    ASSUME TypeOK, MutexInv, NEW t \in Tasks, NEW l, l \notin Locked, Join(t), Goto(t, l)
    PROVE  sessionQ' \in Seq(Tasks) /\ MutexInv'
<1>1. sessionQ \in Seq(Tasks) /\ sessionQ' = Append(sessionQ, t)
    BY DEF TypeOK, Join
<1>2. sessionQ # <<>> => Head(sessionQ') = Head(sessionQ)
    BY <1>1
<1>3. sessionQ' \in Seq(Tasks) /\ sessionQ' # <<>>
    BY <1>1
<1>4. ASSUME NEW u \in Callers, pc'[u] \in Locked
      PROVE  Holds(u)'
    <2>1. u # t /\ pc[u] \in Locked
        BY <1>4 DEF TypeOK, Goto, Tasks
    <2>2. QED
        BY <1>2, <1>3, <2>1 DEF MutexInv, Holds
<1>5. QED
    BY <1>3, <1>4 DEF MutexInv

\* The holder that releases leaves nobody behind that believes it holds.
LEMMA ReleaseKeepsHolder ==
    ASSUME TypeOK, MutexInv, NEW t \in Tasks, NEW l, l \notin Locked,
           Holds(t), Release, Goto(t, l)
    PROVE  sessionQ' \in Seq(Tasks) /\ MutexInv'
<1>1. sessionQ' \in Seq(Tasks)
    BY DEF TypeOK, Holds, Release
<1>2. ASSUME NEW u \in Callers, pc'[u] \in Locked
      PROVE  FALSE
    <2>1. u # t /\ pc[u] \in Locked
        BY <1>2 DEF TypeOK, Goto, Tasks
    <2>2. QED
        BY <2>1, OneDriver
<1>3. QED
    BY <1>1, <1>2 DEF MutexInv

\* The holder moves on without releasing.
LEMMA StayKeepsHolder ==
    ASSUME TypeOK, MutexInv, NEW t \in Tasks, NEW l, Holds(t), Goto(t, l),
           sessionQ' = sessionQ
    PROVE  MutexInv'
<1>1. ASSUME NEW u \in Callers, pc'[u] \in Locked
      PROVE  Holds(u)'
    <2>1. u = t \/ pc[u] \in Locked
        BY <1>1 DEF TypeOK, Goto, Tasks
    <2>2. QED
        BY <2>1 DEF MutexInv, Holds
<1>2. QED
    BY <1>1 DEF MutexInv

-----------------------------------------------------------------------------
(* The inductive step: one lemma per kind of step.                         *)

\* Queueing for the session mutex touches neither Chrome nor session.
LEMMA JoinStep ==
    ASSUME IInv,
           \/ \E t \in Callers : Call(t) \/ Relock(t)
           \/ \E a \in Admins : Shutdown(a)
    PROVE  IInv'
<1>1. PICK t \in Tasks, l \in {"ensure", "relock", "clearSession"} :
        /\ Join(t) /\ Goto(t, l)
        /\ t \in Callers => l \in {"ensure", "relock"}
        /\ t \in Admins => l = "clearSession"
        /\ pc[t] \in {"idle", "ensured", "requested"}
        /\ UNCHANGED <<config, session, chrome, override, live, gauge, headless, launched>>
    BY TasksAssumption DEF Call, Relock, Shutdown, Tasks
<1>2. sessionQ' \in Seq(Tasks) /\ MutexInv'
    BY <1>1, JoinKeepsHolder DEF IInv, Locked
<1>3. TypeOK'
    BY <1>1, <1>2, TasksAssumption DEF IInv, TypeOK, Goto, Tasks, CallerPCs, AdminPCs
<1>4. AttachInv' /\ BootInv'
    BY <1>1 DEF IInv, TypeOK, Goto, Tasks, AttachInv, BootInv
<1>5. NoLeakedChrome' /\ SessionMatchesChrome'
    BY <1>1 DEF IInv, TypeOK, Goto, Tasks, NoLeakedChrome, SessionMatchesChrome
<1>6. GaugeNeedsSession'
    BY <1>1 DEF IInv, TypeOK, Goto, Tasks, GaugeNeedsSession
<1>7. QED
    BY <1>2, <1>3, <1>4, <1>5, <1>6 DEF IInv

\* The caller that holds the mutex leaves, or goes on without a Chrome yet.
LEMMA HolderStep ==
    ASSUME IInv, NEW t \in Callers,
           \/ SessionFound(t) \/ NoSession(t) \/ StartCommand(t) \/ EndCommand(t)
           \/ TakeOverride(t)
    PROVE  IInv'
<1>1. PICK l \in {"ensured", "idle", "command", "launch"} :
        /\ Goto(t, l)
        /\ l = "launch" => session = NoChrome
        /\ l = "command" => session # NoChrome
        /\ \/ l \notin Locked /\ Release
           \/ sessionQ' = sessionQ
        /\ pc[t] \in {"ensure", "relock", "command"}
        /\ UNCHANGED <<config, session, chrome, live, gauge, launched>>
    BY DEF SessionFound, NoSession, StartCommand, EndCommand, TakeOverride, Locked
<1>2. Holds(t)
    BY DEF IInv, MutexInv, Locked, SessionFound, NoSession, StartCommand, EndCommand,
           TakeOverride
<1>3. t \in Tasks
    BY DEF Tasks
<1>4. sessionQ' \in Seq(Tasks) /\ MutexInv'
    BY <1>1, <1>2, <1>3, ReleaseKeepsHolder, StayKeepsHolder DEF IInv, TypeOK
<1>5. override' \in BOOLEAN /\ headless' \in [Callers -> BOOLEAN]
    BY ConfigsAssumption DEF IInv, TypeOK, SessionFound, NoSession, StartCommand,
           EndCommand, TakeOverride
<1>6. TypeOK'
    BY <1>1, <1>3, <1>4, <1>5, TasksAssumption
    DEF IInv, TypeOK, Goto, Tasks, CallerPCs, AdminPCs
<1>7. AttachInv' /\ BootInv'
    BY <1>1, <1>3 DEF IInv, TypeOK, Goto, Tasks, AttachInv, BootInv
<1>8. NoLeakedChrome' /\ SessionMatchesChrome'
    BY <1>1, <1>3 DEF IInv, TypeOK, Goto, Tasks, NoLeakedChrome, SessionMatchesChrome
<1>9. GaugeNeedsSession'
    BY <1>1, <1>3, TasksAssumption DEF IInv, TypeOK, Goto, Tasks, GaugeNeedsSession
<1>10. QED
    BY <1>4, <1>6, <1>7, <1>8, <1>9 DEF IInv

\* A boot spawns its Chrome or attaches to the remote one.
LEMMA BootStep ==
    ASSUME IInv, NEW t \in Callers,
           SpawnChrome(t) \/ AttachRemote(t) \/ StoreChrome(t) \/ OpenSession(t)
    PROVE  IInv'
<1>1. PICK l \in {"devtools", "connect", "publish"} :
        /\ Goto(t, l)
        /\ pc[t] \in {"launch", "devtools", "connect"}
        /\ UNCHANGED <<config, override, sessionQ, gauge, headless>>
    BY DEF SpawnChrome, AttachRemote, StoreChrome, OpenSession
<1>2. t \in Tasks /\ Holds(t)
    BY <1>1 DEF IInv, MutexInv, Locked, Tasks
<1>3. MutexInv'
    BY <1>1, <1>2, StayKeepsHolder DEF IInv
<1>4. \A u \in Callers : pc[u] \in Locked => u = t
    BY <1>2, OneDriver DEF IInv
<1>5. \A u \in Callers : u # t => pc'[u] = pc[u] /\ pc'[u] \notin Locked
    BY <1>1, <1>4 DEF IInv, TypeOK, Goto, Tasks
<1>6. pc'[t] = l /\ pc' \in [Tasks -> CallerPCs \cup AdminPCs]
    BY <1>1, <1>2 DEF IInv, TypeOK, Goto, CallerPCs
<1>7. pc'[t] \in CallerPCs /\ \A u \in Callers : pc'[u] \in CallerPCs
    BY <1>1, <1>5, <1>6 DEF IInv, TypeOK, CallerPCs
<1>8. \A a \in Admins : pc'[a] = pc[a]
    BY <1>1, TasksAssumption DEF IInv, TypeOK, Goto, Tasks
<1>9. SUFFICES /\ TypeOK' /\ AttachInv' /\ BootInv'
               /\ NoLeakedChrome' /\ SessionMatchesChrome' /\ GaugeNeedsSession'
    BY <1>3 DEF IInv
<1>10. CASE SpawnChrome(t)
    <2>1. PICK c \in Chromes : live' = live \cup {c} /\ launched' = [launched EXCEPT ![t] = c]
        BY <1>10 DEF SpawnChrome
    <2>2. /\ UNCHANGED <<session, chrome>> /\ ~config.attach
          /\ pc[t] = "launch" /\ pc'[t] = "devtools"
        BY <1>1, <1>6, <1>10 DEF SpawnChrome, Goto, IInv, TypeOK, Tasks
    <2>3. TypeOK'
        BY <1>1, <1>6, <1>7, <1>8, <2>1, <2>2 DEF IInv, TypeOK
    <2>4. AttachInv' /\ BootInv'
        BY <1>1, <1>5, <2>1, <2>2 DEF IInv, TypeOK, AttachInv, BootInv, Locked
    <2>5. NoLeakedChrome'
        BY <1>4, <2>1, <2>2 DEF IInv, TypeOK, NoLeakedChrome, Locked
    <2>6. SessionMatchesChrome' /\ GaugeNeedsSession'
        BY <1>1, <1>8, <2>2 DEF IInv, SessionMatchesChrome, GaugeNeedsSession
    <2>7. QED
        BY <2>3, <2>4, <2>5, <2>6
<1>11. CASE AttachRemote(t)
    <2>1. /\ UNCHANGED <<session, chrome, live>> /\ pc'[t] = "connect" /\ config.attach
          /\ launched' = [launched EXCEPT ![t] = Remote]
          /\ pc[t] = "launch"
        BY <1>1, <1>6, <1>11 DEF AttachRemote, Goto, IInv, TypeOK, Tasks
    <2>2. TypeOK'
        BY <1>1, <1>6, <1>7, <1>8, <2>1 DEF IInv, TypeOK
    <2>3. AttachInv' /\ BootInv'
        BY <1>1, <1>5, <2>1, ChromesAssumption DEF IInv, TypeOK, AttachInv, BootInv, Locked
    <2>4. NoLeakedChrome'
        BY <1>4, <1>5, <2>1 DEF IInv, TypeOK, NoLeakedChrome, Locked
    <2>5. SessionMatchesChrome' /\ GaugeNeedsSession'
        BY <1>1, <1>8, <2>1 DEF IInv, SessionMatchesChrome, GaugeNeedsSession
    <2>6. QED
        BY <2>2, <2>3, <2>4, <2>5
<1>12. CASE StoreChrome(t)
    <2>1. /\ UNCHANGED <<session, launched>> /\ pc'[t] = "connect" /\ pc[t] = "devtools"
          /\ chrome' = launched[t] /\ live' = live \ {chrome}
        BY <1>1, <1>6, <1>12 DEF StoreChrome, Goto, IInv, TypeOK, Tasks
    <2>2. session = NoChrome /\ launched[t] \in Chromes /\ ~config.attach
        BY <2>1, ConfigsAssumption DEF IInv, BootInv, AttachInv, TypeOK
    <2>3. TypeOK'
        BY <1>1, <1>6, <1>7, <1>8, <2>1, <2>2 DEF IInv, TypeOK
    <2>4. AttachInv' /\ BootInv'
        BY <1>1, <1>5, <2>1, <2>2, ChromesAssumption
        DEF IInv, TypeOK, AttachInv, BootInv, Locked
    <2>5. NoLeakedChrome'
        BY <1>4, <2>1 DEF IInv, TypeOK, NoLeakedChrome, Locked
    <2>6. SessionMatchesChrome' /\ GaugeNeedsSession'
        BY <1>1, <1>8, <2>1, <2>2 DEF IInv, SessionMatchesChrome, GaugeNeedsSession
    <2>7. QED
        BY <2>3, <2>4, <2>5, <2>6
<1>13. CASE OpenSession(t)
    <2>1. /\ UNCHANGED <<chrome, live, launched>> /\ pc'[t] = "publish" /\ pc[t] = "connect"
          /\ session' = launched[t]
        BY <1>1, <1>6, <1>13 DEF OpenSession, Goto, IInv, TypeOK, Tasks
    <2>2. launched[t] # NoChrome /\ chrome \in {launched[t], NoChrome}
        BY <2>1 DEF IInv, BootInv
    <2>3. TypeOK'
        BY <1>1, <1>6, <1>7, <1>8, <2>1 DEF IInv, TypeOK
    <2>4. AttachInv' /\ BootInv'
        BY <1>1, <1>5, <2>1, <2>2 DEF IInv, TypeOK, AttachInv, BootInv, Locked
    <2>5. NoLeakedChrome'
        BY <1>4, <1>5, <2>1 DEF IInv, TypeOK, NoLeakedChrome, Locked
    <2>6. SessionMatchesChrome' /\ GaugeNeedsSession'
        BY <1>1, <2>1, <2>2 DEF IInv, SessionMatchesChrome, GaugeNeedsSession
    <2>7. QED
        BY <2>3, <2>4, <2>5, <2>6
<1>14. QED
    BY <1>10, <1>11, <1>12, <1>13

\* ensure_session returns, with or without a session.
LEMMA ReturnStep ==
    ASSUME IInv, NEW t \in Callers, LaunchFails(t) \/ ConnectFails(t) \/ Publish(t)
    PROVE  IInv'
<1>1. PICK l \in {"idle", "ensured"} :
        /\ ReturnFromEnsure(t, l)
        /\ live' \subseteq live
        /\ pc[t] = "devtools" => launched[t] \notin live'
        /\ gauge' \in BOOLEAN
        /\ gauge' => gauge \/ session # NoChrome
        /\ pc[t] \in {"launch", "devtools", "connect", "publish"}
        /\ UNCHANGED <<config, session, chrome, override>>
    <2>1. CASE LaunchFails(t)
        BY <2>1 DEF LaunchFails, IInv, TypeOK
    <2>2. CASE ConnectFails(t)
        BY <2>2 DEF ConnectFails, IInv, TypeOK
    <2>3. CASE Publish(t)
        BY <2>3 DEF Publish, IInv, TypeOK, BootInv
    <2>4. QED
        BY <2>1, <2>2, <2>3
<1>2. t \in Tasks /\ Holds(t) /\ Goto(t, l) /\ Release
    BY <1>1 DEF IInv, MutexInv, Locked, Tasks, ReturnFromEnsure
<1>3. sessionQ' \in Seq(Tasks) /\ MutexInv'
    BY <1>2, ReleaseKeepsHolder DEF IInv, Locked
<1>4. \A u \in Callers : pc[u] \in Locked => u = t
    BY <1>2, OneDriver DEF IInv
<1>5. \A u \in Callers : u # t => pc'[u] = pc[u]
    BY <1>2 DEF IInv, TypeOK, Goto, Tasks
<1>6. \A u \in Callers : pc'[u] \notin Locked
    BY <1>2, <1>4 DEF IInv, TypeOK, Goto, Tasks, Locked
<1>7. \A a \in Admins : pc'[a] = pc[a]
    BY <1>2, TasksAssumption DEF IInv, TypeOK, Goto, Tasks
<1>8. TypeOK'
    <2>1. pc' \in [Tasks -> CallerPCs \cup AdminPCs] /\ pc'[t] \in CallerPCs
        BY <1>2 DEF IInv, TypeOK, Goto, CallerPCs
    <2>2. headless' \in [Callers -> BOOLEAN]
          /\ launched' \in [Callers -> Chromes \cup {NoChrome, Remote}]
        BY <1>1 DEF IInv, TypeOK, ReturnFromEnsure
    <2>3. QED
        BY <1>1, <1>3, <1>5, <1>7, <2>1, <2>2 DEF IInv, TypeOK
<1>9. AttachInv' /\ BootInv'
    BY <1>1, <1>6 DEF IInv, AttachInv, BootInv, Locked
<1>10. NoLeakedChrome'
    BY <1>1, <1>4 DEF IInv, TypeOK, NoLeakedChrome, Locked
<1>11. SessionMatchesChrome' /\ GaugeNeedsSession'
    BY <1>1, <1>7 DEF IInv, SessionMatchesChrome, GaugeNeedsSession
<1>12. QED
    BY <1>3, <1>8, <1>9, <1>10, <1>11 DEF IInv

\* A shutdown clears the session, under the mutex that no caller then holds.
LEMMA ClearSessionStep ==
    ASSUME IInv, NEW a \in Admins, ClearSession(a)
    PROVE  IInv'
<1>1. a \in Tasks /\ a \notin Callers /\ Holds(a) /\ Release /\ Goto(a, "clearChrome")
    BY TasksAssumption DEF ClearSession, Tasks
<1>2. session' = NoChrome /\ UNCHANGED <<config, chrome, override, live, gauge, headless, launched>>
    BY DEF ClearSession
<1>3. sessionQ' \in Seq(Tasks) /\ MutexInv'
    BY <1>1, ReleaseKeepsHolder DEF IInv, Locked
<1>4. \A u \in Callers : pc'[u] = pc[u] /\ pc[u] \notin Locked
    BY <1>1, OneDriver DEF IInv, TypeOK, Goto, Tasks
<1>5. pc'[a] = "clearChrome"
    BY <1>1 DEF IInv, TypeOK, Goto
<1>6. TypeOK'
    BY <1>1, <1>2, <1>3, <1>4 DEF IInv, TypeOK, Goto, Tasks, AdminPCs
<1>7. AttachInv' /\ BootInv'
    BY <1>2, <1>4 DEF IInv, AttachInv, BootInv, Locked
<1>8. NoLeakedChrome' /\ SessionMatchesChrome' /\ GaugeNeedsSession'
    BY <1>2, <1>4, <1>5
    DEF IInv, NoLeakedChrome, SessionMatchesChrome, GaugeNeedsSession, Locked
<1>9. QED
    BY <1>3, <1>6, <1>7, <1>8 DEF IInv

\* What happens outside the mutex: the kill of a shutdown, a request for a
\* visible boot, a crash, another plugin's boot or shutdown.
LEMMA UnlockedStep ==
    ASSUME IInv,
           \/ \E a \in Admins : RequestVisible(a) \/ ClearChrome(a)
           \/ \E c \in Chromes : Crash(c)
           \/ OtherPlugin
    PROVE  IInv'
<1>1. /\ UNCHANGED <<config, session, sessionQ, headless, launched>>
      /\ override' \in BOOLEAN
      /\ live' \subseteq live
      /\ \/ chrome' = chrome
         \/ chrome' = NoChrome /\ chrome \notin live'
    BY DEF RequestVisible, ClearChrome, Crash, OtherPlugin, IInv, TypeOK
<1>2. /\ \A t \in Callers : pc'[t] = pc[t]
      /\ pc' \in [Tasks -> CallerPCs \cup AdminPCs]
      /\ \A a \in Admins : pc'[a] \in AdminPCs
    BY TasksAssumption
    DEF RequestVisible, ClearChrome, Crash, OtherPlugin, IInv, TypeOK, Goto, Tasks, AdminPCs
<1>3. gauge' \in BOOLEAN /\ GaugeNeedsSession'
    <2>1. ASSUME NEW a \in Admins, RequestVisible(a)
          PROVE  gauge' = gauge /\ \A b \in Admins : pc[b] = "clearChrome" => pc'[b] = pc[b]
        BY <2>1 DEF RequestVisible, IInv, TypeOK, Goto, Tasks
    <2>2. ASSUME NEW c \in Chromes, Crash(c)
          PROVE  gauge' = gauge /\ pc' = pc
        BY <2>2 DEF Crash
    <2>3. ASSUME NEW a \in Admins, ClearChrome(a)
          PROVE  gauge' = FALSE
        BY <2>3 DEF ClearChrome
    <2>4. ASSUME OtherPlugin
          PROVE  config'.shared /\ gauge' \in BOOLEAN
        BY <2>4 DEF OtherPlugin, IInv, TypeOK
    <2>5. QED
        BY <1>1, <2>1, <2>2, <2>3, <2>4 DEF IInv, TypeOK, GaugeNeedsSession
<1>4. TypeOK'
    BY <1>1, <1>2, <1>3 DEF IInv, TypeOK
<1>5. MutexInv' /\ AttachInv' /\ BootInv'
    BY <1>1, <1>2 DEF IInv, MutexInv, AttachInv, BootInv, Holds
<1>6. NoLeakedChrome' /\ SessionMatchesChrome'
    BY <1>1, <1>2 DEF IInv, NoLeakedChrome, SessionMatchesChrome
<1>7. QED
    BY <1>3, <1>4, <1>5, <1>6 DEF IInv

-----------------------------------------------------------------------------
(* The theorems.                                                           *)

\* A plugin that has just been built satisfies the inductive invariant.
LEMMA InitIInv == Init => IInv
<1>1. SUFFICES ASSUME Init PROVE IInv
    OBVIOUS
<1>2. TypeOK
    <2>1. sessionQ \in Seq(Tasks)
        BY <1>1 DEF Init
    <2>2. pc \in [Tasks -> CallerPCs \cup AdminPCs] /\ \A t \in Tasks : pc[t] = "idle"
        BY <1>1 DEF Init, CallerPCs
    <2>3. config \in Configs /\ gauge \in BOOLEAN
        BY <1>1, ConfigsAssumption DEF Init
    <2>4. QED
        BY <1>1, <2>1, <2>2, <2>3 DEF Init, TypeOK, Tasks, CallerPCs, AdminPCs
<1>3. MutexInv /\ AttachInv /\ BootInv
    BY <1>1 DEF Init, MutexInv, AttachInv, BootInv, Locked, Tasks
<1>4. NoLeakedChrome /\ SessionMatchesChrome /\ GaugeNeedsSession
    BY <1>1 DEF Init, NoLeakedChrome, SessionMatchesChrome, GaugeNeedsSession
<1>5. QED
    BY <1>2, <1>3, <1>4 DEF IInv

\* Every step of a call, of a shutdown, of a Chrome or of another plugin keeps it.
LEMMA NextIInv == IInv /\ [Next]_vars => IInv'
<1>1. SUFFICES ASSUME IInv, [Next]_vars PROVE IInv'
    OBVIOUS
<1>2. ASSUME NEW t \in Callers, Call(t) \/ CallerStep(t) PROVE IInv'
    BY <1>1, <1>2, JoinStep, HolderStep, BootStep, ReturnStep DEF CallerStep, EnsureStep
<1>3. ASSUME NEW a \in Admins, RequestVisible(a) \/ Shutdown(a) \/ AdminStep(a) PROVE IInv'
    BY <1>1, <1>3, JoinStep, ClearSessionStep, UnlockedStep DEF AdminStep
<1>4. ASSUME (\E c \in Chromes : Crash(c)) \/ OtherPlugin PROVE IInv'
    BY <1>1, <1>4, UnlockedStep
<1>5. CASE UNCHANGED vars
    BY <1>1, <1>5
    DEF vars, IInv, TypeOK, MutexInv, AttachInv, BootInv, NoLeakedChrome,
        SessionMatchesChrome, GaugeNeedsSession, Holds
<1>6. QED
    BY <1>1, <1>2, <1>3, <1>4, <1>5 DEF Next

\* The inductive invariant holds of every behaviour, whatever the fairness.
THEOREM Invariance == Spec => []IInv
BY InitIInv, NextIInv, PTL DEF Spec

\* Every variable of a plugin keeps its type (plugin.rs 42-52).
THEOREM TypeCorrect == Spec => []TypeOK
<1>1. IInv => TypeOK
    BY DEF IInv
<1>2. QED
    BY <1>1, Invariance, PTL

\* No Chrome leaks, whatever fails, crashes or is shut down, and whenever:
\* a running Chrome is stored or about to be (plugin.rs 200-243, 182-189).
THEOREM ChromesAreOwned == Spec => []NoLeakedChrome
<1>1. IInv => NoLeakedChrome
    BY DEF IInv
<1>2. QED
    BY <1>1, Invariance, PTL

\* The session never drives another Chrome than the owned one (plugin.rs 201-243).
THEOREM SessionIsOwned == Spec => []SessionMatchesChrome
<1>1. IInv => SessionMatchesChrome
    BY DEF IInv
<1>2. QED
    BY <1>1, Invariance, PTL

\* A label of its own: no boot, failure or shutdown of the plugin leaves chrome_alive
\* raised without a session (plugin.rs 188, 248-250).
THEOREM GaugeIsSound == Spec => []GaugeNeedsSession
<1>1. IInv => GaugeNeedsSession
    BY DEF IInv
<1>2. QED
    BY <1>1, Invariance, PTL

\* A step that touches the session belongs to a boot or to a shutdown, which owns
\* the mutex and therefore excludes every command.
LEMMA SessionChangesAlone ==
    ASSUME IInv, [Next]_vars, NEW t \in Callers, pc[t] \in {"publish", "command"}
    PROVE  session' = session
<1>1. pc[t] \in Locked
    BY DEF Locked
<1>2. ASSUME NEW u \in Callers, OpenSession(u) PROVE FALSE
    <2>1. Holds(u) /\ u \in Tasks /\ pc[u] = "connect"
        BY <1>2 DEF OpenSession, IInv, MutexInv, Locked, Tasks
    <2>2. QED
        BY <1>1, <2>1, OneDriver DEF IInv
<1>3. ASSUME NEW a \in Admins, ClearSession(a) PROVE FALSE
    <2>1. Holds(a) /\ a \in Tasks /\ a \notin Callers
        BY <1>3, TasksAssumption DEF ClearSession, Tasks
    <2>2. QED
        BY <1>1, <2>1, OneDriver DEF IInv
<1>4. ASSUME NEW u \in Callers, Call(u) \/ CallerStep(u) PROVE session' = session
    BY <1>2, <1>4
    DEF Call, CallerStep, EnsureStep, SessionFound, TakeOverride, SpawnChrome, AttachRemote,
        LaunchFails, StoreChrome, ConnectFails, Publish, Relock, NoSession, StartCommand,
        EndCommand
<1>5. ASSUME NEW a \in Admins, RequestVisible(a) \/ Shutdown(a) \/ AdminStep(a)
      PROVE  session' = session
    BY <1>3, <1>5 DEF RequestVisible, Shutdown, AdminStep, ClearChrome
<1>6. ASSUME (\E c \in Chromes : Crash(c)) \/ OtherPlugin PROVE session' = session
    BY <1>6 DEF Crash, OtherPlugin
<1>7. QED
    BY <1>4, <1>5, <1>6 DEF Next, vars

\* No shutdown and no other boot takes the session from under a command
\* (plugin.rs 108-166, 183-184).
THEOREM CommandsKeepTheirSession == Spec => CommandKeepsSession
<1>1. IInv /\ [Next]_vars =>
        [\A t \in Callers : pc[t] \in {"publish", "command"} =>
            session # NoChrome /\ session' = session]_vars
    BY SessionChangesAlone DEF IInv, BootInv
<1>2. QED
    BY <1>1, Invariance, PTL DEF Spec, CommandKeepsSession

-----------------------------------------------------------------------------
(* Nobody waits for a mutex that is never given back.                      *)

\* The program counters at which a task waits for the session mutex.
Waiting == {"ensure", "relock", "clearSession"}

\* The queue has, once each, the tasks that own the mutex or wait for it.  A task in
\* front therefore is at a point of the code from which it goes on by itself, and
\* those behind it wait and no more: no error path, shutdown or early return leaves
\* the mutex locked by a task that has gone, or a task waiting that is not queued
\* (plugin.rs 105-111, 182-185, 200-252).
MutexServed ==
    /\ \A i, j \in DOMAIN sessionQ : sessionQ[i] = sessionQ[j] => i = j
    /\ \A i \in DOMAIN sessionQ : pc[sessionQ[i]] \in Locked \cup Waiting
    /\ \A t \in Tasks : pc[t] \in Locked \cup Waiting =>
            \E i \in DOMAIN sessionQ : sessionQ[i] = t
    /\ \A i \in DOMAIN sessionQ : i # 1 => pc[sessionQ[i]] \in Waiting

Queued == Locked \cup Waiting

\* The inductive part: each task behind the front one waits, by MutexInv.
QueueInv ==
    /\ \A i, j \in DOMAIN sessionQ : sessionQ[i] = sessionQ[j] => i = j
    /\ \A i \in DOMAIN sessionQ : pc[sessionQ[i]] \in Queued
    /\ \A t \in Tasks : pc[t] \in Queued => \E i \in DOMAIN sessionQ : sessionQ[i] = t

\* A task that is not in the queue joins it.
LEMMA JoinKeepsQueue ==
    ASSUME TypeOK, QueueInv, NEW t \in Tasks, NEW l \in Waiting,
           pc[t] \notin Queued, Join(t), Goto(t, l)
    PROVE  QueueInv'
<1>1. sessionQ \in Seq(Tasks) /\ sessionQ' = Append(sessionQ, t)
    BY DEF TypeOK, Join
<1>2. \A u \in Tasks : pc'[u] = IF u = t THEN l ELSE pc[u]
    BY DEF TypeOK, Goto
<1>3. /\ DOMAIN sessionQ' = DOMAIN sessionQ \cup {Len(sessionQ) + 1}
      /\ sessionQ'[Len(sessionQ) + 1] = t
      /\ Len(sessionQ) + 1 \notin DOMAIN sessionQ
      /\ \A i \in DOMAIN sessionQ : sessionQ'[i] = sessionQ[i] /\ sessionQ[i] \in Tasks
    BY <1>1
<1>4. \A i \in DOMAIN sessionQ : sessionQ[i] # t
    BY DEF QueueInv
<1>5. \A i, j \in DOMAIN sessionQ' : sessionQ'[i] = sessionQ'[j] => i = j
    BY <1>3, <1>4 DEF QueueInv
<1>6. \A i \in DOMAIN sessionQ' : pc'[sessionQ'[i]] \in Queued
    BY <1>2, <1>3 DEF QueueInv, Queued
<1>7. \A u \in Tasks : pc'[u] \in Queued => \E i \in DOMAIN sessionQ' : sessionQ'[i] = u
    BY <1>2, <1>3 DEF QueueInv
<1>8. QED
    BY <1>5, <1>6, <1>7 DEF QueueInv

\* The task in front leaves it.
LEMMA ReleaseKeepsQueue ==
    ASSUME TypeOK, QueueInv, NEW t \in Tasks, NEW l, l \notin Queued,
           Holds(t), Release, Goto(t, l)
    PROVE  QueueInv'
<1>1. /\ sessionQ \in Seq(Tasks) /\ sessionQ # <<>> /\ sessionQ[1] = t
      /\ sessionQ' = Tail(sessionQ)
    BY DEF TypeOK, Holds, Release
<1>2. \A u \in Tasks : pc'[u] = IF u = t THEN l ELSE pc[u]
    BY DEF TypeOK, Goto
<1>3. /\ DOMAIN sessionQ = 1 .. Len(sessionQ) /\ Len(sessionQ) \in Nat \ {0}
      /\ DOMAIN sessionQ' = 1 .. (Len(sessionQ) - 1)
      /\ \A i \in DOMAIN sessionQ : sessionQ[i] \in Tasks
      /\ \A i \in DOMAIN sessionQ' : sessionQ'[i] = sessionQ[i + 1]
    BY <1>1
<1>4. \A i \in DOMAIN sessionQ' : i + 1 \in DOMAIN sessionQ /\ i + 1 # 1
    BY <1>3
<1>5. \A i \in DOMAIN sessionQ : i # 1 => i - 1 \in DOMAIN sessionQ' /\ (i - 1) + 1 = i
    BY <1>3
<1>6. \A i \in DOMAIN sessionQ : i # 1 => sessionQ[i] # t
    BY <1>1, <1>3 DEF QueueInv
<1>7. \A i, j \in DOMAIN sessionQ' : sessionQ'[i] = sessionQ'[j] => i = j
    <2>1. \A i, j \in DOMAIN sessionQ' : i + 1 = j + 1 => i = j
        BY <1>3
    <2>2. QED
        BY <1>3, <1>4, <2>1 DEF QueueInv
<1>8. \A i \in DOMAIN sessionQ' : pc'[sessionQ'[i]] \in Queued
    BY <1>2, <1>3, <1>4, <1>6 DEF QueueInv
<1>9. ASSUME NEW u \in Tasks, pc'[u] \in Queued
      PROVE  \E i \in DOMAIN sessionQ' : sessionQ'[i] = u
    <2>1. u # t /\ pc[u] \in Queued
        BY <1>2, <1>9
    <2>2. PICK i \in DOMAIN sessionQ : sessionQ[i] = u
        BY <2>1 DEF QueueInv
    <2>3. i # 1
        BY <1>1, <2>1, <2>2
    <2>4. sessionQ'[i - 1] = u
        BY <1>3, <1>5, <2>2, <2>3
    <2>5. QED
        BY <1>5, <2>3, <2>4
<1>10. QED
    BY <1>7, <1>8, <1>9 DEF QueueInv

\* A task moves in the queue's front, or outside of it.
LEMMA StayKeepsQueue ==
    ASSUME TypeOK, QueueInv, NEW t \in Tasks, NEW l,
           pc[t] \in Queued <=> l \in Queued, Goto(t, l), sessionQ' = sessionQ
    PROVE  QueueInv'
<1>1. \A u \in Tasks : pc'[u] \in Queued <=> pc[u] \in Queued
    BY DEF TypeOK, Goto
<1>2. \A i \in DOMAIN sessionQ : sessionQ[i] \in Tasks
    BY DEF TypeOK
<1>3. QED
    BY <1>1, <1>2 DEF QueueInv

LEMMA QueueStep == IInv /\ QueueInv /\ [Next]_vars => QueueInv'
<1> SUFFICES ASSUME IInv, QueueInv, [Next]_vars
             PROVE  QueueInv'
    OBVIOUS
<1>0. TypeOK /\ MutexInv /\ Callers \subseteq Tasks /\ Admins \subseteq Tasks
    BY DEF IInv, Tasks
<1>1. ASSUME NEW t \in Callers, Call(t) \/ Relock(t) PROVE QueueInv'
    BY <1>0, <1>1, JoinKeepsQueue DEF Call, Relock, Queued, Locked, Waiting
<1>2. ASSUME NEW t \in Callers, SessionFound(t) \/ NoSession(t) \/ EndCommand(t)
      PROVE  QueueInv'
    <2>1. Holds(t)
        BY <1>0, <1>2 DEF SessionFound, NoSession, EndCommand, MutexInv, Locked
    <2>2. QED
        BY <1>0, <1>2, <2>1, ReleaseKeepsQueue
        DEF SessionFound, NoSession, EndCommand, Queued, Locked, Waiting
<1>3. ASSUME NEW t \in Callers, LaunchFails(t) \/ ConnectFails(t) \/ Publish(t)
      PROVE  QueueInv'
    <2>1. Holds(t)
        BY <1>0, <1>3 DEF LaunchFails, ConnectFails, Publish, MutexInv, Locked
    <2>2. QED
        BY <1>0, <1>3, <2>1, ReleaseKeepsQueue
        DEF LaunchFails, ConnectFails, Publish, ReturnFromEnsure, Queued, Locked, Waiting
<1>4. ASSUME NEW t \in Callers,
             \/ TakeOverride(t) \/ SpawnChrome(t) \/ AttachRemote(t)
             \/ StoreChrome(t) \/ OpenSession(t) \/ StartCommand(t)
      PROVE  QueueInv'
    BY <1>0, <1>4, StayKeepsQueue
    DEF TakeOverride, SpawnChrome, AttachRemote, StoreChrome, OpenSession, StartCommand,
        Queued, Locked, Waiting
<1>5. ASSUME NEW a \in Admins, Shutdown(a) PROVE QueueInv'
    BY <1>0, <1>5, JoinKeepsQueue DEF Shutdown, Queued, Locked, Waiting
<1>6. ASSUME NEW a \in Admins, ClearSession(a) PROVE QueueInv'
    BY <1>0, <1>6, ReleaseKeepsQueue DEF ClearSession, Queued, Locked, Waiting
<1>7. ASSUME NEW a \in Admins, RequestVisible(a) \/ ClearChrome(a) PROVE QueueInv'
    BY <1>0, <1>7, StayKeepsQueue DEF RequestVisible, ClearChrome, Queued, Locked, Waiting
<1>8. ASSUME (\E c \in Chromes : Crash(c)) \/ OtherPlugin \/ UNCHANGED vars PROVE QueueInv'
    BY <1>8 DEF Crash, OtherPlugin, vars, QueueInv
<1>9. QED
    BY <1>1, <1>2, <1>3, <1>4, <1>5, <1>6, <1>7, <1>8
    DEF Next, CallerStep, EnsureStep, AdminStep

\* The session mutex is never left to a task that has gone, and nobody waits for it
\* outside its queue (plugin.rs 105-111, 182-185, 200-252).
THEOREM TheMutexIsServed == Spec => []MutexServed
<1>1. Init => QueueInv
    BY DEF Init, QueueInv, Queued, Locked, Waiting
<1>2. IInv /\ QueueInv => MutexServed
    <2> SUFFICES ASSUME IInv, QueueInv
                 PROVE  MutexServed
        OBVIOUS
    <2>1. ASSUME NEW i \in DOMAIN sessionQ, i # 1 PROVE pc[sessionQ[i]] \in Waiting
        <3>1. sessionQ[i] \in Tasks /\ 1 \in DOMAIN sessionQ /\ sessionQ # <<>>
            BY <2>1 DEF IInv, TypeOK
        <3>2. sessionQ[i] # sessionQ[1]
            BY <2>1, <3>1 DEF QueueInv
        <3>3. ~Holds(sessionQ[i])
            BY <3>1, <3>2 DEF Holds, IInv, TypeOK
        <3>4. sessionQ[i] \in Callers \/ pc[sessionQ[i]] \in AdminPCs
            BY <3>1 DEF IInv, TypeOK, Tasks
        <3>5. pc[sessionQ[i]] \notin Locked
            BY <3>3, <3>4 DEF IInv, MutexInv, Locked, AdminPCs
        <3>6. QED
            BY <3>5, <2>1 DEF QueueInv, Queued
    <2>2. QED
        BY <2>1 DEF QueueInv, MutexServed, Queued
<1>3. QED
    BY <1>1, <1>2, QueueStep, Invariance, PTL DEF Spec

-----------------------------------------------------------------------------
(* The refinement of LazyBrowser.                                          *)

\* A task that moves changes its own status only, and an admin task none.
LEMMA StatusMoves ==
    ASSUME TypeOK, NEW t \in Tasks, NEW l, Goto(t, l)
    PROVE  /\ \A u \in Callers : u # t => StatusOf(u)' = StatusOf(u)
           /\ t \in Callers =>
                StatusOf(t)' = IF l = "idle" THEN "idle"
                               ELSE IF l = "command" THEN "served" ELSE "waiting"
BY DEF TypeOK, Goto, StatusOf, Tasks

\* A caller that turns from one status to another, seen from outside.
LEMMA StatusBecomes ==
    ASSUME TypeOK, NEW t \in Callers, NEW l, Goto(t, l), NEW s,
           s = IF l = "idle" THEN "idle" ELSE IF l = "command" THEN "served" ELSE "waiting"
    PROVE  Lazy!Becomes(t, s)
<1>1. /\ \A u \in Callers : u # t => StatusOf(u)' = StatusOf(u)
      /\ StatusOf(t)' = s
    BY StatusMoves DEF Tasks
<1>2. QED
    BY <1>1 DEF Lazy!Becomes

\* A step that moves nobody's status and leaves the session alone is not seen.
LEMMA Unseen ==
    ASSUME \A u \in Callers : StatusOf(u)' = StatusOf(u), session' = session
    PROVE  UNCHANGED Lazy!lazyVars
BY DEF Lazy!lazyVars

\* Boots, locks and metrics move a caller between program counters that look alike.
LEMMA HiddenCallerStep ==
    ASSUME IInv, NEW t \in Callers,
           \/ SessionFound(t) \/ TakeOverride(t) \/ SpawnChrome(t) \/ AttachRemote(t)
           \/ StoreChrome(t) \/ Publish(t) \/ Relock(t)
    PROVE  UNCHANGED Lazy!lazyVars
<1>1. session' = session
    BY DEF SessionFound, TakeOverride, SpawnChrome, AttachRemote, StoreChrome, Publish, Relock
<1>2. PICK l \in {"ensured", "launch", "devtools", "connect", "relock"} : Goto(t, l)
    BY DEF SessionFound, TakeOverride, SpawnChrome, AttachRemote, StoreChrome, Publish, Relock,
           ReturnFromEnsure
<1>3. StatusOf(t) = "waiting"
    BY DEF SessionFound, TakeOverride, SpawnChrome, AttachRemote, StoreChrome, Publish, Relock,
           StatusOf
<1>4. StatusOf(t)' = "waiting" /\ \A u \in Callers : u # t => StatusOf(u)' = StatusOf(u)
    BY <1>2, StatusMoves DEF IInv, Tasks
<1>5. QED
    BY <1>1, <1>3, <1>4, Unseen

\* Nor is an admin task seen, but for the moment it clears the session.
LEMMA HiddenAdminStep ==
    ASSUME IInv, NEW a \in Admins, RequestVisible(a) \/ Shutdown(a) \/ ClearChrome(a)
    PROVE  UNCHANGED Lazy!lazyVars
<1>1. session' = session
    BY DEF RequestVisible, Shutdown, ClearChrome
<1>2. PICK l \in {"requested", "clearSession", "idle"} : Goto(a, l)
    BY DEF RequestVisible, Shutdown, ClearChrome
<1>3. \A u \in Callers : StatusOf(u)' = StatusOf(u)
    BY <1>2, StatusMoves, TasksAssumption DEF IInv, Tasks
<1>4. QED
    BY <1>1, <1>3, Unseen

\* The holder of the mutex serves alone.
LEMMA ServedAlone ==
    ASSUME IInv, NEW t \in Tasks, Holds(t), t \in Callers => pc[t] # "command"
    PROVE  Lazy!Served = {}
<1>1. \A u \in Callers : pc[u] # "command"
    BY OneDriver DEF IInv, Locked
<1>2. QED
    BY <1>1 DEF Lazy!Served, StatusOf

\* A failed boot and a lost session refuse the call, with no session there.
LEMMA RefuseStep ==
    ASSUME IInv, NEW t \in Callers, LaunchFails(t) \/ ConnectFails(t) \/ NoSession(t)
    PROVE  Lazy!Refuse(t)
<1>1. Goto(t, "idle") /\ UNCHANGED session
    BY DEF LaunchFails, ConnectFails, NoSession, ReturnFromEnsure
<1>2. session = NoChrome /\ StatusOf(t) = "waiting"
    BY DEF LaunchFails, ConnectFails, NoSession, IInv, BootInv, StatusOf
<1>3. Lazy!Becomes(t, "idle")
    BY <1>1, StatusBecomes DEF IInv
<1>4. QED
    BY <1>1, <1>2, <1>3 DEF Lazy!Refuse

\* Every step of a call is one of the abstract caller's, or is not seen.
LEMMA CallerRefines ==
    ASSUME IInv, NEW t \in Callers, Call(t) \/ CallerStep(t)
    PROVE  Lazy!LazyNext \/ UNCHANGED Lazy!lazyVars
<1>1. CASE Call(t)
    <2>1. Lazy!Becomes(t, "waiting") /\ StatusOf(t) = "idle" /\ UNCHANGED session
        BY <1>1, StatusBecomes DEF Call, IInv, StatusOf
    <2>2. QED
        BY <2>1 DEF Lazy!LazyNext, Lazy!Request
<1>2. CASE LaunchFails(t) \/ ConnectFails(t) \/ NoSession(t)
    BY <1>2, RefuseStep DEF Lazy!LazyNext
<1>3. CASE OpenSession(t)
    <2>1. /\ session = NoChrome /\ session' = launched[t] /\ launched[t] # NoChrome
          /\ launched[t] \in Chromes \cup {Remote}
          /\ StatusOf(t) = "waiting"
        BY <1>3 DEF OpenSession, IInv, BootInv, TypeOK, StatusOf
    <2>2. Goto(t, "publish")
        BY <1>3 DEF OpenSession
    <2>3. \A u \in Callers : StatusOf(u)' = StatusOf(u)
        BY <2>1, <2>2, StatusMoves DEF IInv, Tasks
    <2>4. QED
        BY <2>1, <2>3 DEF Lazy!LazyNext, Lazy!Open
<1>4. CASE StartCommand(t)
    <2>1. Lazy!Becomes(t, "served") /\ StatusOf(t) = "waiting" /\ UNCHANGED session
        BY <1>4, StatusBecomes DEF StartCommand, IInv, StatusOf
    <2>2. session # NoChrome /\ Lazy!Served = {}
        BY <1>4, ServedAlone DEF StartCommand, Tasks
    <2>3. QED
        BY <2>1, <2>2 DEF Lazy!LazyNext, Lazy!Serve
<1>5. CASE EndCommand(t)
    <2>1. Lazy!Becomes(t, "idle") /\ StatusOf(t) = "served" /\ UNCHANGED session
        BY <1>5, StatusBecomes DEF EndCommand, IInv, StatusOf
    <2>2. QED
        BY <2>1 DEF Lazy!LazyNext, Lazy!Answer
<1>6. QED
    BY <1>1, <1>2, <1>3, <1>4, <1>5, HiddenCallerStep DEF CallerStep, EnsureStep

\* A shutdown closes the browser when it clears the session.
LEMMA AdminRefines ==
    ASSUME IInv, NEW a \in Admins, RequestVisible(a) \/ Shutdown(a) \/ AdminStep(a)
    PROVE  Lazy!LazyNext \/ UNCHANGED Lazy!lazyVars
<1>1. CASE ClearSession(a)
    <2>1. Lazy!Served = {}
        BY <1>1, ServedAlone, TasksAssumption DEF ClearSession, Tasks
    <2>2. \A u \in Callers : StatusOf(u)' = StatusOf(u)
        BY <1>1, StatusMoves, TasksAssumption DEF ClearSession, IInv, Tasks
    <2>3. QED
        BY <1>1, <2>1, <2>2 DEF Lazy!LazyNext, Lazy!Close, ClearSession
<1>2. QED
    BY <1>1, HiddenAdminStep DEF AdminStep

\* Every step of the plugin is a step of the lazy browser, or is not seen.
LEMMA LazyStep == IInv /\ [Next]_vars => [Lazy!LazyNext]_(Lazy!lazyVars)
<1>1. SUFFICES ASSUME IInv, [Next]_vars
               PROVE  Lazy!LazyNext \/ UNCHANGED Lazy!lazyVars
    OBVIOUS
<1>2. ASSUME (\E c \in Chromes : Crash(c)) \/ OtherPlugin PROVE UNCHANGED Lazy!lazyVars
    BY <1>2, Unseen DEF Crash, OtherPlugin, StatusOf
<1>3. CASE UNCHANGED vars
    BY <1>3, Unseen DEF vars, StatusOf
<1>4. QED
    BY <1>1, <1>2, <1>3, CallerRefines, AdminRefines DEF Next

\* The plugin implements the lazy browser, for any callers, shutdowns and Chromes:
\* commands are served one at a time, a browser is opened only where there is none
\* and closed only while nobody is served, and calls are refused only without a
\* session (plugin.rs 104-252).
THEOREM PluginIsLazyBrowser == Spec => ImplementsLazyBrowser
<1>1. Init => Lazy!LazyInit
    BY DEF Init, Lazy!LazyInit, StatusOf, Tasks
<1>2. QED
    BY <1>1, LazyStep, Invariance, PTL DEF Spec, ImplementsLazyBrowser, Lazy!LazySpec
==============================================================================
