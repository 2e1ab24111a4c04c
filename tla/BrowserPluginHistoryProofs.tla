--------------------- MODULE BrowserPluginHistoryProofs ---------------------
(***************************************************************************)
(* What shutdown_chrome and execute promise over a whole call, for any     *)
(* number of tasks and Chromes.  The argument for shutdown_chrome: when it *)
(* clears the session it holds the mutex, so no boot is under way and the  *)
(* only Chrome still running is the stored one (NoLeakedChrome); from then *)
(* on whoever replaces the stored handle kills that Chrome.  And for       *)
(* launch_visible: the override it sets is taken by a boot only.           *)
(***************************************************************************)
EXTENDS BrowserPluginHistory, BrowserPluginProofs

DoomedInv ==
    /\ doomed \in [Admins -> SUBSET Chromes]
    /\ \A a \in Admins :
        /\ doomed[a] \subseteq live
        /\ pc[a] = "clearChrome" => doomed[a] \subseteq {chrome}

CutInv ==
    \A t \in Callers : pc[t] \in {"ensured", "relock"} /\ session = NoChrome => t \in cut

\* A boot that has a Chrome and not yet a session.
Booting(c, S) == \E t \in Callers : pc[t] \in S /\ launched[t] = c

Driven(c) == c = session \/ Booting(c, {"devtools", "connect"})

Overtaken == \E a \in Admins : pc[a] = "clearChrome"

\* A Chrome the session or a boot counts on runs or is excused; one that a
\* shutdown is about to kill is excused before it does; and what a boot has
\* just spawned is not the stored Chrome.
ExcusedInv ==
    /\ \A c \in Chromes : Driven(c) => c \in live \cup excused
    /\ \A c \in Chromes :
        Overtaken /\ c = chrome /\ (c = session \/ Booting(c, {"connect"})) => c \in excused
    /\ \A t \in Callers : pc[t] = "devtools" => launched[t] # chrome

HInv == IInv /\ DoomedInv /\ CutInv /\ ExcusedInv

\* It holds before anything was called.
LEMMA HInitHInv == HInit => HInv
BY InitIInv, ChromesAssumption
DEF HInit, Init, HInv, DoomedInv, CutInv, ExcusedInv, Driven, Booting, Overtaken, Tasks

\* The history does not restrain the plugin.
LEMMA HNextIsNext == [HNext]_allVars => [Next]_vars
BY DEF HNext, allVars, vars

\* A Chrome that runs and is not new was running before; it is still the stored
\* one, unless the handle changed hands, which kills what it held.
LEMMA StoredStaysStored ==
    ASSUME IInv, [Next]_vars
    PROVE  chrome' = chrome \/ chrome \notin live'
<1>1. ASSUME NEW t \in Callers, StoreChrome(t) PROVE chrome \notin live'
    BY <1>1 DEF StoreChrome
<1>2. ASSUME NEW a \in Admins, ClearChrome(a) PROVE chrome \notin live'
    BY <1>2 DEF ClearChrome
<1>3. ASSUME NEW t \in Callers, Call(t) \/ CallerStep(t), ~StoreChrome(t)
      PROVE  chrome' = chrome
    BY <1>3
    DEF Call, CallerStep, EnsureStep, SessionFound, TakeOverride, SpawnChrome, AttachRemote,
        LaunchFails, ConnectFails, OpenSession, Publish, ReturnFromEnsure, Relock, NoSession,
        StartCommand, EndCommand
<1>4. ASSUME NEW a \in Admins, RequestVisible(a) \/ Shutdown(a) \/ ClearSession(a)
      PROVE  chrome' = chrome
    BY <1>4 DEF RequestVisible, Shutdown, ClearSession
<1>5. ASSUME (\E c \in Chromes : Crash(c)) \/ OtherPlugin PROVE chrome' = chrome
    BY <1>5 DEF Crash, OtherPlugin
<1>6. QED
    BY <1>1, <1>2, <1>3, <1>4, <1>5 DEF Next, AdminStep, vars

\* When a shutdown clears the session, only the stored Chrome runs.
LEMMA OnlyStoredRuns ==
    ASSUME IInv, NEW a \in Admins, ClearSession(a)
    PROVE  live \subseteq {chrome} /\ UNCHANGED <<live, chrome>>
<1>1. Holds(a) /\ a \in Tasks /\ a \notin Callers
    BY TasksAssumption DEF ClearSession, Tasks
<1>2. \A t \in Callers : pc[t] \notin Locked
    BY <1>1, OneDriver DEF IInv
<1>3. QED
    BY <1>2 DEF IInv, NoLeakedChrome, Locked, ClearSession

\* An admin task reaches clearChrome by clearing the session, and leaves it by
\* killing the stored Chrome.
LEMMA AdminMoves ==
    ASSUME IInv, [Next]_vars, NEW a \in Admins
    PROVE  /\ pc'[a] = "clearChrome" => pc[a] = "clearChrome" \/ ClearSession(a)
           /\ Moves(a, "clearChrome", "idle") => ClearChrome(a)
<1>1. pc \in [Tasks -> CallerPCs \cup AdminPCs] /\ a \in Tasks /\ a \notin Callers
    BY TasksAssumption DEF IInv, TypeOK, Tasks
<1>2. ASSUME NEW t \in Callers, Call(t) \/ CallerStep(t) PROVE pc'[a] = pc[a]
    BY <1>1, <1>2
    DEF Call, CallerStep, EnsureStep, SessionFound, TakeOverride, SpawnChrome, AttachRemote,
        LaunchFails, StoreChrome, ConnectFails, OpenSession, Publish, ReturnFromEnsure, Relock,
        NoSession, StartCommand, EndCommand, Goto
<1>3. ASSUME NEW b \in Admins, RequestVisible(b) \/ Shutdown(b) \/ AdminStep(b)
      PROVE  /\ pc'[a] = "clearChrome" => pc[a] = "clearChrome" \/ ClearSession(a)
             /\ Moves(a, "clearChrome", "idle") => ClearChrome(a)
    BY <1>1, <1>3
    DEF RequestVisible, Shutdown, AdminStep, ClearSession, ClearChrome, Goto, Moves
<1>4. ASSUME (\E c \in Chromes : Crash(c)) \/ OtherPlugin PROVE pc'[a] = pc[a]
    BY <1>4 DEF Crash, OtherPlugin
<1>5. QED
    BY <1>2, <1>3, <1>4 DEF Next, vars, Moves

\* A call gets from ensure_session to its second lock with a session, and a
\* session is lost between the two only to a shutdown.
LEMMA CutStep ==
    ASSUME HInv, HNext
    PROVE  CutInv'
<1>1. SUFFICES ASSUME NEW t \in Callers, pc'[t] \in {"ensured", "relock"}, session' = NoChrome
               PROVE  t \in cut'
    BY DEF CutInv
<1>2. SUFFICES SessionCleared \/ t \in cut
    BY <1>1 DEF HNext, Watch
<1>3. pc \in [Tasks -> CallerPCs \cup AdminPCs] /\ t \in Tasks
    BY DEF HInv, IInv, TypeOK, Tasks
<1>4. ASSUME NEW a \in Admins, ClearSession(a) PROVE SessionCleared
    BY <1>3, <1>4 DEF ClearSession, Goto, SessionCleared, Moves, HInv, IInv, TypeOK, Tasks
<1>5. CASE session = NoChrome /\ pc[t] \in {"ensured", "relock"}
    BY <1>5 DEF HInv, CutInv
<1>6. ASSUME NEW u \in Callers, Call(u) \/ CallerStep(u)
      PROVE  session = NoChrome /\ pc[t] \in {"ensured", "relock"}
    <2>1. CASE SessionFound(u) \/ Publish(u)
        BY <1>1, <2>1 DEF SessionFound, Publish, HInv, IInv, BootInv
    <2>2. CASE OpenSession(u)
        BY <1>1, <2>2 DEF OpenSession, HInv, IInv, BootInv
    <2>3. CASE \/ Call(u) \/ TakeOverride(u) \/ SpawnChrome(u) \/ AttachRemote(u)
               \/ LaunchFails(u) \/ StoreChrome(u) \/ ConnectFails(u) \/ Relock(u)
               \/ NoSession(u) \/ StartCommand(u) \/ EndCommand(u)
        BY <1>1, <1>3, <2>3
        DEF Call, TakeOverride, SpawnChrome, AttachRemote, LaunchFails, StoreChrome,
            ConnectFails, ReturnFromEnsure, Relock, NoSession, StartCommand, EndCommand, Goto
    <2>4. QED
        BY <1>6, <2>1, <2>2, <2>3 DEF CallerStep, EnsureStep
<1>7. ASSUME NEW a \in Admins, RequestVisible(a) \/ Shutdown(a) \/ ClearChrome(a)
      PROVE  session = NoChrome /\ pc[t] \in {"ensured", "relock"}
    BY <1>1, <1>3, <1>7, TasksAssumption DEF RequestVisible, Shutdown, ClearChrome, Goto
<1>8. ASSUME (\E c \in Chromes : Crash(c)) \/ OtherPlugin
      PROVE  session = NoChrome /\ pc[t] \in {"ensured", "relock"}
    BY <1>1, <1>8 DEF Crash, OtherPlugin
<1>9. QED
    BY <1>4, <1>5, <1>6, <1>7, <1>8 DEF HNext, Next, AdminStep

\* A Chrome still condemned once its shutdown has cleared the session is the stored
\* one; the shutdown's second half kills it, unless a boot's handle does first.
LEMMA DoomedStep ==
    ASSUME HInv, HNext
    PROVE  DoomedInv'
<1>1. IInv /\ DoomedInv /\ [Next]_vars /\ live' \subseteq Chromes
    BY NextIInv DEF HInv, HNext, IInv, TypeOK
<1>2. doomed' = [a \in Admins |->
        IF pc[a] # "clearSession" /\ pc'[a] = "clearSession"
        THEN live'
        ELSE doomed[a] \cap live']
    BY DEF HNext, Watch
<1>3. /\ doomed' \in [Admins -> SUBSET Chromes]
      /\ \A a \in Admins : doomed'[a] \subseteq live'
    BY <1>1, <1>2
<1>4. ASSUME NEW a \in Admins, pc'[a] = "clearChrome"
      PROVE  doomed'[a] \subseteq {chrome'}
    <2>1. doomed'[a] = doomed[a] \cap live'
        BY <1>2, <1>4
    <2>2. CASE pc[a] = "clearChrome"
        BY <1>1, <2>1, <2>2, StoredStaysStored DEF DoomedInv
    <2>3. CASE ClearSession(a)
        BY <1>1, <2>1, <2>3, OnlyStoredRuns
    <2>4. QED
        BY <1>1, <1>4, <2>2, <2>3, AdminMoves
<1>5. QED
    BY <1>3, <1>4 DEF DoomedInv

\* A Chrome that something refers to keeps its excuse, and gets the new ones.
LEMMA ExcuseKept ==
    ASSUME HNext, NEW c, c \in excused \cup Exited \cup StoredMeanwhile,
           c = session' \/ \E t \in Callers : launched'[t] = c
    PROVE  c \in excused'
BY DEF HNext, Watch, Fresh

\* Two tasks past their lock().await are one.
LEMMA OneBoot ==
    ASSUME IInv, NEW t \in Callers, NEW u \in Callers, pc[t] \in Locked, pc[u] \in Locked
    PROVE  t = u
BY OneDriver DEF IInv, MutexInv, Tasks

\* A step that starts, feeds and kills nothing gives nothing to excuse.
LEMMA NothingToExcuse ==
    ASSUME HInv, HNext, UNCHANGED <<live, chrome>>, Overtaken' => Overtaken,
           session' \in {session, NoChrome},
           \A t \in Callers :
                pc'[t] \in {"devtools", "connect"} =>
                    \/ pc'[t] = pc[t] /\ launched'[t] = launched[t]
                    \/ pc'[t] = "connect" /\ launched'[t] \notin Chromes
    PROVE  ExcusedInv'
<1>1. ASSUME NEW c \in Chromes, Driven(c)'
      PROVE  /\ Driven(c) /\ (c = session' \/ \E t \in Callers : launched'[t] = c)
             /\ c = session' => c = session
             /\ Booting(c, {"connect"})' => Booting(c, {"connect"})
    BY <1>1, ChromesAssumption DEF Driven, Booting
<1>2. ASSUME NEW c \in Chromes, Driven(c)' PROVE c \in live' \cup excused'
    BY <1>1, <1>2, ExcuseKept DEF HInv, ExcusedInv
<1>3. ASSUME NEW c \in Chromes, Overtaken', c = chrome',
             c = session' \/ Booting(c, {"connect"})'
      PROVE  c \in excused'
    <2>1. Driven(c)'
        BY <1>3 DEF Driven, Booting
    <2>2. c \in excused
        BY <1>1, <1>3, <2>1 DEF HInv, ExcusedInv
    <2>3. QED
        BY <1>1, <2>1, <2>2, ExcuseKept
<1>4. \A t \in Callers : pc'[t] = "devtools" => launched'[t] # chrome'
    BY DEF HInv, ExcusedInv
<1>5. QED
    BY <1>2, <1>3, <1>4 DEF ExcusedInv

\* The steps of a call that touch no process.
LEMMA QuietCallerStep ==
    ASSUME HInv, HNext, NEW t \in Callers,
           \/ Call(t) \/ SessionFound(t) \/ TakeOverride(t) \/ AttachRemote(t)
           \/ ConnectFails(t) \/ Publish(t) \/ Relock(t) \/ NoSession(t)
           \/ StartCommand(t) \/ EndCommand(t)
    PROVE  ExcusedInv'
<1>1. pc \in [Tasks -> CallerPCs \cup AdminPCs] /\ launched \in [Callers -> Chromes \cup {NoChrome, Remote}]
    BY DEF HInv, IInv, TypeOK
<1>2. UNCHANGED <<live, chrome, session>>
    BY DEF Call, SessionFound, TakeOverride, AttachRemote, ConnectFails, Publish, Relock,
           NoSession, StartCommand, EndCommand
<1>3. PICK l : Goto(t, l) /\ l \notin {"devtools", "clearChrome"}
                /\ (l = "connect" => launched' = [launched EXCEPT ![t] = Remote])
                /\ \A u \in Callers : u # t => launched'[u] = launched[u]
    BY <1>1
    DEF Call, SessionFound, TakeOverride, AttachRemote, ConnectFails, Publish, Relock,
        NoSession, StartCommand, EndCommand, ReturnFromEnsure
<1>4. Overtaken' => Overtaken
    BY <1>1, <1>3 DEF Overtaken, Goto, Tasks
<1>5. \A u \in Callers : pc'[u] \in {"devtools", "connect"} =>
        \/ pc'[u] = pc[u] /\ launched'[u] = launched[u]
        \/ pc'[u] = "connect" /\ launched'[u] \notin Chromes
    BY <1>1, <1>3, ChromesAssumption DEF Goto, Tasks
<1>6. QED
    BY <1>2, <1>4, <1>5, NothingToExcuse

\* So do the admin steps but the one that drops the handle; the one that clears the
\* session does so with no boot under way.
LEMMA QuietAdminStep ==
    ASSUME HInv, HNext, NEW a \in Admins, RequestVisible(a) \/ Shutdown(a) \/ ClearSession(a)
    PROVE  ExcusedInv'
<1>1. pc \in [Tasks -> CallerPCs \cup AdminPCs] /\ a \in Tasks /\ a \notin Callers
    BY TasksAssumption DEF HInv, IInv, TypeOK, Tasks
<1>2. CASE RequestVisible(a) \/ Shutdown(a)
    <2>1. UNCHANGED <<live, chrome, session, launched>>
        BY <1>2 DEF RequestVisible, Shutdown
    <2>2. Overtaken' => Overtaken
        BY <1>1, <1>2 DEF RequestVisible, Shutdown, Goto, Overtaken, Tasks
    <2>3. \A u \in Callers : pc'[u] = pc[u]
        BY <1>1, <1>2 DEF RequestVisible, Shutdown, Goto, Tasks
    <2>4. QED
        BY <2>1, <2>2, <2>3, NothingToExcuse
<1>3. CASE ClearSession(a)
    <2>1. \A u \in Callers : pc[u] \notin Locked
        BY <1>1, <1>3, OneDriver DEF ClearSession, HInv, IInv
    <2>2. session' = NoChrome /\ \A u \in Callers : pc'[u] = pc[u]
        BY <1>1, <1>3 DEF ClearSession, Goto
    <2>3. \A u \in Callers : pc'[u] \notin {"devtools", "connect"}
        BY <2>1, <2>2 DEF Locked
    <2>4. QED
        BY <2>2, <2>3, ChromesAssumption DEF ExcusedInv, Driven, Booting
<1>4. QED
    BY <1>2, <1>3

\* The steps of a boot that start, store or kill a Chrome.  The boot is alone, so
\* what it drives is all that is driven.
LEMMA BootExcused ==
    ASSUME HInv, HNext, NEW t \in Callers,
           SpawnChrome(t) \/ LaunchFails(t) \/ StoreChrome(t) \/ OpenSession(t)
    PROVE  ExcusedInv'
<1>1. /\ pc \in [Tasks -> CallerPCs \cup AdminPCs] /\ t \in Tasks
      /\ launched \in [Callers -> Chromes \cup {NoChrome, Remote}]
      /\ pc[t] \in Locked /\ session = NoChrome
    BY DEF HInv, IInv, TypeOK, Tasks, BootInv, Locked, SpawnChrome, LaunchFails, StoreChrome,
           OpenSession
<1>2. \A u \in Callers : pc[u] \in {"devtools", "connect"} => u = t
    BY <1>1, OneBoot DEF HInv, Locked
<1>3. \A u \in Callers : pc'[u] \in {"devtools", "connect"} => u = t
    BY <1>1, <1>2
    DEF SpawnChrome, LaunchFails, StoreChrome, OpenSession, ReturnFromEnsure, Goto, Tasks
<1>4. CASE SpawnChrome(t)
    <2>1. PICK c \in Chromes :
            /\ c # chrome /\ launched'[t] = c /\ c \in live'
        BY <1>1, <1>4 DEF SpawnChrome, Fresh
    <2>2. pc'[t] = "devtools" /\ session' = NoChrome /\ chrome' = chrome
        BY <1>1, <1>4 DEF SpawnChrome, Goto
    <2>3. QED
        BY <1>3, <2>1, <2>2, ChromesAssumption DEF ExcusedInv, Driven, Booting
<1>5. CASE LaunchFails(t)
    <2>1. pc'[t] = "idle" /\ session' = NoChrome
        BY <1>1, <1>5 DEF LaunchFails, ReturnFromEnsure, Goto
    <2>2. QED
        BY <1>3, <2>1, ChromesAssumption DEF ExcusedInv, Driven, Booting
<1>6. CASE StoreChrome(t)
    <2>1. /\ pc[t] = "devtools" /\ pc'[t] = "connect" /\ session' = NoChrome
          /\ launched' = launched /\ chrome' = launched[t] /\ live' = live \ {chrome}
          /\ \A a \in Admins : pc'[a] = pc[a]
        BY <1>1, <1>6, TasksAssumption DEF StoreChrome, Goto, Tasks
    <2>2. launched[t] # chrome /\ (launched[t] \in Chromes => launched[t] \in live \cup excused)
        BY <2>1 DEF HInv, ExcusedInv, Driven, Booting
    <2>3. launched[t] \in excused => launched[t] \in excused'
        BY <2>1, ExcuseKept
    <2>4. Overtaken => launched[t] \in StoredMeanwhile
        BY <2>1 DEF Overtaken, StoredMeanwhile, Moves
    <2>5. Overtaken' => launched[t] \in excused'
        BY <2>1, <2>4, ExcuseKept DEF Overtaken
    <2>6. QED
        BY <1>3, <2>1, <2>2, <2>3, <2>5, ChromesAssumption DEF ExcusedInv, Driven, Booting
<1>7. CASE OpenSession(t)
    <2>1. /\ pc[t] = "connect" /\ pc'[t] = "publish" /\ session' = launched[t]
          /\ launched' = launched /\ chrome' = chrome /\ live' = live
          /\ \A a \in Admins : pc'[a] = pc[a]
        BY <1>1, <1>7, TasksAssumption DEF OpenSession, Goto, Tasks
    <2>2. Booting(launched[t], {"connect"}) /\ Driven(launched[t])
        BY <2>1 DEF Booting, Driven
    <2>3. \A c \in Chromes : Driven(c)' => c = launched[t]
        BY <1>3, <2>1 DEF Driven, Booting
    <2>4. launched[t] \in excused => launched[t] \in excused'
        BY <2>1, ExcuseKept
    <2>5. Overtaken' => Overtaken
        BY <2>1 DEF Overtaken
    <2>6. ASSUME NEW c \in Chromes, Driven(c)' PROVE c \in live' \cup excused'
        BY <2>1, <2>2, <2>3, <2>4, <2>6 DEF HInv, ExcusedInv
    <2>7. ASSUME NEW c \in Chromes, Overtaken', c = chrome', c = session' \/ Booting(c, {"connect"})'
          PROVE  c \in excused'
        <3>1. c = launched[t]
            BY <2>3, <2>7 DEF Driven, Booting
        <3>2. QED
            BY <2>1, <2>2, <2>4, <2>5, <2>7, <3>1 DEF HInv, ExcusedInv
    <2>8. \A u \in Callers : pc'[u] # "devtools"
        BY <1>3, <2>1
    <2>9. QED
        BY <2>6, <2>7, <2>8 DEF ExcusedInv
<1>8. QED
    BY <1>4, <1>5, <1>6, <1>7

\* A Chrome dies outside a boot, killed by a shutdown or by itself; or another plugin
\* sets the gauge.
LEMMA DeathExcused ==
    ASSUME HInv, HNext, \/ \E a \in Admins : ClearChrome(a)
                        \/ (\E c \in Chromes : Crash(c)) \/ OtherPlugin
    PROVE  ExcusedInv'
<1>1. UNCHANGED <<session, launched>>
    BY DEF ClearChrome, Crash, OtherPlugin
<1>2. ASSUME NEW c \in Chromes, c \in excused \cup Exited, Driven(c)' PROVE c \in excused'
    BY <1>1, <1>2, ExcuseKept DEF Driven, Booting
<1>3. CASE \E a \in Admins : ClearChrome(a)
    <2>1. PICK a \in Admins : ClearChrome(a)
        BY <1>3
    <2>2. /\ Overtaken /\ chrome' = NoChrome /\ live' = live \ {chrome}
          /\ \A u \in Callers : pc'[u] = pc[u]
        BY <2>1, TasksAssumption DEF ClearChrome, Overtaken, Goto, HInv, IInv, TypeOK, Tasks
    <2>3. ASSUME NEW c \in Chromes, Driven(c)' PROVE c \in live' \cup excused'
        <3>1. Driven(c)
            BY <1>1, <2>2, <2>3 DEF Driven, Booting
        <3>2. CASE c = chrome
            <4>1. c = session \/ Booting(c, {"connect"})
                BY <3>1, <3>2 DEF Driven, Booting, HInv, ExcusedInv
            <4>2. QED
                BY <1>2, <2>2, <2>3, <3>2, <4>1 DEF HInv, ExcusedInv
        <3>3. QED
            BY <1>2, <2>2, <2>3, <3>1, <3>2 DEF HInv, ExcusedInv
    <2>4. \A t \in Callers : pc'[t] = "devtools" => launched'[t] # chrome'
        BY <1>1, <2>2, ChromesAssumption DEF HInv, IInv, BootInv
    <2>5. QED
        BY <2>2, <2>3, <2>4, ChromesAssumption DEF ExcusedInv
<1>4. CASE (\E c \in Chromes : Crash(c)) \/ OtherPlugin
    <2>1. UNCHANGED <<pc, chrome>> /\ Exited = live \ live'
        BY <1>4 DEF Crash, OtherPlugin, Exited
    <2>2. \A c : Driven(c)' <=> Driven(c)
        BY <1>1, <2>1 DEF Driven, Booting
    <2>3. ASSUME NEW c \in Chromes, Driven(c)' PROVE c \in live' \cup excused'
        BY <1>2, <2>1, <2>2, <2>3 DEF HInv, ExcusedInv
    <2>4. ASSUME NEW c \in Chromes, Overtaken', c = chrome', c = session' \/ Booting(c, {"connect"})'
          PROVE  c \in excused'
        BY <1>1, <1>2, <2>1, <2>4 DEF HInv, ExcusedInv, Overtaken, Driven, Booting
    <2>5. QED
        BY <1>1, <2>1, <2>3, <2>4 DEF HInv, ExcusedInv
<1>5. QED
    BY <1>3, <1>4

\* No step leaves a session or a boot on a dead Chrome without an excuse.
LEMMA ExcusedStep == HInv /\ HNext => ExcusedInv'
BY QuietCallerStep, QuietAdminStep, BootExcused, DeathExcused
DEF HNext, Next, CallerStep, EnsureStep, AdminStep

\* Every watched step keeps the invariant of plugin and history together.
LEMMA HNextHInv == HInv /\ [HNext]_allVars => HInv'
<1>1. ASSUME HInv, HNext PROVE HInv'
    BY <1>1, HNextIsNext, NextIInv, DoomedStep, CutStep, ExcusedStep DEF HInv
<1>2. ASSUME HInv, UNCHANGED allVars PROVE HInv'
    <2>1. IInv'
        BY <1>2, NextIInv DEF HInv, allVars
    <2>2. DoomedInv' /\ CutInv'
        BY <1>2 DEF HInv, DoomedInv, CutInv, allVars, vars, hvars
    <2>3. ExcusedInv'
        BY <1>2 DEF HInv, ExcusedInv, Driven, Booting, Overtaken, allVars, vars, hvars
    <2>4. QED
        BY <2>1, <2>2, <2>3 DEF HInv
<1>3. QED
    BY <1>1, <1>2

\* The invariant of plugin and history holds of every watched behaviour.
THEOREM HInvariance == HSpec => []HInv
BY HInitHInv, HNextHInv, PTL DEF HSpec

\* A returning shutdown has killed every Chrome that ran when it was called, the
\* one a concurrent boot was launching included (plugin.rs 182-189, 217-219).
THEOREM ShutdownKillsThem == HSpec => ShutdownKills
<1>1. ASSUME HInv, [HNext]_allVars, ~UNCHANGED allVars, NEW a \in Returned
      PROVE  doomed'[a] = {}
    <2>1. HNext /\ [Next]_vars /\ a \in Admins /\ IInv /\ DoomedInv
        BY <1>1, HNextIsNext DEF Returned, HInv
    <2>2. ClearChrome(a) /\ pc[a] = "clearChrome"
        BY <1>1, <2>1, AdminMoves DEF Returned, Moves
    <2>3. doomed'[a] = doomed[a] \cap live'
        BY <1>1, <2>1 DEF HNext, Watch, Returned, Moves
    <2>4. QED
        BY <2>1, <2>2, <2>3 DEF DoomedInv, ClearChrome
<1>2. HInv /\ [HNext]_allVars => [\A a \in Returned : doomed'[a] = {}]_allVars
    BY <1>1
<1>3. QED
    BY <1>2, HInvariance, PTL DEF HSpec, ShutdownKills

\* A call is answered "no active session" only when a shutdown cleared the session
\* between its two locks (plugin.rs 105-111).
THEOREM NoSessionNeedsShutdown == HSpec => NoSessionMeansShutdown
<1>1. ASSUME HInv, [HNext]_allVars, ~UNCHANGED allVars,
             NEW t \in Callers, Moves(t, "relock", "idle")
      PROVE  t \in cut
    <2>1. Next /\ pc \in [Tasks -> CallerPCs \cup AdminPCs] /\ t \in Tasks
        BY <1>1 DEF HNext, HInv, IInv, TypeOK, Tasks
    <2>2. NoSession(t)
        BY <1>1, <2>1, TasksAssumption
        DEF Moves, Next, Call, CallerStep, EnsureStep, SessionFound, TakeOverride, SpawnChrome,
            AttachRemote, LaunchFails, StoreChrome, ConnectFails, OpenSession, Publish,
            ReturnFromEnsure, Relock, NoSession, StartCommand, EndCommand, RequestVisible,
            Shutdown, AdminStep, ClearSession, ClearChrome, Crash, OtherPlugin, Goto
    <2>3. QED
        BY <1>1, <2>2 DEF NoSession, HInv, CutInv
<1>2. HInv /\ [HNext]_allVars =>
        [\A t \in Callers : Moves(t, "relock", "idle") => t \in cut]_allVars
    BY <1>1
<1>3. QED
    BY <1>2, HInvariance, PTL DEF HSpec, NoSessionMeansShutdown

\* A session whose Chrome is gone was booted between the two locks of a shutdown, or
\* its Chrome exited by itself: nothing else leads there (plugin.rs 182-189, 200-243).
THEOREM DeadSessionsExplained == HSpec => []DeadSessionExplained
<1>1. HInv => DeadSessionExplained
    BY DEF HInv, ExcusedInv, Driven, DeadSessionExplained
<1>2. QED
    BY <1>1, HInvariance, PTL
-----------------------------------------------------------------------------
(* The promise of launch_visible.                                          *)

\* While a launch_visible is under way that no boot has met, or its promise is owed,
\* the override is set.
OwedInv == unmet # {} \/ owed => override

\* Who goes from ensure to launch consumes the override.
LEMMA BootTakesOverride ==
    ASSUME TypeOK, Next, NEW t \in Callers, Moves(t, "ensure", "launch")
    PROVE  TakeOverride(t)
<1> USE DEF TypeOK, Tasks, Moves, Goto
<1>1. ASSUME NEW u \in Callers, Call(u) \/ CallerStep(u) PROVE TakeOverride(t)
    <2>1. u = t
        BY <1>1 DEF Call, CallerStep, EnsureStep, SessionFound, TakeOverride, SpawnChrome,
            AttachRemote, LaunchFails, StoreChrome, ConnectFails, OpenSession, Publish,
            Relock, NoSession, StartCommand, EndCommand, ReturnFromEnsure
    <2>2. QED
        BY <1>1, <2>1 DEF Call, CallerStep, EnsureStep, SessionFound, SpawnChrome,
            AttachRemote, LaunchFails, StoreChrome, ConnectFails, OpenSession, Publish,
            Relock, NoSession, StartCommand, EndCommand, ReturnFromEnsure
<1>2. ASSUME NEW a \in Admins, RequestVisible(a) \/ Shutdown(a) \/ AdminStep(a)
      PROVE  TakeOverride(t)
    BY <1>2, TasksAssumption DEF RequestVisible, Shutdown, AdminStep, ClearSession, ClearChrome
<1>3. ASSUME (\E c \in Chromes : Crash(c)) \/ OtherPlugin PROVE TakeOverride(t)
    BY <1>3 DEF Crash, OtherPlugin
<1>4. QED
    BY <1>1, <1>2, <1>3 DEF Next

\* Nobody else takes the override away.
LEMMA OverrideStays ==
    ASSUME TypeOK, Next, ~BootBegins, override
    PROVE  override'
<1>1. \A t \in Callers : ~TakeOverride(t)
    BY DEF TypeOK, Tasks, BootBegins, Moves, TakeOverride, Goto
<1>2. QED
    BY <1>1 DEF Next, Call, CallerStep, EnsureStep, SessionFound, SpawnChrome, AttachRemote,
        LaunchFails, StoreChrome, ConnectFails, OpenSession, Publish, Relock, NoSession,
        StartCommand, EndCommand, RequestVisible, Shutdown, AdminStep, ClearSession,
        ClearChrome, Crash, OtherPlugin

\* A launch_visible that begins has set it.
LEMMA AskingSets ==
    ASSUME TypeOK, Next, Asking # {}
    PROVE  override'
<1>1. PICK a \in Admins : Moves(a, "idle", "requested")
    BY DEF Asking
<1> USE <1>1 DEF TypeOK, Tasks, Moves, Goto
<1>2. ASSUME NEW u \in Callers, Call(u) \/ CallerStep(u) PROVE FALSE
    BY <1>2, TasksAssumption DEF Call, CallerStep, EnsureStep, SessionFound, TakeOverride,
        SpawnChrome, AttachRemote, LaunchFails, StoreChrome, ConnectFails, OpenSession,
        Publish, Relock, NoSession, StartCommand, EndCommand, ReturnFromEnsure
<1>3. ASSUME NEW b \in Admins, Shutdown(b) \/ AdminStep(b) PROVE FALSE
    BY <1>3 DEF Shutdown, AdminStep, ClearSession, ClearChrome
<1>4. ASSUME (\E c \in Chromes : Crash(c)) \/ OtherPlugin PROVE FALSE
    BY <1>4 DEF Crash, OtherPlugin
<1>5. QED
    BY <1>2, <1>3, <1>4 DEF Next, RequestVisible

LEMMA OwedStep == TypeOK /\ OwedInv /\ [HNext]_allVars => OwedInv'
<1> SUFFICES ASSUME TypeOK, OwedInv, [HNext]_allVars
             PROVE  OwedInv'
    OBVIOUS
<1>1. CASE UNCHANGED allVars
    BY <1>1 DEF allVars, hvars, vars, OwedInv
<1>2. CASE HNext /\ BootBegins
    BY <1>2 DEF HNext, Watch, OwedInv
<1>3. CASE HNext /\ ~BootBegins
    <2>1. unmet' # {} \/ owed' => unmet # {} \/ owed \/ Asking # {}
        BY <1>3 DEF HNext, Watch
    <2>2. QED
        BY <1>3, <2>1, OverrideStays, AskingSets DEF HNext, OwedInv
<1>4. QED
    BY <1>1, <1>2, <1>3

\* The boot after launch_visible is visible, unless a boot began between the request
\* and the reply (plugin.rs 66-72, 206-215; admin.rs 118-139).
THEOREM VisibleBootsAreVisible == HSpec => VisibleUnlessMet
<1>1. HSpec => [](IInv /\ OwedInv)
    <2>1. HInit => IInv /\ OwedInv
        BY InitIInv DEF HInit, OwedInv
    <2>2. IInv /\ OwedInv /\ [HNext]_allVars => IInv' /\ OwedInv'
        BY HNextIsNext, NextIInv, OwedStep DEF IInv
    <2>3. QED
        BY <2>1, <2>2, PTL DEF HSpec
<1>2. IInv /\ OwedInv /\ [HNext]_allVars =>
        [owed => \A t \in Callers :
            Moves(t, "ensure", "launch") => ~headless'[t]]_allVars
    <2> SUFFICES ASSUME IInv, OwedInv, HNext, owed,
                        NEW t \in Callers, Moves(t, "ensure", "launch")
                 PROVE  ~headless'[t]
        OBVIOUS
    <2>1. TakeOverride(t) /\ override
        BY BootTakesOverride DEF IInv, HNext, OwedInv
    <2>2. QED
        BY <2>1 DEF TakeOverride, IInv, TypeOK
<1>3. QED
    BY <1>1, <1>2, PTL DEF HSpec, VisibleUnlessMet
==============================================================================
