------------------------- MODULE PluginProcessProofs -------------------------
(***************************************************************************)
(* For every environment and any number of topics, requests and instances: *)
(* the limits in force are in range, the daemon's bridge always gets its   *)
(* subscribers, a pairing that was confirmed stays visible, and a topic    *)
(* answers its requests in their order.                                    *)
(***************************************************************************)
EXTENDS PluginProcess, TLAPS

------------------------------------------------------------------------------
(* Limits *)

(* ReadNumber clamps: of the values in range it returns the nearest. *)
LEMMA ReadNumberNearest ==
  ASSUME NEW raw \in Numbers, NEW lo \in Nat, NEW hi \in Nat, NEW default \in lo..hi
  PROVE  Nearest(ReadNumber(raw, default, lo, hi), raw, lo, hi)
<1> DEFINE v == ReadNumber(raw, default, lo, hi)
<1>1. CASE ~Parses(raw)
  BY <1>1 DEF ReadNumber, Nearest
<1>2. CASE Parses(raw)
  <2>1. raw.n \in Int /\ lo <= hi
    BY DEF Numbers
  <2>2. v \in lo..hi /\ v = IF raw.n < lo THEN lo ELSE IF raw.n > hi THEN hi ELSE raw.n
    BY <1>2, <2>1 DEF ReadNumber
  <2>3. \A w \in lo..hi : Distance(v, raw.n) <= Distance(w, raw.n)
    BY <2>1, <2>2 DEF Distance
  <2> QED BY <2>2, <2>3 DEF Nearest
<1> QED BY <1>1, <1>2

LEMMA NearestInRange ==
  ASSUME NEW v, NEW raw, NEW lo \in Nat, NEW hi \in Nat, Nearest(v, raw, lo, hi)
  PROVE  v \in Nat
<1>1. v \in lo..hi
  BY DEF Nearest
<1> QED BY <1>1

LEMMA LimitsType ==
  ASSUME NEW e \in Environments
  PROVE  /\ ReadProfileLimits(e) \in Limits
         /\ Nearest(ReadProfileLimits(e).max_profiles, e.max_profiles, 1, 64)
         /\ Nearest(ReadProfileLimits(e).idle_secs, e.idle_secs, 0, 86400)
<1>1. Nearest(ReadMaxProfiles(e.max_profiles), e.max_profiles, 1, 64)
  BY ProcessAssumption, ReadNumberNearest
     DEF ReadMaxProfiles, DefaultMaxProfiles, MinMaxProfiles, MaxMaxProfiles
<1>2. Nearest(ReadIdleSecs(e.idle_secs), e.idle_secs, 0, 86400)
  BY ProcessAssumption, ReadNumberNearest
     DEF ReadIdleSecs, DefaultIdleSecs, MinIdleSecs, MaxIdleSecs
<1>3. ReadMaxProfiles(e.max_profiles) \in Nat /\ ReadIdleSecs(e.idle_secs) \in Nat
  BY <1>1, <1>2, NearestInRange
<1> QED BY <1>1, <1>2, <1>3 DEF ReadProfileLimits, Limits, ReadFlag

------------------------------------------------------------------------------
(* Startup *)

Started ==
  /\ env \in Environments
  /\ phase \in {"start", "limits", "broker", "serving"}
  /\ phase = "start" => limits = NoLimits
  /\ phase # "start" => limits \in Limits
  /\ phase = "broker" => bridge = (env.broker_kind = "stdio_bridge")
  /\ loop \in [Topics -> {"off", "starting", "up", "locking", "publishing", "ended"}]
  /\ phase # "serving" => \A t \in Topics : loop[t] = "off"
  /\ BridgeServes

LEMMA StartedInit == Init => Started
BY DEF Init, Started, BridgeServes

(* After the startup only the loops move, and none goes back to "off". *)
LEMMA StartedStep == Started /\ [Next]_vars => Started'
<1> SUFFICES ASSUME Started, [Next]_vars PROVE Started'
  OBVIOUS
<1> USE DEF Started, BridgeServes
<1>1. CASE ReadLimits
  BY <1>1, LimitsType DEF ReadLimits
<1>2. CASE WireBridge
  BY <1>2 DEF WireBridge
<1>3. CASE ConnectBroker
  BY <1>3 DEF ConnectBroker, HasBroker
<1>4. CASE UNCHANGED <<startVars, loop>>
  BY <1>4 DEF startVars
<1>5. ASSUME NEW r \in Requests, Send(r) PROVE Started'
  BY <1>4, <1>5 DEF Send
<1>6. ASSUME NEW i \in Instances, ToolStart(i) \/ ToolEnd(i) \/ Reload(i) PROVE Started'
  BY <1>4, <1>6 DEF ToolStart, ToolEnd, Reload
<1>7. ASSUME NEW t \in Topics, NEW s \in {"up", "locking", "publishing", "ended"},
             loop[t] # "off", loop' = [loop EXCEPT ![t] = s], UNCHANGED startVars
      PROVE  Started'
  BY <1>7 DEF startVars
<1>8. ASSUME NEW t \in Topics, \/ Subscribe(t) \/ SubscribeFails(t) \/ LookUp(t) \/ Handle(t)
                               \/ Publish(t) \/ HandlerPanics(t) \/ PublishFails(t) \/ StreamEnds(t)
      PROVE  Started'
  BY <1>7, <1>8 DEF Subscribe, SubscribeFails, LookUp, Handle, Publish, HandlerPanics,
                    PublishFails, StreamEnds, Ready, Waiting
<1>9. ASSUME NEW t \in Topics, Skip(t) PROVE Started'
  BY <1>4, <1>9 DEF Skip
<1>10. CASE UNCHANGED vars
  BY <1>4, <1>10 DEF vars, startVars
<1> QED BY <1>1, <1>2, <1>3, <1>5, <1>6, <1>8, <1>9, <1>10 DEF Next, Startup, Serve

THEOREM StartedInvariance == Spec => []Started
<1> QED BY StartedInit, StartedStep, PTL DEF Spec

(* The bridge is wired before it is looked for: the subscribers are spawned *)
(* in every environment that names the bridge.                              *)
THEOREM BridgesServe == Spec => []BridgeServes
<1>1. Started => BridgeServes
  BY DEF Started
<1> QED BY <1>1, StartedInvariance, PTL

(* The limits the process takes are the values in range nearest to what the *)
(* environment says, whatever it says.                                      *)
THEOREM LimitsAreInRange == Spec => LimitsInRange
<1> DEFINE Change ==
      limits' # limits =>
        /\ limits = NoLimits
        /\ Nearest(limits'.max_profiles, env.max_profiles, 1, 64)
        /\ Nearest(limits'.idle_secs, env.idle_secs, 0, 86400)
<1>1. ASSUME Started, [Next]_vars PROVE [Change]_vars
  <2>1. CASE ReadLimits
    BY <1>1, <2>1, LimitsType DEF ReadLimits, Started
  <2>2. CASE UNCHANGED limits
    BY <2>2
  <2>3. \/ WireBridge \/ ConnectBroker \/ \E r \in Requests : Send(r)
        \/ \E i \in Instances : ToolStart(i) \/ ToolEnd(i) \/ Reload(i)
        \/ \E t \in Topics : \/ Subscribe(t) \/ SubscribeFails(t) \/ Serve(t)
                             \/ HandlerPanics(t) \/ PublishFails(t) \/ StreamEnds(t)
        => UNCHANGED limits
    BY DEF WireBridge, ConnectBroker, Send, ToolStart, ToolEnd, Reload, Subscribe,
           SubscribeFails, Serve, Skip, LookUp, Handle, Publish, HandlerPanics, PublishFails, StreamEnds, startVars
  <2> QED BY <1>1, <2>1, <2>2, <2>3 DEF Next, Startup, vars
<1> QED BY <1>1, StartedInvariance, PTL DEF Spec, LimitsInRange

------------------------------------------------------------------------------
(* Requests *)

LEMMA TypeInit == Init => TypeOK
<1> SUFFICES ASSUME Init PROVE TypeOK
  OBVIOUS
<1>1. bridge \in BOOLEAN
  BY DEF Init
<1>2. /\ handled \in [Topics -> Nat]
      /\ \A t \in Topics : /\ handled[t] \in 0..Len(arrived[t])
                          /\ loop[t] \notin {"locking", "publishing"}
  BY DEF Init
<1>3. arrived \in [Topics -> Seq(Requests)] /\ sent \in [Topics -> Seq(Requests)]
  BY DEF Init
<1>4. faults \in 0..MaxFaults
  BY ProcessAssumption DEF Init
<1>5. /\ env \in Environments /\ phase = "start" /\ limits = NoLimits /\ paired = {}
      /\ loop \in [Topics -> {"off"}] /\ request \in [Requests -> {Unsent}]
      /\ outcome \in [Requests -> {"unsent"}] /\ result \in [Requests -> {{}}]
      /\ lock \in [Instances -> {"free"}] /\ dirOf \in [Instances -> {NoDir}]
  BY DEF Init
<1> QED BY <1>1, <1>2, <1>3, <1>4, <1>5 DEF TypeOK

(* The request in the hands of t marks a declared instance.                 *)
Marks(t) ==
  request[Current(t)].verb = "mark_paired" /\ dirOf[request[Current(t)].on] # NoDir

(* What a reply can show: nothing, the directory marked, or the registry    *)
(* and the sentinels as they are.                                           *)
LEMMA NothingShown ==
  ASSUME NEW d PROVE ~ShowsPaired({}, d) /\ ~ShowsUnpaired({}, d)
BY DEF ShowsPaired, ShowsUnpaired

LEMMA MarkShown ==
  ASSUME NEW d, NEW dir, ShowsPaired({<<dir, TRUE>>}, d) PROVE d = dir
BY DEF ShowsPaired

LEMMA RowsShown ==
  ASSUME NEW d, ShowsUnpaired(Rows, d) PROVE d \notin paired
<1>1. PICK i \in Instances : <<d, FALSE>> = <<dirOf[i], dirOf[i] \in paired>>
  BY DEF ShowsUnpaired, Rows
<1> QED BY <1>1, Zenon

LEMMA RowsType == TypeOK => Rows \in SUBSET (Dirs \X BOOLEAN)
<1> SUFFICES ASSUME TypeOK, NEW i \in Instances, dirOf[i] # NoDir
             PROVE  <<dirOf[i], dirOf[i] \in paired>> \in Dirs \X BOOLEAN
  BY DEF Rows
<1>1. dirOf[i] \in Dirs
  BY DEF TypeOK
<1>2. (dirOf[i] \in paired) \in BOOLEAN
  OBVIOUS
<1> QED BY <1>1, <1>2

LEMMA TypeStep == TypeOK /\ Started /\ [Next]_vars => TypeOK'
<1> SUFFICES ASSUME TypeOK, Started, Started', [Next]_vars PROVE TypeOK'
  BY StartedStep
<1> USE ProcessAssumption
<1>0. /\ env' \in Environments /\ phase' \in {"start", "limits", "broker", "serving"}
      /\ loop' \in [Topics -> {"off", "starting", "up", "locking", "publishing", "ended"}]
      /\ limits' \in Limits \cup {NoLimits}
  <2>1. phase' = "start" => limits' = NoLimits
    BY DEF Started
  <2> QED BY <2>1 DEF Started
<1>1. CASE Startup
  <2>2. bridge' \in BOOLEAN
    BY <1>1 DEF Startup, ReadLimits, WireBridge, ConnectBroker, TypeOK
  <2>3. \A t \in Topics : loop'[t] \in {"locking", "publishing"} => loop[t] = loop'[t]
    BY <1>1 DEF Startup, ReadLimits, WireBridge, ConnectBroker
  <2>4. UNCHANGED <<arrived, handled, request, outcome, result, sent, dirOf, lock, paired,
                    faults>>
    BY <1>1 DEF Startup, ReadLimits, WireBridge, ConnectBroker, requestVars
  <2> QED BY <1>0, <2>2, <2>3, <2>4 DEF TypeOK
<1>2. ASSUME NEW r \in Requests, Send(r) PROVE TypeOK'
  <2>1. PICK p \in Payloads :
          /\ request' = [request EXCEPT ![r] = p]
          /\ IF loop[p.topic] \in {"up", "locking", "publishing"}
               THEN /\ arrived' = [arrived EXCEPT ![p.topic] = Append(@, r)]
                    /\ Outcome(r, "queued")
               ELSE /\ Outcome(r, "lost")
                    /\ UNCHANGED arrived
    BY <1>2 DEF Send
  <2>2. p.topic \in Topics
    BY DEF Payloads
  <2>3. /\ arrived' \in [Topics -> Seq(Requests)]
        /\ \A t \in Topics : Len(arrived[t]) <= Len(arrived'[t])
    <3>1. arrived \in [Topics -> Seq(Requests)]
      BY DEF TypeOK
    <3>2. CASE arrived' = arrived
      BY <3>1, <3>2
    <3>3. CASE arrived' = [arrived EXCEPT ![p.topic] = Append(arrived[p.topic], r)]
      <4>1. /\ Append(arrived[p.topic], r) \in Seq(Requests)
            /\ Len(Append(arrived[p.topic], r)) = Len(arrived[p.topic]) + 1
        BY <2>2, <3>1
      <4> QED BY <2>2, <3>1, <3>3, <4>1
    <3> QED BY <2>1, <3>2, <3>3
  <2>4. \A t \in Topics : /\ handled[t] \in 0..Len(arrived'[t])
                          /\ loop[t] \in {"locking", "publishing"} =>
                               handled[t] < Len(arrived'[t])
    BY <2>3 DEF TypeOK
  <2>5. /\ request' \in [Requests -> Payloads \cup {Unsent}]
        /\ outcome' \in [Requests -> {"unsent", "lost", "queued", "skipped", "handled",
                                      "answered", "unanswered"}]
    BY <2>1 DEF TypeOK, Outcome
  <2> QED BY <1>2, <2>3, <2>4, <2>5 DEF Send, TypeOK, startVars
<1>3. ASSUME NEW i \in Instances, ToolStart(i) \/ ToolEnd(i) \/ Reload(i) PROVE TypeOK'
  <2>1. /\ \/ lock' = [lock EXCEPT ![i] = "tool"] \/ lock' = [lock EXCEPT ![i] = "free"]
           \/ lock' = lock
        /\ dirOf' = dirOf \/ \E d \in Dirs \cup {NoDir} : dirOf' = [dirOf EXCEPT ![i] = d]
    BY <1>3 DEF ToolStart, ToolEnd, Reload
  <2>2. UNCHANGED <<env, phase, limits, bridge, loop, arrived, handled, request, outcome,
                    result, sent, paired, faults>>
    BY <1>3 DEF ToolStart, ToolEnd, Reload, startVars, requestVars
  <2>3. lock' \in [Instances -> {"free", "tool"}] /\ dirOf' \in [Instances -> Dirs \cup {NoDir}]
    <3>1. /\ lock \in [Instances -> {"free", "tool"}]
          /\ dirOf \in [Instances -> Dirs \cup {NoDir}]
      BY DEF TypeOK
    <3> QED BY ONLY <2>1, <3>1, i \in Instances
  <2>4. /\ arrived' \in [Topics -> Seq(Requests)] /\ sent' \in [Topics -> Seq(Requests)]
        /\ handled' \in [Topics -> Nat]
        /\ \A t \in Topics :
             /\ handled'[t] \in 0..Len(arrived'[t])
             /\ loop'[t] \in {"locking", "publishing"} => handled'[t] < Len(arrived'[t])
    BY <2>2 DEF TypeOK
  <2>5. /\ request' \in [Requests -> Payloads \cup {Unsent}]
        /\ outcome' \in [Requests -> {"unsent", "lost", "queued", "skipped", "handled",
                                      "answered", "unanswered"}]
        /\ result' \in [Requests -> SUBSET (Dirs \X BOOLEAN)]
        /\ bridge' \in BOOLEAN /\ paired' \subseteq Dirs /\ faults' \in 0..MaxFaults
    BY <2>2 DEF TypeOK
  <2> QED BY <1>0, <2>3, <2>4, <2>5 DEF TypeOK
<1>4. ASSUME NEW t \in Topics, \/ Subscribe(t) \/ SubscribeFails(t) \/ HandlerPanics(t)
                               \/ StreamEnds(t)
      PROVE  TypeOK'
  <2>1. /\ loop' = [loop EXCEPT ![t] = "up"] \/ loop' = [loop EXCEPT ![t] = "ended"]
        /\ UNCHANGED <<env, phase, limits, bridge, arrived, handled, request, outcome,
                       result, sent, dirOf, lock, paired>>
    BY <1>4 DEF Subscribe, SubscribeFails, HandlerPanics, StreamEnds, startVars, requestVars
  <2>2. faults' \in 0..MaxFaults
    BY <1>4 DEF Subscribe, SubscribeFails, HandlerPanics, StreamEnds, Fault, TypeOK
  <2> QED BY <1>0, <2>1, <2>2 DEF TypeOK
<1>a. ASSUME NEW t \in Topics, handled[t] < Len(arrived[t])
      PROVE  Current(t) \in Requests
  BY <1>a DEF TypeOK, Current
<1>9. ASSUME NEW t \in Topics, LookUp(t) PROVE TypeOK'
  <2>1. /\ handled[t] < Len(arrived[t]) /\ loop' = [loop EXCEPT ![t] = "locking"]
        /\ UNCHANGED <<env, phase, limits, bridge, arrived, handled, request, outcome,
                       result, sent, dirOf, lock, paired, faults>>
    BY <1>9 DEF LookUp, Waiting, startVars, requestVars
  <2> QED BY <1>0, <2>1 DEF TypeOK
<1>5. ASSUME NEW t \in Topics, Skip(t) PROVE TypeOK'
  BY <1>5, <1>a DEF Skip, Waiting, Outcome, TypeOK, startVars
<1>6. ASSUME NEW t \in Topics, Handle(t) PROVE TypeOK'
  <2>1. Current(t) \in Requests /\ handled[t] < Len(arrived[t])
    BY <1>6, <1>a DEF Handle, Ready, Waiting, TypeOK
  <2>2. request[Current(t)].verb = "mark_paired" => request[Current(t)].on \in Instances
    <3>1. request[Current(t)] \in Payloads \cup {Unsent}
      BY <2>1 DEF TypeOK
    <3> QED BY <3>1 DEF Payloads, Unsent, Verbs
  <2>3. result' \in [Requests -> SUBSET (Dirs \X BOOLEAN)] /\ paired' \subseteq Dirs
    <3>1. CASE Marks(t)
      <4> DEFINE dir == dirOf[request[Current(t)].on]
      <4>1. /\ paired' \in {paired, paired \cup {dir}}
            /\ \E v \in {{<<dir, TRUE>>}, {}} : result' = [result EXCEPT ![Current(t)] = v]
        BY <1>6, <3>1 DEF Handle, Marks, MarkPaired
      <4>2. dir \in Dirs
        BY <2>2, <3>1 DEF Marks, TypeOK
      <4>3. {<<dir, TRUE>>} \in SUBSET (Dirs \X BOOLEAN) /\ {} \in SUBSET (Dirs \X BOOLEAN)
        <5>1. <<dir, TRUE>> \in Dirs \X BOOLEAN
          BY <4>2
        <5> QED BY <5>1, Zenon
      <4>4. PICK v \in SUBSET (Dirs \X BOOLEAN) : result' = [result EXCEPT ![Current(t)] = v]
        BY <4>1, <4>3
      <4>5. result \in [Requests -> SUBSET (Dirs \X BOOLEAN)] /\ paired \subseteq Dirs
        BY DEF TypeOK
      <4> QED BY ONLY <2>1, <4>1, <4>2, <4>4, <4>5
    <3>2. CASE ~Marks(t)
      <4>1. paired' = paired /\ \E v \in {Rows, {}} : result' = [result EXCEPT ![Current(t)] = v]
        BY <1>6, <3>2 DEF Handle, Marks
      <4>2. PICK v \in SUBSET (Dirs \X BOOLEAN) : result' = [result EXCEPT ![Current(t)] = v]
        BY <4>1, RowsType
      <4>3. result \in [Requests -> SUBSET (Dirs \X BOOLEAN)] /\ paired \subseteq Dirs
        BY DEF TypeOK
      <4> QED BY ONLY <2>1, <4>1, <4>2, <4>3
    <3> QED BY <3>1, <3>2
  <2>5. faults' \in 0..MaxFaults
    <3>1. faults' = faults \/ Fault
      BY <1>6 DEF Handle
    <3> QED BY <3>1 DEF Fault, TypeOK
  <2>4. /\ outcome' = [outcome EXCEPT ![Current(t)] = "handled"]
        /\ loop' = [loop EXCEPT ![t] = "publishing"]
        /\ UNCHANGED <<env, phase, limits, bridge, arrived, handled, request, sent, dirOf,
                       lock>>
    BY <1>6 DEF Handle, Outcome, startVars
  <2> QED BY <2>1, <2>3, <2>4, <2>5 DEF TypeOK
<1>7. ASSUME NEW t \in Topics, Publish(t) \/ PublishFails(t) PROVE TypeOK'
  <2>1. Current(t) \in Requests /\ handled[t] < Len(arrived[t])
    BY <1>7, <1>a DEF Publish, PublishFails, TypeOK
  <2>2. /\ sent' \in [Topics -> Seq(Requests)]
        /\ outcome' \in [Requests -> {"unsent", "lost", "queued", "skipped", "handled",
                                      "answered", "unanswered"}]
    <3>1. \E left \in BOOLEAN :
            /\ sent' = IF left THEN [sent EXCEPT ![t] = Append(sent[t], Current(t))] ELSE sent
            /\ \E o \in {"answered", "unanswered"} :
                 outcome' = [outcome EXCEPT ![Current(t)] = o]
      <4>1. CASE Publish(t)
        BY <4>1 DEF Publish, Outcome
      <4>2. CASE PublishFails(t)
        BY <4>2 DEF PublishFails, Outcome
      <4> QED BY <1>7, <4>1, <4>2
    <3>2. Append(sent[t], Current(t)) \in Seq(Requests)
      BY <2>1 DEF TypeOK
    <3> QED BY <3>1, <3>2 DEF TypeOK
  <2>4. faults' \in 0..MaxFaults
    BY <1>7 DEF Publish, PublishFails, Fault, TypeOK
  <2>3. /\ handled' = [handled EXCEPT ![t] = @ + 1] /\ loop' = [loop EXCEPT ![t] = "up"]
        /\ UNCHANGED <<env, phase, limits, bridge, arrived, request, result, dirOf, lock,
                       paired>>
    BY <1>7 DEF Publish, PublishFails, startVars
  <2> QED BY <2>1, <2>2, <2>3, <2>4 DEF TypeOK
<1>8. CASE UNCHANGED vars
  BY <1>8 DEF vars, TypeOK
<1> QED BY <1>1, <1>2, <1>3, <1>4, <1>5, <1>6, <1>7, <1>8, <1>9 DEF Next, Serve

(* Every variable stays in its type. *)
THEOREM TypeCorrect == Spec => []TypeOK
<1> QED BY TypeInit, TypeStep, StartedInvariance, PTL DEF Spec

(* A request arrives once and on its own topic; what is behind the one in   *)
(* hand has had no effect; a confirmed pairing is on disk.                  *)
InHand(t) == IF loop[t] = "publishing" THEN "handled" ELSE "queued"

Queues ==
  /\ \A r \in Requests : outcome[r] \in {"unsent", "lost", "queued"} => result[r] = {}
  /\ \A t \in Topics : \A k \in 1..Len(arrived[t]) :
       /\ outcome[arrived[t][k]] \notin {"unsent", "lost"}
       /\ request[arrived[t][k]].topic = t
       /\ k > handled[t] + 1 => outcome[arrived[t][k]] = "queued"
       /\ k = handled[t] + 1 => outcome[arrived[t][k]] = InHand(t)
       /\ \A j \in 1..Len(arrived[t]) : arrived[t][j] = arrived[t][k] => j = k
  /\ \A r \in Requests, d \in Dirs :
       request[r].verb = "mark_paired" /\ ShowsPaired(result[r], d) => d \in paired

QInv == TypeOK /\ Queues /\ PairingShown

LEMMA QueuesInit == Init => QInv
<1> SUFFICES ASSUME Init PROVE QInv
  OBVIOUS
<1>1. \A t \in Topics : Len(arrived[t]) = 0
  BY DEF Init
<1>2. \A r \in Requests : result[r] = {}
  BY DEF Init
<1>3. \A r \in Requests, d \in Dirs : ~ShowsPaired(result[r], d)
  BY <1>2, NothingShown
<1>4. Queues
  BY <1>1, <1>2, <1>3 DEF Queues
<1>5. PairingShown
  BY <1>1, ProcessAssumption DEF PairingShown
<1> QED BY <1>4, <1>5, TypeInit DEF QInv

(* Sending: the request is new, so nothing that arrived before changes. *)
LEMMA QueuesSend ==
  ASSUME QInv, TypeOK', NEW r \in Requests, Send(r)
  PROVE  Queues' /\ PairingShown'
<1> USE ProcessAssumption
<1>0. TypeOK /\ Queues /\ PairingShown
  BY DEF QInv
<1>1. PICK p \in Payloads :
        /\ request' = [request EXCEPT ![r] = p]
        /\ IF loop[p.topic] \in {"up", "locking", "publishing"}
             THEN /\ arrived' = [arrived EXCEPT ![p.topic] = Append(@, r)]
                  /\ Outcome(r, "queued")
             ELSE /\ Outcome(r, "lost")
                  /\ UNCHANGED arrived
  BY DEF Send
<1>2. /\ outcome[r] = "unsent" /\ outcome' = [outcome EXCEPT ![r] = outcome'[r]]
      /\ outcome'[r] \in {"queued", "lost"}
      /\ UNCHANGED <<handled, result, paired>> /\ p.topic \in Topics
  BY <1>0, <1>1 DEF Send, Outcome, TypeOK, Payloads
<1>3. /\ result[r] = {}
      /\ \A t \in Topics : \A k \in 1..Len(arrived[t]) : arrived[t][k] # r
  BY <1>0, <1>2 DEF Queues
<1>4. \A x \in Requests : x # r => outcome'[x] = outcome[x] /\ request'[x] = request[x]
  BY <1>0, <1>1, <1>2 DEF TypeOK
<1>5. ASSUME NEW t \in Topics
      PROVE  /\ arrived[t] \in Seq(Requests) /\ handled[t] \in 0..Len(arrived[t])
             /\ Len(arrived[t]) \in Nat
             /\ \A k \in 1..Len(arrived[t]) : arrived[t][k] \in Requests
  <2>1. arrived[t] \in Seq(Requests) /\ handled[t] \in 0..Len(arrived[t])
    BY <1>0 DEF TypeOK
  <2> QED BY <2>1
<1>6. request'[r] = p
  BY <1>0, <1>1 DEF TypeOK
<1>9. \A x \in Requests : outcome'[x] \in {"unsent", "lost", "queued"} => result'[x] = {}
  BY <1>0, <1>2, <1>3, <1>4 DEF Queues
<1>10. \A x \in Requests, d \in Dirs :
         request'[x].verb = "mark_paired" /\ ShowsPaired(result'[x], d) => d \in paired'
  <2> SUFFICES ASSUME NEW x \in Requests, NEW d \in Dirs, request'[x].verb = "mark_paired",
                      ShowsPaired(result'[x], d)
               PROVE  d \in paired
    BY <1>2
  <2>1. result'[x] = result[x] /\ result[x] # {}
    BY <1>2, NothingShown
  <2>2. request'[x] = request[x]
    BY <1>3, <1>4, <2>1
  <2> QED BY <1>0, <2>1, <2>2 DEF Queues
<1>11. \A t \in Topics : \A k \in 1..Len(arrived[t]) :
         /\ outcome'[arrived[t][k]] = outcome[arrived[t][k]]
         /\ request'[arrived[t][k]] = request[arrived[t][k]]
  BY <1>3, <1>4, <1>5
<1>12. \A t \in Topics : InHand(t)' = InHand(t)
  BY DEF Send, InHand
<1>13. \A t \in Topics : \A k \in 1..Len(arrived[t]) :
         /\ outcome'[arrived[t][k]] \notin {"unsent", "lost"}
         /\ request'[arrived[t][k]].topic = t
         /\ k > handled'[t] + 1 => outcome'[arrived[t][k]] = "queued"
         /\ k = handled'[t] + 1 => outcome'[arrived[t][k]] = InHand(t)'
         /\ \A j \in 1..Len(arrived[t]) : arrived[t][j] = arrived[t][k] => j = k
  BY <1>0, <1>2, <1>11, <1>12 DEF Queues
<1>14. \A j, k \in 1..Len(arrived[AdminTopic]), d \in Dirs :
         LET mark == arrived[AdminTopic][j]
             list == arrived[AdminTopic][k] IN
         /\ j < k /\ request'[mark].verb = "mark_paired" /\ ShowsPaired(result'[mark], d)
         /\ request'[list].verb = "list_instances"
         => ~ShowsUnpaired(result'[list], d)
  BY <1>0, <1>2, <1>11, Zenon DEF PairingShown
<1>7. CASE arrived' = arrived
  <2>1. Queues'
    BY <1>7, <1>9, <1>10, <1>13 DEF Queues
  <2>2. PairingShown'
    BY <1>7, <1>14 DEF PairingShown
  <2> QED BY <2>1, <2>2
<1>8. CASE arrived' = [arrived EXCEPT ![p.topic] = Append(@, r)] /\ outcome'[r] = "queued"
  <2>1. ASSUME NEW t \in Topics, t # p.topic
        PROVE  arrived'[t] = arrived[t]
    BY <1>0, <1>8, <2>1 DEF TypeOK
  <2>2. /\ Len(arrived'[p.topic]) = Len(arrived[p.topic]) + 1
        /\ \A k \in 1..Len(arrived[p.topic]) : arrived'[p.topic][k] = arrived[p.topic][k]
        /\ arrived'[p.topic][Len(arrived[p.topic]) + 1] = r
    <3>1. arrived'[p.topic] = Append(arrived[p.topic], r)
      BY <1>0, <1>2, <1>8 DEF TypeOK
    <3> QED BY <1>2, <1>5, <3>1
  <2>3. ASSUME NEW t \in Topics, NEW k \in 1..Len(arrived'[t])
        PROVE  \/ k \in 1..Len(arrived[t]) /\ arrived'[t][k] = arrived[t][k]
               \/ t = p.topic /\ k = Len(arrived[t]) + 1 /\ arrived'[t][k] = r
    BY <1>2, <1>5, <2>1, <2>2
  <2>4. Queues'
    <3>1. ASSUME NEW t \in Topics, NEW k \in 1..Len(arrived'[t])
          PROVE  /\ outcome'[arrived'[t][k]] \notin {"unsent", "lost"}
                 /\ request'[arrived'[t][k]].topic = t
                 /\ k > handled'[t] + 1 => outcome'[arrived'[t][k]] = "queued"
                 /\ k = handled'[t] + 1 => outcome'[arrived'[t][k]] = InHand(t)'
                 /\ \A j \in 1..Len(arrived'[t]) : arrived'[t][j] = arrived'[t][k] => j = k
      <4>1. CASE k \in 1..Len(arrived[t]) /\ arrived'[t][k] = arrived[t][k]
        <5>1. /\ outcome'[arrived[t][k]] \notin {"unsent", "lost"}
              /\ request'[arrived[t][k]].topic = t
              /\ k > handled'[t] + 1 => outcome'[arrived[t][k]] = "queued"
              /\ k = handled'[t] + 1 => outcome'[arrived[t][k]] = InHand(t)'
          BY ONLY <1>13, <4>1, t \in Topics
        <5>2. \A j \in 1..Len(arrived[t]) : arrived[t][j] = arrived[t][k] => j = k
          BY ONLY <1>13, <4>1, t \in Topics
        <5>3. arrived[t][k] # r
          BY ONLY <1>3, <4>1, t \in Topics
        <5>4. ASSUME NEW j \in 1..Len(arrived'[t]), arrived'[t][j] = arrived'[t][k]
              PROVE  j = k
          BY ONLY <2>3, <4>1, <5>2, <5>3, <5>4, t \in Topics
        <5> QED BY ONLY <4>1, <5>1, <5>4
      <4>2. CASE t = p.topic /\ k = Len(arrived[t]) + 1 /\ arrived'[t][k] = r
        <5>1. k = handled'[t] + 1 => InHand(t)' = "queued"
          <6>1. loop[t] = "publishing" => handled[t] < Len(arrived[t])
            BY <1>0 DEF TypeOK
          <6>2. k = handled'[t] + 1 => handled[t] = Len(arrived[t])
            BY <1>2, <1>5, <4>2
          <6>3. InHand(t)' = InHand(t)
            BY <1>12
          <6> QED BY <1>5, <6>1, <6>2, <6>3 DEF InHand
        <5>2. \A j \in 1..Len(arrived'[t]) : arrived'[t][j] = r => j = k
          BY <1>3, <2>3, <4>2
        <5> QED BY <1>6, <1>8, <4>2, <5>1, <5>2
      <4> QED BY <2>3, <4>1, <4>2
    <3> QED BY <1>9, <1>10, <3>1 DEF Queues
  <2>5. PairingShown'
    <3> SUFFICES ASSUME NEW j \in 1..Len(arrived'[AdminTopic]),
                        NEW k \in 1..Len(arrived'[AdminTopic]), NEW d \in Dirs, j < k,
                        ShowsPaired(result'[arrived'[AdminTopic][j]], d),
                        request'[arrived'[AdminTopic][j]].verb = "mark_paired",
                        request'[arrived'[AdminTopic][k]].verb = "list_instances",
                        ShowsUnpaired(result'[arrived'[AdminTopic][k]], d)
                 PROVE  FALSE
      BY DEF PairingShown
    <3>1. arrived'[AdminTopic][j] # r /\ arrived'[AdminTopic][k] # r
      <4>1. result'[r] = {}
        BY <1>2, <1>3
      <4> QED BY <4>1, NothingShown
    <3>2. /\ j \in 1..Len(arrived[AdminTopic]) /\ arrived'[AdminTopic][j] = arrived[AdminTopic][j]
          /\ k \in 1..Len(arrived[AdminTopic]) /\ arrived'[AdminTopic][k] = arrived[AdminTopic][k]
      BY <2>3, <3>1
    <3> QED BY <1>14, <3>2
  <2> QED BY <2>4, <2>5
<1> QED BY <1>0, <1>1, <1>2, <1>7, <1>8 DEF Outcome, TypeOK

(* A step of the task of topic t touches nothing but its current request. *)
LEMMA QueuesServe ==
  ASSUME QInv, TypeOK', NEW t \in Topics, handled[t] < Len(arrived[t]),
         UNCHANGED <<arrived, request>>,
         \A u \in Topics : u # t => loop'[u] = loop[u] /\ handled'[u] = handled[u],
         \/ /\ handled'[t] = handled[t] /\ loop'[t] = "publishing"
            /\ outcome'[Current(t)] = "handled"
         \/ handled'[t] = handled[t] + 1 /\ loop'[t] = "up",
         \A x \in Requests : x # Current(t) => outcome'[x] = outcome[x] /\ result'[x] = result[x],
         outcome'[Current(t)] \in {"skipped", "handled", "answered", "unanswered"},
         paired \subseteq paired',
         \A d \in Dirs :
            request[Current(t)].verb = "mark_paired" /\ ShowsPaired(result'[Current(t)], d) =>
              d \in paired',
         \/ \A d \in Dirs :
              request[Current(t)].verb = "list_instances" /\ ShowsUnpaired(result'[Current(t)], d)
                => d \notin paired
         \/ result'[Current(t)] = result[Current(t)]
  PROVE  Queues' /\ PairingShown'
<1> USE ProcessAssumption DEF Current
<1>0. TypeOK /\ Queues /\ PairingShown
  BY DEF QInv
<1>1. /\ handled[t] + 1 \in 1..Len(arrived[t]) /\ Current(t) \in Requests
  <2>1. arrived[t] \in Seq(Requests) /\ handled[t] \in Nat
    BY <1>0 DEF TypeOK
  <2> QED BY <2>1
<1>5. ASSUME NEW u \in Topics
      PROVE  /\ handled[u] \in Nat /\ Len(arrived[u]) \in Nat
             /\ \A k \in 1..Len(arrived[u]) : arrived[u][k] \in Requests
  <2>1. arrived[u] \in Seq(Requests) /\ handled[u] \in Nat
    BY <1>0 DEF TypeOK
  <2> QED BY <2>1
<1>2. ASSUME NEW u \in Topics, NEW k \in 1..Len(arrived[u]), arrived[u][k] = Current(t)
      PROVE  u = t /\ k = handled[t] + 1
  <2>1. request[arrived[u][k]].topic = u /\ request[Current(t)].topic = t
    BY <1>0, <1>1 DEF Queues
  <2>2. u = t
    BY <1>2, <2>1
  <2> QED BY <1>0, <1>1, <1>2, <2>2 DEF Queues
<1>3. Queues'
  <2>1. \A x \in Requests : outcome'[x] \in {"unsent", "lost", "queued"} => result'[x] = {}
    BY <1>0, <1>1 DEF Queues
  <2>2. ASSUME NEW x \in Requests, NEW d \in Dirs, request[x].verb = "mark_paired",
               ShowsPaired(result'[x], d)
        PROVE  d \in paired'
    <3>1. CASE x = Current(t)
      BY <2>2, <3>1
    <3>2. CASE x # Current(t)
      <4>1. ShowsPaired(result[x], d)
        BY <2>2, <3>2
      <4> QED BY <1>0, <2>2, <4>1 DEF Queues
    <3> QED BY <3>1, <3>2
  <2>3. ASSUME NEW u \in Topics, NEW k \in 1..Len(arrived[u])
        PROVE  /\ outcome'[arrived[u][k]] \notin {"unsent", "lost"}
               /\ request[arrived[u][k]].topic = u
               /\ k > handled'[u] + 1 => outcome'[arrived[u][k]] = "queued"
               /\ k = handled'[u] + 1 => outcome'[arrived[u][k]] = InHand(u)'
               /\ \A j \in 1..Len(arrived[u]) : arrived[u][j] = arrived[u][k] => j = k
    <3>1. /\ outcome[arrived[u][k]] \notin {"unsent", "lost"}
          /\ request[arrived[u][k]].topic = u
          /\ k > handled[u] + 1 => outcome[arrived[u][k]] = "queued"
          /\ k = handled[u] + 1 => outcome[arrived[u][k]] = InHand(u)
          /\ \A j \in 1..Len(arrived[u]) : arrived[u][j] = arrived[u][k] => j = k
      BY <1>0 DEF Queues
    <3>2. CASE arrived[u][k] = Current(t)
      <4>1. u = t /\ k = handled[t] + 1
        BY <1>2, <3>2
      <4> QED BY <1>1, <1>5, <3>1, <3>2, <4>1 DEF InHand
    <3>3. CASE arrived[u][k] # Current(t) /\ u = t
      <4>1. outcome'[arrived[u][k]] = outcome[arrived[u][k]] /\ k # handled[t] + 1
        BY <1>5, <3>3
      <4> QED BY <1>1, <1>5, <3>1, <3>3, <4>1 DEF InHand
    <3>4. CASE u # t
      <4>1. outcome'[arrived[u][k]] = outcome[arrived[u][k]]
        BY <1>2, <1>5, <3>4
      <4> QED BY <3>1, <3>4, <4>1 DEF InHand
    <3> QED BY <3>2, <3>3, <3>4
  <2> QED BY <2>1, <2>2, <2>3 DEF Queues
<1>4. PairingShown'
  <2> SUFFICES ASSUME NEW j \in 1..Len(arrived[AdminTopic]), NEW k \in 1..Len(arrived[AdminTopic]),
                      NEW d \in Dirs, j < k,
                      ShowsPaired(result'[arrived[AdminTopic][j]], d),
                      request[arrived[AdminTopic][j]].verb = "mark_paired",
                      request[arrived[AdminTopic][k]].verb = "list_instances",
                      ShowsUnpaired(result'[arrived[AdminTopic][k]], d)
               PROVE  FALSE
    BY DEF PairingShown
  <2> DEFINE mark == arrived[AdminTopic][j]
             list == arrived[AdminTopic][k]
  <2>1. mark \in Requests /\ list \in Requests /\ mark # list
    BY <1>0, <1>1, <1>5 DEF Queues
  <2>2. CASE list = Current(t)
    <3>1. result'[mark] = result[mark]
      BY <2>1, <2>2
    <3>2. d \in paired
      BY <1>0, <2>1, <3>1 DEF Queues
    <3>3. result'[list] = result[list]
      BY <2>2, <3>2
    <3> QED BY <1>0, <3>1, <3>3 DEF PairingShown
  <2>3. CASE list # Current(t) /\ mark = Current(t)
    <3>1. t = AdminTopic /\ j = handled[t] + 1
      BY <1>2, <2>3
    <3>2. outcome[list] = "queued"
      BY <1>0, <1>1, <3>1 DEF Queues
    <3>3. result'[list] = {}
      BY <1>0, <2>1, <2>3, <3>2 DEF Queues
    <3> QED BY <3>3, NothingShown
  <2>4. CASE list # Current(t) /\ mark # Current(t)
    BY <1>0, <2>1, <2>4 DEF PairingShown
  <2> QED BY <2>2, <2>3, <2>4
<1> QED BY <1>3, <1>4

LEMMA QueuesStep == QInv /\ Started /\ [Next]_vars => QInv'
<1> SUFFICES ASSUME QInv, Started, [Next]_vars PROVE QInv'
  OBVIOUS
<1>0. TypeOK /\ TypeOK' /\ Queues /\ PairingShown
  BY TypeStep DEF QInv
<1>t. /\ loop \in [Topics -> {"off", "starting", "up", "locking", "publishing", "ended"}]
      /\ handled \in [Topics -> Nat] /\ DOMAIN outcome = Requests
  BY <1>0 DEF TypeOK
<1>1. CASE /\ UNCHANGED <<arrived, handled, request, outcome, result, paired>>
           /\ \A t \in Topics : loop'[t] = "publishing" <=> loop[t] = "publishing"
  BY <1>0, <1>1 DEF QInv, Queues, PairingShown, InHand
<1>2. ASSUME NEW r \in Requests, Send(r) PROVE QInv'
  BY <1>0, <1>2, QueuesSend DEF QInv
<1>3. ASSUME NEW t \in Topics, Skip(t) PROVE QInv'
  <2>1. handled[t] < Len(arrived[t]) /\ Current(t) \in Requests
    BY <1>0, <1>3 DEF Skip, Waiting, Current, TypeOK
  <2>2. request[Current(t)].verb = "fixed"
    <3>1. request[Current(t)] \in Payloads \cup {Unsent} /\ request[Current(t)].form # "good"
      BY <1>0, <1>3, <2>1 DEF TypeOK, Skip
    <3> QED BY <3>1 DEF Payloads, Unsent
  <2>3. /\ UNCHANGED <<arrived, request, loop, result, paired>> /\ loop[t] = "up"
        /\ handled' = [handled EXCEPT ![t] = @ + 1]
        /\ outcome' = [outcome EXCEPT ![Current(t)] = "skipped"]
    BY <1>3 DEF Skip, Outcome, Waiting
  <2>4. /\ \A x \in Requests : x # Current(t) => outcome'[x] = outcome[x]
        /\ outcome'[Current(t)] = "skipped"
        /\ \A u \in Topics : u # t => handled'[u] = handled[u]
        /\ handled'[t] = handled[t] + 1
    BY <1>t, <2>1, <2>3
  <2>5. Queues' /\ PairingShown'
    BY <1>0, <2>1, <2>2, <2>3, <2>4, QueuesServe
  <2> QED BY <1>0, <2>5 DEF QInv
<1>4. ASSUME NEW t \in Topics, Handle(t) PROVE QInv'
  <2>1. handled[t] < Len(arrived[t]) /\ Current(t) \in Requests
    BY <1>0, <1>4 DEF Handle, Ready, Waiting, Current, TypeOK
  <2>2. /\ UNCHANGED <<arrived, request, handled>>
        /\ outcome' = [outcome EXCEPT ![Current(t)] = "handled"]
        /\ loop' = [loop EXCEPT ![t] = "publishing"]
    BY <1>4 DEF Handle, Outcome
  <2>5. /\ \A x \in Requests : x # Current(t) => outcome'[x] = outcome[x]
        /\ outcome'[Current(t)] = "handled" /\ loop'[t] = "publishing"
        /\ \A u \in Topics : u # t => loop'[u] = loop[u] /\ handled'[u] = handled[u]
    BY <1>t, <2>1, <2>2
  <2>3. CASE Marks(t)
    <3> DEFINE dir == dirOf[request[Current(t)].on]
    <3>1. /\ \/ paired' = paired \cup {dir} /\ result' = [result EXCEPT ![Current(t)] = {<<dir, TRUE>>}]
             \/ /\ paired' \in {paired, paired \cup {dir}}
                /\ result' = [result EXCEPT ![Current(t)] = {}]
          /\ request[Current(t)].verb = "mark_paired"
      BY <1>4, <2>3 DEF Handle, Marks, MarkPaired
    <3>2. /\ paired \subseteq paired'
          /\ \A x \in Requests : x # Current(t) => result'[x] = result[x]
          /\ \A d \in Dirs : ShowsPaired(result'[Current(t)], d) => d \in paired'
      <4>1. DOMAIN result = Requests
        BY <1>0 DEF TypeOK
      <4>2. /\ \/ result'[Current(t)] = {<<dir, TRUE>>} /\ dir \in paired'
               \/ result'[Current(t)] = {}
            /\ paired \subseteq paired'
            /\ \A x \in Requests : x # Current(t) => result'[x] = result[x]
        BY ONLY <2>1, <3>1, <4>1, Zenon
      <4> QED BY <4>2, MarkShown, NothingShown
    <3>3. Queues' /\ PairingShown'
      BY <1>0, <2>1, <2>2, <2>5, <3>1, <3>2, QueuesServe
    <3> QED BY <1>0, <3>3 DEF QInv
  <2>4. CASE ~Marks(t)
    <3> DEFINE v == IF request[Current(t)].verb = "list_instances" THEN Rows ELSE {}
    <3>1. paired' = paired /\ result' = [result EXCEPT ![Current(t)] = v]
      BY <1>4, <2>4 DEF Handle, Marks
    <3>2. \A x \in Requests : x # Current(t) => result'[x] = result[x]
      BY <1>0, <2>1, <3>1 DEF TypeOK
    <3>3. result'[Current(t)] = v
      BY <1>0, <2>1, <3>1 DEF TypeOK
    <3>4. /\ \A d \in Dirs : request[Current(t)].verb = "mark_paired" /\ ShowsPaired(v, d) =>
                              d \in paired'
          /\ \A d \in Dirs : request[Current(t)].verb = "list_instances" /\ ShowsUnpaired(v, d) =>
                              d \notin paired
      BY RowsShown, NothingShown
    <3>5. Queues' /\ PairingShown'
      BY <1>0, <2>1, <2>2, <2>5, <3>1, <3>2, <3>3, <3>4, QueuesServe
    <3> QED BY <1>0, <3>5 DEF QInv
  <2> QED BY <2>3, <2>4
<1>5. ASSUME NEW t \in Topics, Publish(t) \/ PublishFails(t) PROVE QInv'
  <2>1. handled[t] < Len(arrived[t]) /\ Current(t) \in Requests
    BY <1>0, <1>5 DEF Publish, PublishFails, Current, TypeOK
  <2>2. /\ UNCHANGED <<arrived, request, result, paired>>
        /\ handled' = [handled EXCEPT ![t] = @ + 1]
        /\ \E o \in {"answered", "unanswered"} :
             outcome' = [outcome EXCEPT ![Current(t)] = o]
    <3>1. CASE Publish(t)
      BY <3>1 DEF Publish, Outcome
    <3>2. CASE PublishFails(t)
      BY <3>2 DEF PublishFails, Outcome
    <3> QED BY <1>5, <3>1, <3>2
  <2>3. outcome[Current(t)] = "handled" /\ loop' = [loop EXCEPT ![t] = "up"]
    <3>1. loop[t] = "publishing" /\ loop' = [loop EXCEPT ![t] = "up"]
      BY <1>5 DEF Publish, PublishFails
    <3>2. handled[t] + 1 \in 1..Len(arrived[t])
      BY <1>0, <2>1 DEF TypeOK
    <3> QED BY <1>0, <3>1, <3>2 DEF Queues, InHand, Current
  <2>4. /\ \A x \in Requests : x # Current(t) => outcome'[x] = outcome[x]
        /\ outcome'[Current(t)] \in {"answered", "unanswered"}
        /\ \A u \in Topics : u # t => loop'[u] = loop[u] /\ handled'[u] = handled[u]
        /\ handled'[t] = handled[t] + 1 /\ loop'[t] = "up"
    BY <1>t, <2>1, <2>2, <2>3
  <2>5. \A d \in Dirs :
          request[Current(t)].verb = "mark_paired" /\ ShowsPaired(result[Current(t)], d) =>
            d \in paired
    BY <1>0, <2>1 DEF Queues
  <2>6. Queues' /\ PairingShown'
    BY <1>0, <2>1, <2>2, <2>3, <2>4, <2>5, QueuesServe
  <2> QED BY <1>0, <2>6 DEF QInv
<1>6. CASE Startup
  <2>1. /\ UNCHANGED <<arrived, handled, request, outcome, result, paired>>
        /\ \A t \in Topics : loop[t] = "off" /\ loop'[t] \in {"off", "starting"}
    BY <1>6 DEF Startup, ReadLimits, WireBridge, ConnectBroker, requestVars, Started
  <2> QED BY <1>1, <2>1
<1>7. ASSUME NEW i \in Instances, ToolStart(i) \/ ToolEnd(i) \/ Reload(i) PROVE QInv'
  BY <1>1, <1>7 DEF ToolStart, ToolEnd, Reload, requestVars
<1>8. ASSUME NEW t \in Topics, \/ Subscribe(t) \/ SubscribeFails(t) \/ LookUp(t)
                               \/ HandlerPanics(t) \/ StreamEnds(t)
      PROVE  QInv'
  <2>1. /\ UNCHANGED <<arrived, handled, request, outcome, result, paired>>
        /\ loop[t] # "publishing"
        /\ \E v \in {"up", "locking", "ended"} : loop' = [loop EXCEPT ![t] = v]
    BY <1>8 DEF Subscribe, SubscribeFails, LookUp, HandlerPanics, StreamEnds, requestVars,
                Ready, Waiting
  <2> QED BY <1>1, <1>t, <2>1
<1>9. CASE UNCHANGED vars
  BY <1>1, <1>9 DEF vars
<1> QED BY <1>2, <1>3, <1>4, <1>5, <1>6, <1>7, <1>8, <1>9 DEF Next, Serve

(* A directory whose pairing was confirmed is unpaired in no list asked for *)
(* later, whatever is reloaded in between (admin.rs 41-55, 88-112).         *)
THEOREM PairingsAreShown == Spec => []PairingShown
<1>1. QInv => PairingShown
  BY DEF QInv
<1> QED BY <1>1, QueuesInit, QueuesStep, StartedInvariance, PTL DEF Spec

------------------------------------------------------------------------------
(* Replies *)

(* What left is what was answered among the requests already finished, and  *)
(* in their order.                                                          *)
SentIsAnswered(t) ==
  \A m \in 1..Len(sent[t]) : \E k \in 1..handled[t] :
    sent[t][m] = arrived[t][k] /\ outcome[arrived[t][k]] = "answered"

AnsweredIsSent(t) ==
  \A k \in 1..handled[t] : outcome[arrived[t][k]] = "answered" =>
    \E m \in 1..Len(sent[t]) : sent[t][m] = arrived[t][k]

SentInOrder(t) ==
  \A m, n \in 1..Len(sent[t]) : m < n =>
    \E j, k \in 1..handled[t] : j < k /\ sent[t][m] = arrived[t][j] /\ sent[t][n] = arrived[t][k]

RepliesOf(t) == SentIsAnswered(t) /\ AnsweredIsSent(t) /\ SentInOrder(t)

Replies == \A t \in Topics : RepliesOf(t)

(* The sequences and counters of a topic, one fact at a time. *)
LEMMA QueueTypes ==
  ASSUME TypeOK, NEW t \in Topics
  PROVE  /\ arrived[t] \in Seq(Requests) /\ Len(arrived[t]) \in Nat
         /\ \A k \in 1..Len(arrived[t]) : arrived[t][k] \in Requests
         /\ sent[t] \in Seq(Requests) /\ Len(sent[t]) \in Nat
         /\ handled[t] \in Nat /\ handled[t] <= Len(arrived[t])
<1>1. arrived[t] \in Seq(Requests) /\ sent[t] \in Seq(Requests)
  BY DEF TypeOK
<1>2. handled[t] \in 0..Len(arrived[t])
  BY DEF TypeOK
<1> QED BY <1>1, <1>2

(* A topic whose finished requests and replies stay as they are keeps its   *)
(* order.                                                                   *)
LEMMA RepliesKept ==
  ASSUME TypeOK, NEW t \in Topics, RepliesOf(t),
         handled'[t] = handled[t], sent'[t] = sent[t],
         \A k \in 1..handled[t] : /\ arrived'[t][k] = arrived[t][k]
                                 /\ outcome'[arrived[t][k]] = outcome[arrived[t][k]]
  PROVE  RepliesOf(t)'
<1>1. SentIsAnswered(t)'
  <2>1. SentIsAnswered(t)
    BY DEF RepliesOf
  <2> QED BY <2>1 DEF SentIsAnswered
<1>2. AnsweredIsSent(t)'
  <2>1. AnsweredIsSent(t)
    BY DEF RepliesOf
  <2> QED BY <2>1 DEF AnsweredIsSent
<1>3. ASSUME NEW m \in 1..Len(sent[t]), NEW n \in 1..Len(sent[t]), m < n
      PROVE  \E j, k \in 1..handled[t] :
               j < k /\ sent[t][m] = arrived'[t][j] /\ sent[t][n] = arrived'[t][k]
  <2>1. PICK j \in 1..handled[t], k \in 1..handled[t] :
          j < k /\ sent[t][m] = arrived[t][j] /\ sent[t][n] = arrived[t][k]
    BY <1>3 DEF RepliesOf, SentInOrder
  <2> QED BY <2>1
<1>4. SentInOrder(t)'
  BY <1>3 DEF SentInOrder
<1> QED BY <1>1, <1>2, <1>4 DEF RepliesOf

(* The task of t finishes its current request: the reply, if there is one,  *)
(* is the last.                                                             *)
LEMMA RepliesAdvance ==
  ASSUME TypeOK, NEW t \in Topics, RepliesOf(t), handled[t] < Len(arrived[t]),
         arrived'[t] = arrived[t], handled'[t] = handled[t] + 1,
         \A k \in 1..handled[t] : outcome'[arrived[t][k]] = outcome[arrived[t][k]],
         \/ sent'[t] = sent[t] /\ outcome'[Current(t)] # "answered"
         \/ sent'[t] = Append(sent[t], Current(t)) /\ outcome'[Current(t)] = "answered"
  PROVE  RepliesOf(t)'
<1> DEFINE h == handled[t]
           l == Len(sent[t])
<1>1. /\ sent[t] \in Seq(Requests) /\ l \in Nat /\ h \in Nat
      /\ Current(t) = arrived[t][h + 1] /\ Current(t) \in Requests
  <2>1. h + 1 \in 1..Len(arrived[t])
    BY QueueTypes
  <2> QED BY <2>1, QueueTypes DEF Current
<1>2. /\ \A k \in 1..(h + 1) : k \in 1..h \/ k = h + 1
      /\ \A k \in 1..h : k \in 1..(h + 1) /\ k < h + 1
      /\ h + 1 \in 1..(h + 1)
  BY <1>1
<1>3. SentIsAnswered(t) /\ AnsweredIsSent(t) /\ SentInOrder(t)
  BY DEF RepliesOf
<1>4. CASE sent'[t] = sent[t] /\ outcome'[Current(t)] # "answered"
  <2>1. SentIsAnswered(t)'
    <3> SUFFICES ASSUME NEW m \in 1..l
                 PROVE  \E k \in 1..(h + 1) :
                          sent[t][m] = arrived[t][k] /\ outcome'[arrived[t][k]] = "answered"
      BY <1>4 DEF SentIsAnswered
    <3>1. PICK k \in 1..h : sent[t][m] = arrived[t][k] /\ outcome[arrived[t][k]] = "answered"
      BY ONLY <1>3, m \in 1..l DEF SentIsAnswered
    <3> QED BY <1>2, <3>1
  <2>2. AnsweredIsSent(t)'
    <3> SUFFICES ASSUME NEW k \in 1..(h + 1), outcome'[arrived[t][k]] = "answered"
                 PROVE  \E m \in 1..l : sent[t][m] = arrived[t][k]
      BY <1>4 DEF AnsweredIsSent
    <3>1. k \in 1..h
      BY <1>1, <1>2, <1>4
    <3>2. outcome[arrived[t][k]] = "answered"
      BY <3>1
    <3> QED BY ONLY <1>3, <3>1, <3>2 DEF AnsweredIsSent
  <2>3. ASSUME NEW m \in 1..Len(sent'[t]), NEW n \in 1..Len(sent'[t]), m < n
        PROVE  \E j, k \in 1..handled'[t] :
                 j < k /\ sent'[t][m] = arrived'[t][j] /\ sent'[t][n] = arrived'[t][k]
    <3>1. /\ sent'[t] = sent[t] /\ arrived'[t] = arrived[t] /\ handled'[t] = h + 1
          /\ m \in 1..l /\ n \in 1..l
      BY <1>4, <2>3
    <3>2. PICK j \in 1..h, k \in 1..h :
            j < k /\ sent[t][m] = arrived[t][j] /\ sent[t][n] = arrived[t][k]
      BY ONLY <1>3, <2>3, <3>1 DEF SentInOrder
    <3>3. j \in 1..handled'[t] /\ k \in 1..handled'[t]
      BY ONLY <1>2, <3>1, j \in 1..h, k \in 1..h
    <3> QED BY ONLY <3>1, <3>2, <3>3
  <2>4. SentInOrder(t)'
    BY ONLY <2>3 DEF SentInOrder
  <2> QED BY ONLY <2>1, <2>2, <2>4 DEF RepliesOf
<1>5. CASE sent'[t] = Append(sent[t], Current(t)) /\ outcome'[Current(t)] = "answered"
  <2>1. /\ Len(sent'[t]) = l + 1 /\ sent'[t][l + 1] = arrived[t][h + 1]
        /\ \A m \in 1..l : sent'[t][m] = sent[t][m]
        /\ \A m \in 1..(l + 1) : m \in 1..l \/ m = l + 1
        /\ \A m \in 1..l : m \in 1..(l + 1)
        /\ l + 1 \in 1..(l + 1)
    BY ONLY <1>1, <1>5
  <2>2. SentIsAnswered(t)'
    <3> SUFFICES ASSUME NEW m \in 1..(l + 1)
                 PROVE  \E k \in 1..(h + 1) :
                          sent'[t][m] = arrived[t][k] /\ outcome'[arrived[t][k]] = "answered"
      BY <2>1 DEF SentIsAnswered
    <3>1. CASE m \in 1..l
      <4>1. PICK k \in 1..h : sent[t][m] = arrived[t][k] /\ outcome[arrived[t][k]] = "answered"
        BY ONLY <1>3, <3>1 DEF SentIsAnswered
      <4> QED BY <1>2, <2>1, <3>1, <4>1
    <3>2. CASE m = l + 1
      BY ONLY <1>1, <1>2, <1>5, <2>1, <3>2
    <3> QED BY ONLY <2>1, <3>1, <3>2, m \in 1..(l + 1)
  <2>3. AnsweredIsSent(t)'
    <3> SUFFICES ASSUME NEW k \in 1..(h + 1), outcome'[arrived[t][k]] = "answered"
                 PROVE  \E m \in 1..(l + 1) : sent'[t][m] = arrived[t][k]
      BY <2>1 DEF AnsweredIsSent
    <3>1. CASE k \in 1..h
      <4>1. outcome[arrived[t][k]] = "answered"
        BY <3>1
      <4>2. PICK m \in 1..l : sent[t][m] = arrived[t][k]
        BY ONLY <1>3, <3>1, <4>1 DEF AnsweredIsSent
      <4> QED BY ONLY <2>1, <4>2
    <3>2. CASE k = h + 1
      BY ONLY <2>1, <3>2
    <3> QED BY ONLY <1>2, <3>1, <3>2, k \in 1..(h + 1)
  <2>4. ASSUME NEW m \in 1..Len(sent'[t]), NEW n \in 1..Len(sent'[t]), m < n
        PROVE  \E j, k \in 1..handled'[t] :
                 j < k /\ sent'[t][m] = arrived'[t][j] /\ sent'[t][n] = arrived'[t][k]
    <3>1. arrived'[t] = arrived[t] /\ handled'[t] = h + 1
      OBVIOUS
    <3>2. m \in 1..(l + 1) /\ n \in 1..(l + 1) /\ m \in 1..l
      BY ONLY <1>1, <2>1, <2>4, m \in 1..Len(sent'[t]), n \in 1..Len(sent'[t])
    <3>3. CASE n \in 1..l
      <4>1. PICK j \in 1..h, k \in 1..h :
              j < k /\ sent[t][m] = arrived[t][j] /\ sent[t][n] = arrived[t][k]
        BY ONLY <1>3, <2>4, <3>2, <3>3 DEF SentInOrder
      <4>2. j \in 1..handled'[t] /\ k \in 1..handled'[t]
        BY ONLY <1>2, <3>1, j \in 1..h, k \in 1..h
      <4> QED BY ONLY <2>1, <3>1, <3>2, <3>3, <4>1, <4>2
    <3>4. CASE n = l + 1
      <4>1. PICK j \in 1..h : sent[t][m] = arrived[t][j]
        BY ONLY <1>3, <3>2 DEF SentIsAnswered
      <4>2. j \in 1..handled'[t] /\ h + 1 \in 1..handled'[t] /\ j < h + 1
        BY ONLY <1>2, <3>1, j \in 1..h
      <4> QED BY ONLY <2>1, <3>1, <3>2, <3>4, <4>1, <4>2
    <3> QED BY ONLY <2>1, <3>2, <3>3, <3>4
  <2>5. SentInOrder(t)'
    BY ONLY <2>4 DEF SentInOrder
  <2> QED BY ONLY <2>2, <2>3, <2>5 DEF RepliesOf
<1> QED BY <1>4, <1>5

(* A request is in one place only: the one in hand is not among those that  *)
(* another topic, or the same one, has finished.                            *)
LEMMA CurrentIsAlone ==
  ASSUME QInv, NEW t \in Topics, handled[t] < Len(arrived[t]),
         NEW u \in Topics, NEW k \in 1..handled[u]
  PROVE  /\ arrived[u][k] # Current(t)
         /\ arrived[u][k] \in Requests /\ Current(t) \in Requests
<1>1. /\ handled[t] + 1 \in 1..Len(arrived[t]) /\ k \in 1..Len(arrived[u])
      /\ u = t => k # handled[t] + 1
  BY QueueTypes DEF QInv
<1>2. arrived[u][k] \in Requests /\ Current(t) \in Requests
  BY <1>1, QueueTypes DEF QInv, Current
<1>3. request[arrived[u][k]].topic = u /\ request[Current(t)].topic = t
  BY <1>1 DEF QInv, Queues, Current
<1>4. u = t => arrived[u][k] # Current(t)
  BY <1>1 DEF QInv, Queues, Current
<1> QED BY <1>2, <1>3, <1>4

(* The task of t moves on by one request, or its handler ends. *)
LEMMA RepliesServe ==
  ASSUME QInv, Replies, NEW t \in Topics, Skip(t) \/ Handle(t) \/ Publish(t) \/ PublishFails(t)
  PROVE  Replies'
<1>0. TypeOK
  BY DEF QInv
<1>1. handled[t] < Len(arrived[t])
  BY <1>0 DEF Skip, Handle, Publish, PublishFails, Ready, Waiting, TypeOK
<1>2. /\ UNCHANGED arrived
      /\ \E o \in {"skipped", "handled", "answered", "unanswered"} :
           outcome' = [outcome EXCEPT ![Current(t)] = o]
  BY DEF Skip, Handle, Publish, PublishFails, Outcome
<1>3. ASSUME NEW u \in Topics, NEW k \in 1..handled[u]
      PROVE  outcome'[arrived[u][k]] = outcome[arrived[u][k]]
  BY <1>0, <1>1, <1>2, CurrentIsAlone DEF TypeOK
<1>4. ASSUME NEW u \in Topics, handled'[u] = handled[u], sent'[u] = sent[u]
      PROVE  RepliesOf(u)'
  <2>1. RepliesOf(u)
    BY DEF Replies
  <2> QED BY <1>0, <1>2, <1>3, <1>4, <2>1, RepliesKept
<1>5. CASE Handle(t)
  <2>1. UNCHANGED <<handled, sent>>
    BY <1>5 DEF Handle
  <2> QED BY <1>4, <2>1 DEF Replies
<1>6. CASE Skip(t) \/ Publish(t) \/ PublishFails(t)
  <2>1. /\ handled' = [handled EXCEPT ![t] = @ + 1]
        /\ \/ sent' = sent /\ \E o \in {"skipped", "unanswered"} :
                                 outcome' = [outcome EXCEPT ![Current(t)] = o]
           \/ /\ sent' = [sent EXCEPT ![t] = Append(@, Current(t))]
              /\ outcome' = [outcome EXCEPT ![Current(t)] = "answered"]
    <3>1. CASE Skip(t)
      BY <3>1 DEF Skip, Outcome
    <3>2. CASE Publish(t)
      BY <3>2 DEF Publish, Outcome
    <3>3. CASE PublishFails(t)
      BY <3>3 DEF PublishFails, Outcome
    <3> QED BY <1>6, <3>1, <3>2, <3>3
  <2>2. Current(t) \in Requests
    <3>1. handled[t] + 1 \in 1..Len(arrived[t])
      BY <1>0, <1>1, QueueTypes
    <3> QED BY <1>0, <3>1, QueueTypes DEF Current
  <2>3. DOMAIN handled = Topics /\ DOMAIN sent = Topics /\ DOMAIN outcome = Requests
    BY <1>0 DEF TypeOK
  <2>4. /\ handled'[t] = handled[t] + 1
        /\ \/ sent'[t] = sent[t] /\ outcome'[Current(t)] # "answered"
           \/ sent'[t] = Append(sent[t], Current(t)) /\ outcome'[Current(t)] = "answered"
        /\ \A u \in Topics : u # t => handled'[u] = handled[u] /\ sent'[u] = sent[u]
    BY <2>1, <2>2, <2>3
  <2>5. RepliesOf(t)'
    <3>1. RepliesOf(t)
      BY DEF Replies
    <3> QED BY <1>0, <1>1, <1>2, <1>3, <2>4, <3>1, RepliesAdvance
  <2> QED BY <1>4, <2>4, <2>5 DEF Replies
<1> QED BY <1>5, <1>6

LEMMA RepliesStep ==
  ASSUME QInv, Replies, [Next]_vars
  PROVE  Replies'
<1>0. TypeOK
  BY DEF QInv
<1>1. ASSUME UNCHANGED <<handled, sent>>,
             \A u \in Topics : \A k \in 1..handled[u] :
               /\ arrived'[u][k] = arrived[u][k]
               /\ outcome'[arrived[u][k]] = outcome[arrived[u][k]]
      PROVE  Replies'
  <2> SUFFICES ASSUME NEW u \in Topics PROVE RepliesOf(u)'
    BY DEF Replies
  <2>1. RepliesOf(u)
    BY DEF Replies
  <2> QED BY <1>0, <1>1, <2>1, RepliesKept
<1>2. ASSUME NEW r \in Requests, Send(r) PROVE Replies'
  <2>1. UNCHANGED <<handled, sent>> /\ outcome[r] = "unsent"
    BY <1>2 DEF Send
  <2>2. ASSUME NEW u \in Topics, NEW k \in 1..handled[u]
        PROVE  /\ arrived'[u][k] = arrived[u][k]
               /\ outcome'[arrived[u][k]] = outcome[arrived[u][k]]
    <3>1. k \in 1..Len(arrived[u]) /\ arrived[u] \in Seq(Requests)
      BY <1>0, QueueTypes
    <3>2. arrived[u][k] # r /\ arrived[u][k] \in Requests
      BY <2>1, <3>1 DEF QInv, Queues
    <3>3. \E o \in {"queued", "lost"} : outcome' = [outcome EXCEPT ![r] = o]
      BY <1>2 DEF Send, Outcome
    <3>4. PICK p \in Payloads :
            arrived' = arrived \/ arrived' = [arrived EXCEPT ![p.topic] = Append(@, r)]
      BY <1>2 DEF Send
    <3>5. arrived'[u] = arrived[u] \/ arrived'[u] = Append(arrived[u], r)
      BY <1>0, <3>4 DEF TypeOK
    <3>6. DOMAIN outcome = Requests
      BY <1>0 DEF TypeOK
    <3>7. outcome'[arrived[u][k]] = outcome[arrived[u][k]]
      BY ONLY <3>2, <3>3, <3>6
    <3>8. arrived'[u][k] = arrived[u][k]
      BY ONLY <3>1, <3>5
    <3> QED BY <3>7, <3>8
  <2> QED BY <1>1, <2>1, <2>2
<1>3. CASE UNCHANGED <<arrived, handled, outcome, sent>>
  BY <1>1, <1>3
<1>4. CASE Startup \/ UNCHANGED vars
             \/ \E i \in Instances : ToolStart(i) \/ ToolEnd(i) \/ Reload(i)
  BY <1>3, <1>4 DEF Startup, ReadLimits, WireBridge, ConnectBroker, ToolStart, ToolEnd,
                    Reload, requestVars, vars
<1>5. ASSUME NEW t \in Topics, \/ Subscribe(t) \/ SubscribeFails(t) \/ LookUp(t)
                               \/ HandlerPanics(t) \/ StreamEnds(t)
      PROVE  Replies'
  BY <1>3, <1>5 DEF Subscribe, SubscribeFails, LookUp, HandlerPanics, StreamEnds, requestVars
<1> QED BY <1>2, <1>4, <1>5, RepliesServe DEF Next, Serve

(* Every answered request has its reply, no other has one, none has two,    *)
(* and they leave in the order in which the requests came in, whatever      *)
(* faults the broker, the handlers and the disk have (main.rs 284-311).   *)
THEOREM RepliesAreInOrder == Spec => []RepliesInOrder
<1>1. Init => Replies
  <2> SUFFICES ASSUME Init, NEW t \in Topics PROVE RepliesOf(t)
    BY DEF Replies
  <2>1. Len(sent[t]) = 0 /\ handled[t] = 0
    BY DEF Init
  <2> QED BY <2>1 DEF RepliesOf, SentIsAnswered, AnsweredIsSent, SentInOrder
<1>2. QInv /\ Replies => RepliesInOrder
  <2> SUFFICES ASSUME QInv, Replies, NEW t \in Topics
               PROVE  /\ \A k \in 1..Len(arrived[t]) :
                           outcome[arrived[t][k]] = "answered" <=>
                             \E m \in 1..Len(sent[t]) : sent[t][m] = arrived[t][k]
                      /\ \A m \in 1..Len(sent[t]) :
                           \E k \in 1..Len(arrived[t]) : sent[t][m] = arrived[t][k]
                      /\ \A m, n \in 1..Len(sent[t]) :
                           m < n => \E j, k \in 1..Len(arrived[t]) :
                             j < k /\ sent[t][m] = arrived[t][j] /\ sent[t][n] = arrived[t][k]
    BY DEF RepliesInOrder
  <2>1. /\ \A k \in 1..handled[t] : k \in 1..Len(arrived[t])
        /\ \A k \in 1..Len(arrived[t]) : k \in 1..handled[t] \/ k = handled[t] + 1 \/ k > handled[t] + 1
    BY QueueTypes DEF QInv
  <2>2. SentIsAnswered(t) /\ AnsweredIsSent(t) /\ SentInOrder(t)
    BY DEF Replies, RepliesOf
  <2>3. ASSUME NEW k \in 1..Len(arrived[t]), outcome[arrived[t][k]] = "answered"
        PROVE  \E m \in 1..Len(sent[t]) : sent[t][m] = arrived[t][k]
    <3>1. k \in 1..handled[t]
      BY <2>1, <2>3 DEF QInv, Queues, InHand
    <3> QED BY <2>2, <2>3, <3>1 DEF AnsweredIsSent
  <2>4. ASSUME NEW m \in 1..Len(sent[t])
        PROVE  \E k \in 1..Len(arrived[t]) :
                 sent[t][m] = arrived[t][k] /\ outcome[arrived[t][k]] = "answered"
    <3>1. PICK k \in 1..handled[t] :
            sent[t][m] = arrived[t][k] /\ outcome[arrived[t][k]] = "answered"
      BY <2>2 DEF SentIsAnswered
    <3> QED BY <2>1, <3>1
  <2>5. ASSUME NEW m \in 1..Len(sent[t]), NEW n \in 1..Len(sent[t]), m < n
        PROVE  \E j, k \in 1..Len(arrived[t]) :
                 j < k /\ sent[t][m] = arrived[t][j] /\ sent[t][n] = arrived[t][k]
    <3>1. PICK j \in 1..handled[t], k \in 1..handled[t] :
            j < k /\ sent[t][m] = arrived[t][j] /\ sent[t][n] = arrived[t][k]
      BY <2>2, <2>5 DEF SentInOrder
    <3> QED BY <2>1, <3>1
  <2>6. ASSUME NEW k \in 1..Len(arrived[t])
        PROVE  outcome[arrived[t][k]] = "answered" <=>
                 \E m \in 1..Len(sent[t]) : sent[t][m] = arrived[t][k]
    BY <2>3, <2>4, Zenon
  <2>7. \A m \in 1..Len(sent[t]) : \E k \in 1..Len(arrived[t]) : sent[t][m] = arrived[t][k]
    BY <2>4
  <2> QED BY <2>5, <2>6, <2>7
<1>3. QInv /\ Replies /\ [Next]_vars => Replies'
  BY RepliesStep
<1> QED BY <1>1, <1>2, <1>3, QueuesInit, QueuesStep, StartedInvariance, PTL DEF Spec

==============================================================================
