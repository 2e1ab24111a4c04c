---------------------------- MODULE PluginProcess ----------------------------
(***************************************************************************)
(* The process of the plugin: how main (main.rs) starts it, and the broker *)
(* subscribers it serves the daemon's request-reply topics with.  Every    *)
(* topic has one task that takes one request after the other: it parses,   *)
(* runs the handler (auto_discovery.rs, admin.rs) to its end and publishes *)
(* the reply.  The verbs that shut a Chrome down wait for the session      *)
(* mutex of the instance, which a tool call holds for its whole command,   *)
(* while stdio keeps tool calls coming beside all of this.                 *)
(*                                                                         *)
(* What happens under the mutex is BrowserPlugin's subject.                *)
(***************************************************************************)
EXTENDS ProfileLimits, Sequences

CONSTANTS Requests,      \* requests of the daemon, each sent once
          Topics, AdminTopic,
          Instances,     \* labels of instances
          Dirs,          \* their user_data_dirs
          NoDir,         \* that of a label that is not declared
          Environments,  \* the environments the process may be started in
          NoLimits,      \* limits not read yet
          MaxFaults      \* bound: failures of the broker, of handlers, of the disk

ASSUME ProcessAssumption ==
  /\ AdminTopic \in Topics
  /\ MaxFaults \in Nat
  /\ NoLimits \notin Limits
  /\ NoDir \notin Dirs
  /\ \A env \in Environments :
       /\ env.max_profiles \in Numbers /\ env.idle_secs \in Numbers
       /\ env.multi_profile \in Flags /\ env.legacy_per_agent \in Flags
       /\ env.broker_kind \in {"stdio_bridge", "nats"} /\ env.broker_url \in BOOLEAN

VARIABLES env,       \* the environment
          phase,     \* how far main has come
          limits,    \* ProfileLimits
          bridge,    \* BRIDGE is set
          loop,      \* the subscriber task of each topic
          arrived,   \* the requests its subscription delivered
          handled,   \* how many of them it has finished
          request,   \* what each request asks
          outcome,   \* what has become of it
          result,    \* the rows its handler returned: a directory, paired or not
          sent,      \* the replies of each topic, in the order they left
          dirOf,     \* the registry: the user_data_dir of each declared instance
          lock,      \* the session mutex of each instance
          paired,    \* the directories with a .nexo-paired sentinel
          faults     \* failures so far

startVars == <<env, phase, limits, bridge>>
requestVars == <<arrived, handled, request, outcome, result, sent>>
vars == <<env, phase, limits, bridge, loop, arrived, handled, request, outcome,
          result, sent, dirOf, lock, paired, faults>>

(* What the daemon may ask.  "shutdown" stands for restart and             *)
(* launch_visible too, "unknown" for what a handler answers with an error   *)
(* whatever is declared: another method, a missing `instance`.              *)
Verbs == {"list_instances", "mark_paired", "shutdown", "unknown"}
Payloads == [topic : Topics \ {AdminTopic}, form : {"good"}, verb : {"fixed"}, on : {0}]
            \cup [topic : {AdminTopic}, form : {"good"}, verb : Verbs, on : Instances]
            \cup [topic : Topics, form : {"malformed", "no_reply_to"}, verb : {"fixed"}, on : {0}]
Unsent == [topic |-> AdminTopic, form |-> "unsent", verb |-> "fixed", on |-> 0]

Init ==
  /\ env \in Environments
  /\ phase = "start" /\ limits = NoLimits /\ bridge = FALSE
  /\ loop = [t \in Topics |-> "off"]
  /\ arrived = [t \in Topics |-> <<>>]
  /\ handled = [t \in Topics |-> 0]
  /\ request = [r \in Requests |-> Unsent]
  /\ outcome = [r \in Requests |-> "unsent"]
  /\ result = [r \in Requests |-> {}]
  /\ sent = [t \in Topics |-> <<>>]
  /\ dirOf = [i \in Instances |-> NoDir]
  /\ lock = [i \in Instances |-> "free"]
  /\ paired = {}
  /\ faults = 0

Fault == faults < MaxFaults /\ faults' = faults + 1
Outcome(r, o) == outcome' = [outcome EXCEPT ![r] = o]

------------------------------------------------------------------------------
(* main *)

ReadLimits ==
  /\ phase = "start" /\ phase' = "limits"
  /\ limits' = ReadProfileLimits(env)
  /\ UNCHANGED <<env, bridge, loop, requestVars, dirOf, lock, paired, faults>>

WireBridge ==
  /\ phase = "limits" /\ phase' = "broker"
  /\ bridge' = (env.broker_kind = "stdio_bridge")
  /\ UNCHANGED <<env, limits, loop, requestVars, dirOf, lock, paired, faults>>

HasBroker == IF env.broker_kind = "stdio_bridge" THEN bridge ELSE env.broker_url

(* One task per topic if there is a broker; run_stdio in any case. *)
ConnectBroker ==
  /\ phase = "broker"
  /\ phase' = "serving"
  /\ \E up \in IF HasBroker THEN {TRUE, env.broker_kind = "stdio_bridge"} ELSE {FALSE} :
       loop' = [t \in Topics |-> IF up THEN "starting" ELSE "off"]
  /\ UNCHANGED <<env, limits, bridge, requestVars, dirOf, lock, paired, faults>>

Startup == ReadLimits \/ WireBridge \/ ConnectBroker

------------------------------------------------------------------------------
(* The daemon and the tool calls *)

(* A request that finds no subscription is lost. *)
Send(r) ==
  /\ outcome[r] = "unsent"
  /\ \E p \in Payloads :
       /\ request' = [request EXCEPT ![r] = p]
       /\ IF loop[p.topic] \in {"up", "locking", "publishing"}
            THEN /\ arrived' = [arrived EXCEPT ![p.topic] = Append(@, r)]
                 /\ Outcome(r, "queued")
            ELSE /\ Outcome(r, "lost")
                 /\ UNCHANGED arrived
  /\ UNCHANGED <<startVars, loop, handled, result, sent, dirOf, lock, paired, faults>>

ToolStart(i) ==
  /\ phase = "serving" /\ dirOf[i] # NoDir /\ lock[i] = "free"
  /\ lock' = [lock EXCEPT ![i] = "tool"]
  /\ UNCHANGED <<startVars, loop, requestVars, dirOf, paired, faults>>

ToolEnd(i) ==
  /\ lock[i] = "tool"
  /\ lock' = [lock EXCEPT ![i] = "free"]
  /\ UNCHANGED <<startVars, loop, requestVars, dirOf, paired, faults>>

(* apply_configure declares an instance, moves it or drops it.  The mutex   *)
(* stays as it is: who uses a replaced plugin counts as a user of the next. *)
Reload(i) ==
  /\ phase = "serving"
  /\ \E d \in Dirs \cup {NoDir} : dirOf' = [dirOf EXCEPT ![i] = d]
  /\ UNCHANGED <<startVars, loop, requestVars, lock, paired, faults>>

------------------------------------------------------------------------------
(* spawn_one *)

Subscribe(t) ==
  /\ loop[t] = "starting"
  /\ loop' = [loop EXCEPT ![t] = "up"]
  /\ UNCHANGED <<startVars, requestVars, dirOf, lock, paired, faults>>

SubscribeFails(t) ==
  /\ loop[t] = "starting" /\ Fault
  /\ loop' = [loop EXCEPT ![t] = "ended"]
  /\ UNCHANGED <<startVars, requestVars, dirOf, lock, paired>>

Waiting(t) == loop[t] = "up" /\ handled[t] < Len(arrived[t])
Current(t) == arrived[t][handled[t] + 1]

(* Mutant: what is not served stays at the head of the stream. *)
SkipStays(t) ==
  /\ Waiting(t) /\ request[Current(t)].form # "good"
  /\ Outcome(Current(t), "skipped")
  /\ UNCHANGED <<startVars, loop, arrived, handled, request, result, sent, dirOf, lock, paired, faults>>

(* Mutant: the request after a skipped one is dropped with it. *)
SkipTwo(t) ==
  /\ Waiting(t) /\ request[Current(t)].form # "good"
  /\ Outcome(Current(t), "skipped")
  /\ handled' = [handled EXCEPT ![t] = @ + 2]
  /\ UNCHANGED <<startVars, loop, arrived, request, result, sent, dirOf, lock, paired, faults>>

(* Neither a reply nor an error for what does not parse or asks no reply. *)
Skip(t) ==
  /\ Waiting(t) /\ request[Current(t)].form # "good"
  /\ Outcome(Current(t), "skipped")
  /\ handled' = [handled EXCEPT ![t] = @ + 1]
  /\ UNCHANGED <<startVars, loop, arrived, request, result, sent, dirOf, lock, paired, faults>>

(* The verb looks its instance up, and waits for the session mutex.         *)
MustLock(r) == request[r].verb = "shutdown" /\ dirOf[request[r].on] # NoDir

LookUp(t) ==
  /\ Waiting(t) /\ request[Current(t)].form = "good" /\ MustLock(Current(t))
  /\ loop' = [loop EXCEPT ![t] = "locking"]
  /\ UNCHANGED <<startVars, requestVars, dirOf, lock, paired, faults>>

(* Mutant: one task serves all topics. *)
ReadyOneTask(t) ==
  /\ \A u \in Topics : loop[u] = "locking" => u = t
  /\ \/ Waiting(t) /\ request[Current(t)].form = "good" /\ ~MustLock(Current(t))
     \/ loop[t] = "locking" /\ lock[request[Current(t)].on] = "free"

(* The handler of the request at the head can run to its end.               *)
Ready(t) ==
  \/ Waiting(t) /\ request[Current(t)].form = "good" /\ ~MustLock(Current(t))
  \/ loop[t] = "locking" /\ lock[request[Current(t)].on] = "free"

(* What list_instances finds: the declared directories, and the sentinels.  *)
Rows == {<<dirOf[i], dirOf[i] \in paired>> : i \in {j \in Instances : dirOf[j] # NoDir}}

(* Mutant: the error of the write is dropped. *)
MarkPairedUnchecked(r, written) ==
  LET dir == dirOf[request[r].on] IN
  /\ paired' \in IF written THEN {paired \cup {dir}} ELSE {paired, paired \cup {dir}}
  /\ result' = [result EXCEPT ![r] = {<<dir, TRUE>>}]

(* mark_paired: the sentinel is written, or the error is the reply.  A write *)
(* that fails may have created the file, which is all that is looked at.     *)
MarkPaired(r, written) ==
  LET dir == dirOf[request[r].on] IN
  /\ paired' \in IF written THEN {paired \cup {dir}} ELSE {paired, paired \cup {dir}}
  /\ result' = [result EXCEPT ![r] = IF written THEN {<<dir, TRUE>>} ELSE {}]

(* The handler runs to its end, whatever waits behind it. *)
Handle(t) ==
  LET r == Current(t)
      marks == request[r].verb = "mark_paired" /\ dirOf[request[r].on] # NoDir IN
  /\ Ready(t)
  /\ \/ marks /\ MarkPaired(r, TRUE) /\ UNCHANGED faults
     \/ marks /\ MarkPaired(r, FALSE) /\ Fault
     \/ /\ ~marks
        /\ result' = [result EXCEPT ![r] = IF request[r].verb = "list_instances"
                                             THEN Rows ELSE {}]
        /\ UNCHANGED <<paired, faults>>
  /\ Outcome(r, "handled")
  /\ loop' = [loop EXCEPT ![t] = "publishing"]
  /\ UNCHANGED <<startVars, arrived, handled, request, sent, dirOf, lock>>

(* A panic takes the task of its topic with it. *)
HandlerPanics(t) ==
  /\ Ready(t) /\ Fault
  /\ loop' = [loop EXCEPT ![t] = "ended"]
  /\ UNCHANGED <<startVars, requestVars, dirOf, lock, paired>>

Publish(t) ==
  /\ loop[t] = "publishing"
  /\ sent' = [sent EXCEPT ![t] = Append(@, Current(t))]
  /\ Outcome(Current(t), "answered")
  /\ handled' = [handled EXCEPT ![t] = @ + 1]
  /\ loop' = [loop EXCEPT ![t] = "up"]
  /\ UNCHANGED <<startVars, arrived, request, result, dirOf, lock, paired, faults>>

(* Mutant: a failed publish is tried again. *)
PublishFailsRetried(t) ==
  /\ loop[t] = "publishing" /\ Fault
  /\ \E left \in BOOLEAN :
       sent' = IF left THEN [sent EXCEPT ![t] = Append(@, Current(t))] ELSE sent
  /\ UNCHANGED <<startVars, loop, arrived, handled, request, outcome, result, dirOf, lock, paired>>

(* The error is logged; the reply may have left all the same. *)
PublishFails(t) ==
  /\ loop[t] = "publishing" /\ Fault
  /\ \E left \in BOOLEAN :
       /\ sent' = IF left THEN [sent EXCEPT ![t] = Append(@, Current(t))] ELSE sent
       /\ Outcome(Current(t), IF left THEN "answered" ELSE "unanswered")
  /\ handled' = [handled EXCEPT ![t] = @ + 1]
  /\ loop' = [loop EXCEPT ![t] = "up"]
  /\ UNCHANGED <<startVars, arrived, request, result, dirOf, lock, paired>>

(* The broker ends the stream. *)
StreamEnds(t) ==
  /\ loop[t] = "up" /\ ~Waiting(t) /\ Fault
  /\ loop' = [loop EXCEPT ![t] = "ended"]
  /\ UNCHANGED <<startVars, requestVars, dirOf, lock, paired>>

Serve(t) == Skip(t) \/ LookUp(t) \/ Handle(t) \/ Publish(t)

Next ==
  \/ Startup
  \/ \E r \in Requests : Send(r)
  \/ \E i \in Instances : ToolStart(i) \/ ToolEnd(i) \/ Reload(i)
  \/ \E t \in Topics : \/ Subscribe(t) \/ SubscribeFails(t) \/ Serve(t)
                       \/ HandlerPanics(t) \/ PublishFails(t) \/ StreamEnds(t)

(* The runtime polls every task that can go on, and the mutex serves those  *)
(* who wait for it in turn: an admin request is not overtaken by tool calls *)
(* for ever.  Nothing makes a tool call end.                                *)
Fairness ==
  /\ WF_vars(Startup)
  /\ \A t \in Topics : WF_vars(Subscribe(t)) /\ SF_vars(Serve(t))

Spec == Init /\ [][Next]_vars
FairSpec == Spec /\ Fairness

------------------------------------------------------------------------------
(* Properties *)

TypeOK ==
  /\ env \in Environments
  /\ phase \in {"start", "limits", "broker", "serving"}
  /\ limits \in Limits \cup {NoLimits}
  /\ bridge \in BOOLEAN
  /\ loop \in [Topics -> {"off", "starting", "up", "locking", "publishing", "ended"}]
  /\ arrived \in [Topics -> Seq(Requests)] /\ sent \in [Topics -> Seq(Requests)]
  /\ handled \in [Topics -> Nat]
  /\ \A t \in Topics :
       /\ handled[t] \in 0..Len(arrived[t])
       /\ loop[t] \in {"locking", "publishing"} => handled[t] < Len(arrived[t])
  /\ request \in [Requests -> Payloads \cup {Unsent}]
  /\ outcome \in [Requests -> {"unsent", "lost", "queued", "skipped", "handled",
                               "answered", "unanswered"}]
  /\ result \in [Requests -> SUBSET (Dirs \X BOOLEAN)]
  /\ dirOf \in [Instances -> Dirs \cup {NoDir}]
  /\ lock \in [Instances -> {"free", "tool"}]
  /\ paired \subseteq Dirs
  /\ faults \in 0..MaxFaults

(* Whatever the environment says, the limits taken into force lie in the    *)
(* documented ranges and are the nearest to what was written; they are read *)
(* once.                                                                    *)
LimitsInRange ==
  [][ limits' # limits =>
        /\ limits = NoLimits
        /\ Nearest(limits'.max_profiles, env.max_profiles, 1, 64)
        /\ Nearest(limits'.idle_secs, env.idle_secs, 0, 86400) ]_vars

(* With the bridge of the daemon the subscribers are always spawned: the    *)
(* bridge is wired before it is looked for.                                 *)
BridgeServes ==
  phase = "serving" /\ env.broker_kind = "stdio_bridge" => \A t \in Topics : loop[t] # "off"

(* The replies of a topic are those of its answered requests, one each, in  *)
(* the order the requests came in, whatever failed in between.              *)
RepliesInOrder ==
  \A t \in Topics :
    /\ \A k \in 1..Len(arrived[t]) :
         outcome[arrived[t][k]] = "answered" <=>
           \E m \in 1..Len(sent[t]) : sent[t][m] = arrived[t][k]
    /\ \A m \in 1..Len(sent[t]) : \E k \in 1..Len(arrived[t]) : sent[t][m] = arrived[t][k]
    /\ \A m, n \in 1..Len(sent[t]) :
         m < n => \E j, k \in 1..Len(arrived[t]) :
                    j < k /\ sent[t][m] = arrived[t][j] /\ sent[t][n] = arrived[t][k]

ShowsPaired(rows, d) == <<d, TRUE>> \in rows
ShowsUnpaired(rows, d) == <<d, FALSE>> \in rows

(* A directory whose pairing was confirmed to an operator is in no list     *)
(* asked for later as unpaired, whatever fails and however its instance is  *)
(* dropped, moved and declared again (admin.rs 41-55, 88-112).              *)
PairingShown ==
  \A j, k \in 1..Len(arrived[AdminTopic]), d \in Dirs :
    LET mark == arrived[AdminTopic][j]
        list == arrived[AdminTopic][k] IN
    /\ j < k /\ request[mark].verb = "mark_paired" /\ ShowsPaired(result[mark], d)
    /\ request[list].verb = "list_instances"
    => ~ShowsUnpaired(result[list], d)

Settled(r) == outcome[r] \in {"skipped", "answered", "unanswered"}
Alive(t) == loop[t] # "ended"

(* A tool call that never ends, with an admin request stuck behind it, does *)
(* not keep the other topics from being served.                             *)
TopicsIndependent ==
  \A r \in Requests, t \in Topics \ {AdminTopic} :
    outcome[r] = "queued" /\ request[r].topic = t ~> Settled(r) \/ ~Alive(t)

(* Admin requests, those that wait for no mutex included, are answered if   *)
(* no tool call holds a session for ever.                                   *)
AdminServed ==
  (\A i \in Instances : []<>(lock[i] # "tool")) =>
    \A r \in Requests :
      outcome[r] = "queued" /\ request[r].topic = AdminTopic
        ~> Settled(r) \/ ~Alive(AdminTopic)
==============================================================================
