--------------------------- MODULE MCPluginProcess ---------------------------
(* Model-checking instance of PluginProcess.  A value of a knob is tried    *)
(* with no broker, on both sides of every boundary: what is read does not   *)
(* depend on the broker, and what is served does not depend on the knobs.   *)
EXTENDS PluginProcess

Number(n) == [form |-> "number", n |-> n]
Unset == [form |-> "unset", n |-> 0]
Text == [form |-> "text", n |-> 0]

Daemon == [max_profiles |-> Unset, idle_secs |-> Unset, multi_profile |-> "unset",
           legacy_per_agent |-> "unset", broker_kind |-> "stdio_bridge", broker_url |-> FALSE]
Nats == [Daemon EXCEPT !.broker_kind = "nats", !.broker_url = TRUE]
NoBroker == [Nats EXCEPT !.broker_url = FALSE]

OneKnob ==
  {Daemon, Nats, NoBroker}
  \cup {[NoBroker EXCEPT !.max_profiles = v] :
     v \in {Text, Number(-1), Number(0), Number(1), Number(64), Number(65), Number(WordLimit)}}
  \cup {[NoBroker EXCEPT !.idle_secs = v] :
     v \in {Text, Number(0), Number(86400), Number(86401), Number(WordLimit)}}
  \cup {[NoBroker EXCEPT !.multi_profile = v] : v \in {"off", "text"}}
  \cup {[NoBroker EXCEPT !.legacy_per_agent = v] : v \in {"off", "text"}}
==============================================================================
