---------------------------- MODULE ProfileLimits ----------------------------
(***************************************************************************)
(* The limits of the profile cache, read once from the environment         *)
(* (profile_limits.rs).  A variable is unset, a number, or other text; a   *)
(* number a machine word cannot hold does not parse.                       *)
(***************************************************************************)
EXTENDS Integers

CONSTANT WordLimit    \* usize::MAX + 1, u64::MAX + 1

ASSUME WordAssumption == WordLimit \in Nat /\ WordLimit > 86400

DefaultMaxProfiles == 10
MinMaxProfiles == 1
MaxMaxProfiles == 64
DefaultIdleSecs == 900
MinIdleSecs == 0
MaxIdleSecs == 86400

Numbers == [form : {"unset", "text"}, n : {0}] \cup [form : {"number"}, n : Int]
Parses(raw) == raw.form = "number" /\ raw.n \in 0..(WordLimit - 1)

(* Mutant: a value above the maximum is kept. *)
ReadNumberUncapped(raw, default, lo, hi) ==
  IF ~Parses(raw) THEN default ELSE IF raw.n < lo THEN lo ELSE raw.n

ReadNumber(raw, default, lo, hi) ==
  IF ~Parses(raw) THEN default
  ELSE IF raw.n < lo THEN lo
  ELSE IF raw.n > hi THEN hi
  ELSE raw.n

ReadMaxProfiles(raw) ==
  ReadNumber(raw, DefaultMaxProfiles, MinMaxProfiles, MaxMaxProfiles)
ReadIdleSecs(raw) == ReadNumber(raw, DefaultIdleSecs, MinIdleSecs, MaxIdleSecs)

(* "1", "true", "yes", "on" and their opposites; anything else is true. *)
Flags == {"unset", "on", "off", "text"}
ReadFlag(raw) == raw # "off"

ReadProfileLimits(env) ==
  [max_profiles |-> ReadMaxProfiles(env.max_profiles),
   idle_secs |-> ReadIdleSecs(env.idle_secs),
   multi_profile_enabled |-> ReadFlag(env.multi_profile),
   legacy_per_agent_enabled |-> ReadFlag(env.legacy_per_agent)]

Limits == [max_profiles : Nat, idle_secs : Nat,
           multi_profile_enabled : BOOLEAN, legacy_per_agent_enabled : BOOLEAN]

(* The reference: the value of the range nearest to what the operator wrote. *)
Distance(x, y) == IF x < y THEN y - x ELSE x - y
Nearest(v, raw, lo, hi) ==
  v \in lo..hi /\ (Parses(raw) => \A w \in lo..hi : Distance(v, raw.n) <= Distance(w, raw.n))
==============================================================================
