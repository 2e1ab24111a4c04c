------------------------ MODULE MCProfileDecoration ------------------------
(* Model-checking instance of ProfileDecoration: one agent's directory and  *)
(* calls under its name, under other spellings of it and under "default".   *)
EXTENDS ProfileDecoration
============================================================================
