---------------------------- MODULE MCProfileCache ----------------------------
(* ProfileCache with symmetric handlers, keys and plugins.                 *)
EXTENDS ProfileCache, TLC

Symmetry == Permutations(Calls) \cup Permutations(Keys) \cup Permutations(Serials)
==============================================================================
