---------------------------- MODULE MCRespCache ----------------------------
(***************************************************************************)
(* Model-checking instances of RespCache.                                  *)
(***************************************************************************)
EXTENDS RespCache, TLC

Symmetry ==
  Permutations(Requests) \cup Permutations(Keys) \cup Permutations(Entries)
=============================================================================
