----------------------------- MODULE MCSessions -----------------------------
(***************************************************************************)
(* Instances of Sessions for TLC.                                          *)
(***************************************************************************)
EXTENDS Sessions, TLC

Symmetries == Permutations(Requests) \cup Permutations(Tokens) \cup Permutations(Notes)
=============================================================================
