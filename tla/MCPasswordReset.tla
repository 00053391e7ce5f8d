--------------------------- MODULE MCPasswordReset ---------------------------
(***************************************************************************)
(* PasswordReset on a small instance.                                      *)
(***************************************************************************)
EXTENDS PasswordReset, TLC

Symmetries == Permutations(Requests) \cup Permutations(Emails) \cup Permutations(Links)
=============================================================================
