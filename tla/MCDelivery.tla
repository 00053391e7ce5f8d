----------------------------- MODULE MCDelivery -----------------------------
(***************************************************************************)
(* Instances of Delivery for TLC: two users share browsers, two senders.   *)
(***************************************************************************)
EXTENDS Delivery, TLC

Symmetries == Permutations(Users) \cup Permutations(Endpoints) \cup Permutations(Senders)
=============================================================================
