------------------------- MODULE RateLimitParameters -------------------------
(***************************************************************************)
(* The sizes of the rate limiter, shared by RateLimit and by Server.       *)
(***************************************************************************)
EXTENDS Naturals

CONSTANTS
  IPs,
  Limit,     \* rateLimit: 10 in the code
  Window,    \* rateWindow: 5 minutes in the code
  MaxCount,  \* bound on the count of a bucket
  MaxTime,   \* bound on the clock
  None

Buckets == [count : Nat, resetAt : Nat]

ASSUME RateLimitAssumption ==
  /\ Limit \in Nat \ {0} /\ Window \in Nat
  /\ MaxCount \in Nat /\ MaxTime \in Nat
  /\ None \notin Buckets
=============================================================================
