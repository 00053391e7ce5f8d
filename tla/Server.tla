------------------------------- MODULE Server -------------------------------
(***************************************************************************)
(* The process from start to end: run brings up the keys before it serves, *)
(* and what it serves goes through the rate limiter. The keys live in the  *)
(* database, the buckets in the memory of the process, on a clock that     *)
(* does not stop between two processes.                                    *)
(***************************************************************************)
EXTENDS VapidKeys, RateLimitParameters

VARIABLES now, rl, passed, began

limiter == <<now, rl, passed, began>>
Limiter == INSTANCE RateLimit

ServerInit == Init /\ Limiter!Init

\* initVAPID, before NewServer and Start.
Startup == Start \/ Load \/ Generate \/ SavePublic \/ SavePrivate

\* Served while the process is up, with the housekeeping behind it.
Serve == (\E ip \in IPs : Limiter!Request(ip)) \/ Limiter!Purge

ServerNext ==
  \/ (Startup \/ Subscribe \/ CopyToEnv) /\ UNCHANGED limiter
  \/ pc = "up" /\ Serve /\ UNCHANGED vars
  \/ Limiter!Tick /\ UNCHANGED vars
  \/ Crash /\ Limiter!Restart

ServerSpec == ServerInit /\ [][ServerNext]_<<vars, limiter>>

-----------------------------------------------------------------------------
\* The types of both parts.
ServerTypeOK == TypeOK /\ Limiter!TypeOK

\* RateLimit's bound on bursts, whatever becomes of the process.
BurstBound == Limiter!BurstBound

\* RateLimit's reason for every refusal.
RefusedForCause == Limiter!RefusedForCause
=============================================================================
