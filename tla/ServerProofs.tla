---------------------------- MODULE ServerProofs ----------------------------
(***************************************************************************)
(* What VapidKeys guarantees for any number of starts and pairs; and that  *)
(* the composition keeps what its parts promise: each step of the process  *)
(* is a step of the keys and a step of the rate limiter, or leaves one of  *)
(* them alone.                                                             *)
(***************************************************************************)
EXTENDS Server, TLAPS

RL == INSTANCE RateLimitProofs

-----------------------------------------------------------------------------
(* The keys                                                                *)

\* The initial state has its types.
LEMMA TypeInit == Init => TypeOK
  BY VapidAssumption DEF VapidAssumption, Init, TypeOK, Keys, Pair, NoKeys, Unset

\* A process that serves has a public key.
Serving == pc = "up" => cfg.pub # Unset

\* Where a pair is being saved, it is the last one made.
Saving == pc \in {"savePublic", "savePrivate"} => made # Unset

TypeInv == TypeOK /\ Serving /\ Saving

\* Every step keeps types and keys.
LEMMA TypeStep == TypeInv /\ [Next]_vars => TypeInv'
<1> SUFFICES ASSUME TypeInv, [Next]_vars PROVE TypeInv'
  OBVIOUS
<1> USE DEF TypeInv, TypeOK, Serving, Saving
<1>0. /\ NoKeys \in Pair /\ Unset \in Keys
      /\ \A k, j \in Keys : [pub |-> k, priv |-> j] \in Pair
      /\ \A p \in Pair, k \in Keys :
           /\ p.pub \in Keys /\ p.priv \in Keys
           /\ [p EXCEPT !.pub = k] \in Pair /\ [p EXCEPT !.priv = k] \in Pair
  <2>1. Unset \in Keys
    BY VapidAssumption DEF VapidAssumption, Keys, Unset
  <2> QED
    BY <2>1 DEF NoKeys, Pair
<1>1. CASE Start
  BY <1>0, <1>1 DEF Start
<1>2. CASE Load
  BY <1>0, <1>2 DEF Load
<1>3. CASE Generate
  <2>1. made' \in Keys /\ made' # Unset
    <3>1. made \in Keys /\ made < MaxPairs /\ made' = made + 1
      BY <1>3 DEF Generate
    <3> QED
      BY <3>1, VapidAssumption DEF VapidAssumption, Keys, Unset
  <2> QED
    BY <1>3, <2>1 DEF Generate
<1>4. CASE SavePublic
  BY <1>0, <1>4 DEF SavePublic
<1>5. CASE SavePrivate
  <2>1. made \in Keys /\ made # Unset
    BY <1>5 DEF SavePrivate
  <2>2. config' \in Pair /\ cfg' \in Pair
    BY <1>0, <1>5, <2>1 DEF SavePrivate
  <2>3. pc' = "up" => cfg'.pub # Unset
    BY <1>5, <2>1 DEF SavePrivate
  <2> QED
    BY <1>5, <2>1, <2>2, <2>3 DEF SavePrivate
<1>6. CASE Subscribe \/ CopyToEnv
  BY <1>0, <1>6 DEF Subscribe, CopyToEnv
<1>7. CASE Crash
  BY <1>0, <1>7 DEF Crash
<1>8. CASE UNCHANGED vars
  BY <1>8 DEF vars
<1> QED
  BY <1>1, <1>2, <1>3, <1>4, <1>5, <1>6, <1>7, <1>8 DEF Next

\* Keys and the config table keep their types (TypeOK).
THEOREM VapidTypes == Spec => []TypeOK
<1>1. Init => TypeInv
  BY TypeInit DEF Init, TypeInv, Serving, Saving
<1>2. Spec => []TypeInv
  BY <1>1, TypeStep, PTL DEF Spec
<1> QED
  BY <1>2, PTL DEF TypeInv

-----------------------------------------------------------------------------
\* Once the private half is saved the pair in the table is complete and never
\* changes; only then is a pair used, subscribed under or copied.
Settled ==
  /\ config.priv # Unset => config.pub = config.priv
  /\ config.priv # Unset => pc \notin {"generate", "savePublic", "savePrivate"}
  /\ pc = "savePrivate" => config.pub = made
  /\ pc = "up" => cfg = config /\ config.priv # Unset
  /\ env # Unset => env = config.priv
  /\ subs # {} => config.priv # Unset
  /\ subs \subseteq {config.pub}

\* It holds initially.
LEMMA SettledInit == Init => Settled
  BY DEF Init, Settled, NoKeys

\* If the table can be read, a pair that was used once is found again.
LEMMA SettledStep ==
  ASSUME "GetConfig" \notin Faults, TypeInv, Settled, [Next]_vars
  PROVE  Settled'
<1> USE DEF TypeInv, TypeOK, Serving, Saving, Settled, Keys, Pair, Unset
<1>1. CASE Start
  BY <1>1 DEF Start
<1>2. CASE Load
  BY <1>2 DEF Load, MayFail
<1>3. CASE Generate
  BY <1>3 DEF Generate
<1>4. CASE SavePublic
  BY <1>4 DEF SavePublic
<1>5. CASE SavePrivate
  BY <1>5 DEF SavePrivate
<1>6. CASE Subscribe \/ CopyToEnv
  BY <1>6 DEF Subscribe, CopyToEnv
<1>7. CASE Crash \/ UNCHANGED vars
  BY <1>7 DEF Crash, vars
<1> QED
  BY <1>1, <1>2, <1>3, <1>4, <1>5, <1>6, <1>7 DEF Next

\* However starts are killed and saves fail, a browser that subscribed once can
\* be reached by every later process, provided reads of the config table do not
\* fail (BrowsersReachable).
THEOREM KeysSurvive ==
  ASSUME "GetConfig" \notin Faults
  PROVE  Spec => []BrowsersReachable
<1>1. TypeInv /\ Settled /\ [Next]_vars => TypeInv' /\ Settled'
  BY TypeStep, SettledStep
<1>2. Init => TypeInv /\ Settled
  BY TypeInit, SettledInit DEF Init, TypeInv, Serving, Saving
<1>3. TypeInv /\ Settled => BrowsersReachable
  BY DEF TypeInv, Settled, Serving, BrowsersReachable
<1> QED
  BY <1>1, <1>2, <1>3, PTL DEF Spec

-----------------------------------------------------------------------------
(* The process                                                             *)

\* Whatever the process does is what VapidKeys does, or nothing to the keys: the
\* limiter hides no key from it.
THEOREM ServerKeepsKeys == ServerSpec => Spec
<1>1. ServerInit => Init
  BY DEF ServerInit
<1>2. [ServerNext]_<<vars, limiter>> => [Next]_vars
  BY DEF ServerNext, Startup, Next, vars
<1> QED BY <1>1, <1>2, PTL DEF ServerSpec, Spec

\* Whatever the process does is what RateLimit does, or nothing to the buckets: a
\* process that dies is its Restart, wherever in initVAPID it dies.
THEOREM ServerKeepsLimiter == ServerSpec => RL!Spec
<1>1. ServerInit => RL!Init
  BY DEF ServerInit, Limiter!Init, RL!Init
<1>2. [ServerNext]_<<vars, limiter>> => [RL!Next]_(RL!vars)
  <2> SUFFICES ASSUME [ServerNext]_<<vars, limiter>> PROVE [RL!Next]_(RL!vars)
    OBVIOUS
  <2>1. CASE UNCHANGED limiter
    BY <2>1 DEF limiter, RL!vars
  <2>2. CASE Limiter!Purge \/ Limiter!Tick \/ Limiter!Restart
    BY <2>2 DEF Limiter!Purge, Limiter!Tick, Limiter!Restart, RL!Next, RL!Purge, RL!Tick,
                RL!Restart, Limiter!Over, RL!Over
  <2>3. ASSUME NEW ip \in IPs, Limiter!Request(ip) PROVE RL!Next
    BY <2>3 DEF Limiter!Request, RL!Next, RL!Request, Limiter!Open, RL!Open, Limiter!Pass,
                RL!Pass, Limiter!Refuse, RL!Refuse, Limiter!Over, RL!Over, Limiter!Bucket,
                RL!Bucket, Limiter!LetThrough, RL!LetThrough
  <2> QED BY <2>1, <2>2, <2>3 DEF ServerNext, Serve, limiter
<1> QED BY <1>1, <1>2, PTL DEF ServerSpec, RL!Spec

LEMMA LimiterAssumed == RL!RateLimitAssumption
  BY RateLimitAssumption DEF RateLimitAssumption, RL!RateLimitAssumption, Buckets, RL!Buckets

\* run keeps the types of both parts from start to end.
THEOREM ServerTypes == ServerSpec => []ServerTypeOK
<1>1. ServerSpec => []TypeOK /\ []RL!TypeOK
  BY ServerKeepsKeys, ServerKeepsLimiter, VapidTypes, RL!LimiterTypes, LimiterAssumed, PTL
<1>2. RL!TypeOK => Limiter!TypeOK
  BY DEF RL!TypeOK, Limiter!TypeOK, RL!Buckets, Limiter!Buckets
<1> QED BY <1>1, <1>2, PTL DEF ServerTypeOK

\* rateLimitMiddleware bounds the bursts of every address in a process that may
\* end and start again at any time.
THEOREM ServerBounded == ServerSpec => []BurstBound
<1>1. RL!BurstBound => BurstBound
  BY DEF RL!BurstBound, BurstBound, Limiter!BurstBound
<1> QED BY <1>1, ServerKeepsLimiter, RL!BurstsAreBounded, LimiterAssumed, PTL

\* A process that has been up only for a while refuses no one for what an earlier
\* one let through.
THEOREM ServerRefuses == ServerSpec => RefusedForCause
<1>1. RL!RefusedForCause => RefusedForCause
  BY PTL DEF RL!RefusedForCause, RefusedForCause, Limiter!RefusedForCause, RL!Refused,
             Limiter!Refused, RL!vars, Limiter!vars
<1> QED BY <1>1, ServerKeepsLimiter, RL!RefusalsHaveCause, LimiterAssumed, PTL

\* As long as reads of the config table do not fail, the keys that run serves are
\* those every browser subscribed under.
THEOREM ServerReachable ==
  ASSUME "GetConfig" \notin Faults
  PROVE  ServerSpec => []BrowsersReachable
<1>1. Spec => []BrowsersReachable
  BY KeysSurvive
<1> QED BY <1>1, ServerKeepsKeys, PTL
=============================================================================
