------------------------------ MODULE VapidKeys ------------------------------
(***************************************************************************)
(* The VAPID key pair from start to start: initVAPID (env, then the config *)
(* table, then a new pair saved in two statements), killed or failing      *)
(* anywhere, and the browsers that subscribe under the public key served.  *)
(* A push reaches a browser only if it is signed with the private key of   *)
(* the pair the browser subscribed under.                                  *)
(***************************************************************************)
EXTENDS Naturals

CONSTANTS
  MaxPairs,  \* bound on the pairs generated
  Faults     \* db methods that may fail, and "Crash"

ASSUME VapidAssumption ==
  /\ MaxPairs \in Nat
  /\ Faults \subseteq {"GetConfig", "SetConfig", "Crash"}

Unset == 0                     \* the empty string
Keys  == 0 .. MaxPairs         \* pair n is public key n and private key n
Pair  == [pub : Keys, priv : Keys]

VARIABLES
  env,      \* VAPID_PUBLIC_KEY and VAPID_PRIVATE_KEY of the next start
  config,   \* table config: what is saved of a pair
  cfg,      \* the keys this process uses
  made,     \* pairs generated so far
  pc,
  subs      \* the public keys browsers have subscribed under

vars == <<env, config, cfg, made, pc, subs>>

MayFail(call) == call \in Faults
NoKeys == [pub |-> Unset, priv |-> Unset]

Init ==
  /\ env = Unset /\ made = 0 /\ subs = {}
  /\ config = NoKeys /\ cfg = NoKeys
  /\ pc = "off"

-----------------------------------------------------------------------------
\* config.Load, then step 1 of initVAPID: a pair from the environment wins.
Start ==
  /\ pc = "off"
  /\ cfg' = [pub |-> env, priv |-> env]
  /\ pc' = IF env # Unset THEN "up" ELSE "load"
  /\ UNCHANGED <<env, config, made, subs>>

\* Mutant: one key is enough.
LoadEither ==
  /\ pc = "load"
  /\ cfg' = config
  /\ pc' = IF config.pub # Unset \/ config.priv # Unset THEN "up" ELSE "generate"
  /\ UNCHANGED <<env, config, made, subs>>

\* Step 2 wants both keys, and takes an error of GetConfig for an empty value.
Load ==
  /\ pc = "load"
  /\ \/ /\ config.pub # Unset /\ config.priv # Unset
        /\ cfg' = config
        /\ pc' = "up"
     \/ /\ config.pub = Unset \/ config.priv = Unset \/ MayFail("GetConfig")
        /\ pc' = "generate"
        /\ UNCHANGED cfg
  /\ UNCHANGED <<env, config, made, subs>>

\* Step 3: a new pair, the public key saved first, the process ended by errors.
Generate ==
  /\ pc = "generate" /\ made < MaxPairs
  /\ made' = made + 1
  /\ pc' = "savePublic"
  /\ UNCHANGED <<env, config, cfg, subs>>

SavePublic ==
  /\ pc = "savePublic"
  /\ \/ config' = [config EXCEPT !.pub = made] /\ pc' = "savePrivate"
     \/ MayFail("SetConfig") /\ pc' = "off" /\ UNCHANGED config
  /\ UNCHANGED <<env, cfg, made, subs>>

SavePrivate ==
  /\ pc = "savePrivate"
  /\ \/ /\ config' = [config EXCEPT !.priv = made]
        /\ cfg' = [pub |-> made, priv |-> made]
        /\ pc' = "up"
     \/ MayFail("SetConfig") /\ pc' = "off" /\ UNCHANGED <<config, cfg>>
  /\ UNCHANGED <<env, made, subs>>

\* Mutant: the dashboard is served before initVAPID returns.
SubscribeTooEarly ==
  /\ subs' = subs \cup {cfg.pub}
  /\ UNCHANGED <<env, config, cfg, made, pc>>

\* A browser subscribes under the key the dashboard serves.
Subscribe ==
  /\ pc = "up"
  /\ subs' = subs \cup {cfg.pub}
  /\ UNCHANGED <<env, config, cfg, made, pc>>

\* The operator copies the printed pair to .env, for the next start.
CopyToEnv ==
  /\ pc = "up" /\ env = Unset
  /\ env' = cfg.pub
  /\ UNCHANGED <<config, cfg, made, pc, subs>>

\* The process ends, at any point.
Crash ==
  /\ pc # "off" /\ (MayFail("Crash") \/ pc = "up")
  /\ pc' = "off"
  /\ cfg' = NoKeys
  /\ UNCHANGED <<env, config, made, subs>>

Next == Start \/ Load \/ Generate \/ SavePublic \/ SavePrivate \/ Subscribe
          \/ CopyToEnv \/ Crash

Spec == Init /\ [][Next]_vars

-----------------------------------------------------------------------------
\* Keys and the config table keep their shape.
TypeOK ==
  /\ env \in Keys /\ made \in Keys
  /\ config \in Pair /\ cfg \in Pair
  /\ pc \in {"off", "load", "generate", "savePublic", "savePrivate", "up"}
  /\ subs \subseteq Keys \ {Unset}

\* Every browser that ever subscribed can be pushed to by the process that
\* serves now, however many starts were killed between the two saves: the
\* process holds both halves of the pair they subscribed under.
BrowsersReachable ==
  pc = "up" => /\ cfg.pub # Unset /\ cfg.priv = cfg.pub
               /\ subs \subseteq {cfg.pub}
=============================================================================
