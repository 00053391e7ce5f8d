--------------------------- MODULE RateLimitProofs ---------------------------
(***************************************************************************)
(* Proofs about RateLimit. What a bucket stands for is a suffix of the     *)
(* requests let through: those of the window that is open, as many as were *)
(* counted up to the limit; every one before it lies in a window that was  *)
(* over when this one began.                                               *)
(***************************************************************************)
EXTENDS RateLimit, TLAPS

LEMMA Sizes == Limit \in Nat /\ Limit >= 1 /\ Window \in Nat /\ MaxTime \in Nat
  BY RateLimitAssumption DEF RateLimitAssumption

LEMMA Shapes ==
  /\ \A b \in Buckets : b # None /\ b.count \in Nat /\ b.resetAt \in Nat
  /\ \A c, t \in Nat : /\ Bucket(c, t) \in Buckets
                       /\ Bucket(c, t).count = c /\ Bucket(c, t).resetAt = t
  /\ \A b \in Buckets, c \in Nat : [b EXCEPT !.count = c] = Bucket(c, b.resetAt)
  BY RateLimitAssumption DEF RateLimitAssumption, Buckets, Bucket

LEMMA Fields ==
  ASSUME NEW c \in Nat, NEW t \in Nat
  PROVE  Bucket(c, t) # None /\ Bucket(c, t).count = c /\ Bucket(c, t).resetAt = t
  BY Shapes

-----------------------------------------------------------------------------
(* What one step does to one address.                                      *)

\* A bucket was opened after the clock was read.
Started(ip) == rl[ip] # None => rl[ip].resetAt >= Window /\ rl[ip].resetAt - Window <= now
Types == TypeOK /\ \A ip \in IPs : Started(ip)

\* One more request is let through, in the window that began at since.
Added(ip, at, since) ==
  /\ passed'[ip] = Append(passed[ip], at) /\ began'[ip] = Append(began[ip], since)
Same(ip) == passed'[ip] = passed[ip] /\ began'[ip] = began[ip]

Opens(ip, t) == /\ rl[ip] = None \/ Over(ip)
                /\ rl'[ip] = Bucket(1, t + Window) /\ Added(ip, t, t)
Counts(ip) == /\ rl[ip] # None /\ ~Over(ip) /\ now' = now /\ rl[ip].count + 1 <= Limit
              /\ rl'[ip] = Bucket(rl[ip].count + 1, rl[ip].resetAt)
              /\ Added(ip, now, rl[ip].resetAt - Window)
Refuses(ip) == /\ rl[ip] # None /\ ~Over(ip) /\ now' = now /\ rl[ip].count + 1 > Limit
               /\ rl'[ip] = Bucket(rl[ip].count + 1, rl[ip].resetAt)
               /\ Same(ip)
Keeps(ip) == rl'[ip] = rl[ip] /\ Same(ip)
Drops(ip) == Over(ip) /\ now' = now /\ rl'[ip] = None /\ Same(ip)
Forgets(ip) == rl'[ip] = None /\ passed'[ip] = <<>> /\ began'[ip] = <<>>

\* The clock goes on, and each step opens an address's bucket, counts in it, or
\* leaves it, drops it or forgets it.
LEMMA Steps ==
  ASSUME Types, [Next]_vars, NEW ip \in IPs
  PROVE  \E t \in 0 .. MaxTime :
           /\ now' = t /\ now <= t
           /\ \/ Opens(ip, t) \/ Counts(ip) \/ Refuses(ip)
              \/ Keeps(ip) \/ Drops(ip) \/ Forgets(ip)
<1> DEFINE Some == \/ Opens(ip, now') \/ Counts(ip) \/ Refuses(ip)
                   \/ Keeps(ip) \/ Drops(ip) \/ Forgets(ip)
           Clock == now' \in 0 .. MaxTime /\ now <= now'
<1>0. now \in 0 .. MaxTime /\ rl \in [IPs -> Buckets \cup {None}]
      /\ passed \in [IPs -> Seq(Nat)] /\ began \in [IPs -> Seq(Nat)]
  BY DEF Types, TypeOK
<1>1. ASSUME NEW a \in IPs, Open(a) PROVE Clock /\ Some
  <2>1. Clock
    BY <1>0, <1>1 DEF Open
  <2>2. a = ip => Opens(ip, now')
    BY <1>0, <1>1 DEF Open, Opens, LetThrough, Added
  <2>3. a # ip => Keeps(ip)
    BY <1>0, <1>1 DEF Open, Keeps, Same, LetThrough
  <2> QED BY <2>1, <2>2, <2>3
<1>2. ASSUME NEW a \in IPs, Pass(a) PROVE Clock /\ Some
  <2>1. Clock
    BY <1>0, <1>2 DEF Pass
  <2>2. a = ip => Counts(ip)
    <3> HAVE a = ip
    <3>1. rl[ip] \in Buckets /\ rl[ip].count + 1 \in Nat
      BY <1>0, <1>2, Shapes DEF Pass
    <3>2. rl'[ip] = [rl[ip] EXCEPT !.count = rl[ip].count + 1]
      BY <1>0, <1>2 DEF Pass
    <3> QED BY <1>0, <1>2, <3>1, <3>2, Shapes DEF Pass, Counts, LetThrough, Added
  <2>3. a # ip => Keeps(ip)
    BY <1>0, <1>2 DEF Pass, Keeps, Same, LetThrough
  <2> QED BY <2>1, <2>2, <2>3
<1>3. ASSUME NEW a \in IPs, Refuse(a) PROVE Clock /\ Some
  <2>1. Clock
    BY <1>0, <1>3 DEF Refuse
  <2>2. a = ip => Refuses(ip)
    <3> HAVE a = ip
    <3>1. rl[ip] \in Buckets /\ rl[ip].count + 1 \in Nat
      BY <1>0, <1>3, Shapes DEF Refuse
    <3>2. rl'[ip] = [rl[ip] EXCEPT !.count = rl[ip].count + 1]
      BY <1>0, <1>3 DEF Refuse
    <3> QED BY <1>0, <1>3, <3>1, <3>2, Shapes DEF Refuse, Refuses, Same
  <2>3. a # ip => Keeps(ip)
    BY <1>0, <1>3 DEF Refuse, Keeps, Same
  <2> QED BY <2>1, <2>2, <2>3
<1>4. CASE Purge
  BY <1>0, <1>4 DEF Purge, Keeps, Drops, Same
<1>5. CASE Restart
  BY <1>0, <1>5 DEF Restart, Forgets
<1>6. CASE Tick
  BY <1>0, <1>6, Sizes DEF Tick, Keeps, Same
<1>7. CASE UNCHANGED vars
  BY <1>0, <1>7 DEF vars, Keeps, Same
<1>8. Clock /\ Some
  BY <1>1, <1>2, <1>3, <1>4, <1>5, <1>6, <1>7 DEF Next, Request
<1> HIDE DEF Some
<1>9. PICK t : t = now'
  OBVIOUS
<1> QED
  <2>1. t \in 0 .. MaxTime /\ now' = t /\ now <= t
    BY <1>8, <1>9
  <2>2. \/ Opens(ip, t) \/ Counts(ip) \/ Refuses(ip)
        \/ Keeps(ip) \/ Drops(ip) \/ Forgets(ip)
    BY <1>8, <1>9, Zenon DEF Some
  <2> QED BY <2>1, <2>2, Zenon

\* rl and passed stay functions on the addresses.
LEMMA Domains ==
  ASSUME TypeOK, [Next]_vars
  PROVE  rl' = [ip \in IPs |-> rl'[ip]] /\ passed' = [ip \in IPs |-> passed'[ip]]
         /\ began' = [ip \in IPs |-> began'[ip]]
  BY DEF TypeOK, Next, Request, vars, Open, Pass, Refuse, Purge, Restart, Tick, LetThrough

LEMMA TypeStep == Types /\ [Next]_vars => Types'
<1> SUFFICES ASSUME Types, [Next]_vars PROVE Types'
  OBVIOUS
<1>0. now \in 0 .. MaxTime /\ rl \in [IPs -> Buckets \cup {None}]
      /\ passed \in [IPs -> Seq(Nat)] /\ began \in [IPs -> Seq(Nat)]
  BY DEF Types, TypeOK
<1>1. ASSUME NEW ip \in IPs
      PROVE  /\ rl'[ip] \in Buckets \cup {None} /\ passed'[ip] \in Seq(Nat) /\ began'[ip] \in Seq(Nat)
             /\ Started(ip)'
  <2>0. PICK t \in 0 .. MaxTime :
           /\ now' = t /\ now <= t
           /\ \/ Opens(ip, t) \/ Counts(ip) \/ Refuses(ip)
              \/ Keeps(ip) \/ Drops(ip) \/ Forgets(ip)
    BY Steps
  <2>1. CASE Opens(ip, t)
    <3>1. t \in Nat /\ t + Window \in Nat
      BY Sizes
    <3>2. rl'[ip] \in Buckets /\ rl'[ip].resetAt = t + Window
      BY <2>1, <3>1, Shapes DEF Opens
    <3>3. passed'[ip] \in Seq(Nat) /\ began'[ip] \in Seq(Nat)
      BY <1>0, <2>1, <3>1, Shapes DEF Opens, Added
    <3> QED BY <2>0, <3>1, <3>2, <3>3, Sizes DEF Started
  <2>2. CASE Counts(ip)
    <3>1. /\ rl[ip] \in Buckets /\ rl[ip].count + 1 \in Nat
          /\ rl[ip].resetAt \in Nat /\ rl[ip].resetAt - Window \in Nat
      BY <1>0, <2>2, Shapes, Sizes DEF Counts, Types, Started
    <3> QED BY <1>0, <2>0, <2>2, <3>1, Shapes DEF Counts, Added, Started, Types
  <2>3. CASE Refuses(ip)
    <3>1. /\ rl[ip] \in Buckets /\ rl[ip].count + 1 \in Nat
          /\ rl[ip].resetAt \in Nat
      BY <1>0, <2>3, Shapes DEF Refuses
    <3>2. rl'[ip] \in Buckets /\ rl'[ip].resetAt = rl[ip].resetAt
      BY <2>3, <3>1, Shapes DEF Refuses
    <3>3. rl[ip].resetAt >= Window /\ rl[ip].resetAt - Window <= t
      BY <1>0, <2>0, <2>3, <3>1, Sizes DEF Refuses, Started, Types
    <3>4. Started(ip)'
      BY <2>0, <3>2, <3>3, Zenon DEF Started
    <3> QED BY <1>0, <2>3, <3>2, <3>4 DEF Refuses, Same
  <2>4. CASE Keeps(ip)
    <3>1. rl[ip] # None => rl[ip].resetAt \in Nat
      BY <1>0, Shapes
    <3>2. rl[ip] # None => rl[ip].resetAt >= Window /\ rl[ip].resetAt - Window <= t
      BY <1>0, <2>0, <3>1, Sizes DEF Started, Types
    <3>3. Started(ip)'
      BY <2>0, <2>4, <3>2, Zenon DEF Keeps, Same, Started
    <3> QED BY <1>0, <2>4, <3>3 DEF Keeps, Same
  <2>5. CASE Drops(ip) \/ Forgets(ip)
    <3>1. Started(ip)'
      BY <2>5, Zenon DEF Drops, Forgets, Started
    <3>2. passed[ip] \in Seq(Nat) /\ began[ip] \in Seq(Nat) /\ <<>> \in Seq(Nat)
      BY <1>0
    <3>3. rl'[ip] \in Buckets \cup {None} /\ passed'[ip] \in Seq(Nat) /\ began'[ip] \in Seq(Nat)
      BY <2>5, <3>2, Zenon DEF Drops, Forgets, Same
    <3> QED BY <3>1, <3>3
  <2> QED BY <2>0, <2>1, <2>2, <2>3, <2>4, <2>5
<1>2. now' \in 0 .. MaxTime
  <2>1. ASSUME IPs = {} PROVE now' \in 0 .. MaxTime
    BY <1>0, <2>1, Sizes DEF Next, vars, Purge, Restart, Tick
  <2> QED BY <2>1, Steps
<1>3. rl' \in [IPs -> Buckets \cup {None}] /\ passed' \in [IPs -> Seq(Nat)] /\ began' \in [IPs -> Seq(Nat)]
  BY <1>1, Domains DEF Types
<1> QED BY <1>1, <1>2, <1>3 DEF Types, TypeOK

LEMMA TypeInit == Init => Types
  BY Sizes DEF Init, Types, TypeOK, Started

\* The clock, the map and the history keep their shape (rl under rlMu).
THEOREM LimiterTypes == Spec => []TypeOK
<1>1. Types => TypeOK
  BY DEF Types
<1> QED BY TypeInit, TypeStep, <1>1, PTL DEF Spec

-----------------------------------------------------------------------------
(* Windows. Of the requests of one address let through, s says when each    *)
(* was and w when its window began; a bucket has a count c and an end e.    *)

\* So many of the last requests are of the window of the bucket.
Held(c) == IF c < Limit THEN c ELSE Limit

\* A request was let through in its window; no window holds more than the limit,
\* and windows lie more than Window apart.
Orderly(s, w) ==
  /\ Len(s) = Len(w)
  /\ \A i \in 1 .. Len(w) : w[i] <= s[i] /\ s[i] <= w[i] + Window
  /\ \A i \in 1 .. Len(w) : i + Limit <= Len(w) => w[i + Limit] > w[i] + Window

\* The last ones are of the bucket's window, every other is of a window that was
\* over when this one began.
Suffix(w, c, e) ==
  /\ c >= 1 /\ Held(c) <= Len(w)
  /\ \A i \in 1 .. Len(w) :
       /\ i > Len(w) - Held(c) => w[i] + Window = e
       /\ i <= Len(w) - Held(c) => w[i] + 2 * Window < e

\* Without a bucket every window is over.
AllOver(w, t) == \A i \in 1 .. Len(w) : w[i] + Window < t

Fits(ip) ==
  /\ Orderly(passed[ip], began[ip])
  /\ IF rl[ip] = None THEN AllOver(began[ip], now)
                      ELSE Suffix(began[ip], rl[ip].count, rl[ip].resetAt)
WindowInv == Types /\ \A ip \in IPs : Fits(ip)

LEMMA OverIsOver ==
  ASSUME NEW w \in Seq(Nat), NEW c \in Nat, NEW e \in Nat, NEW t \in Nat, t > e,
         Suffix(w, c, e)
  PROVE  AllOver(w, t)
<1>1. Held(c) \in Nat /\ Len(w) \in Nat /\ \A i \in 1 .. Len(w) : w[i] \in Nat
  BY Sizes DEF Held
<1>2. ASSUME NEW i \in 1 .. Len(w) PROVE w[i] + Window < t
  <2>1. w[i] \in Nat /\ i \in Nat
    BY <1>1
  <2>2. CASE i > Len(w) - Held(c)
    <3>1. w[i] + Window = e
      BY <2>2 DEF Suffix
    <3> QED BY <3>1
  <2>3. CASE i <= Len(w) - Held(c)
    <3>1. w[i] + 2 * Window < e
      BY <2>3 DEF Suffix
    <3> QED BY <2>1, <3>1, Sizes
  <2> QED BY <1>1, <2>1, <2>2, <2>3
<1> QED BY <1>2 DEF AllOver

LEMMA Below ==
  ASSUME NEW n \in Nat, NEW i \in Nat, i >= 1, i + Limit <= n + 1, i + Limit # n + 1
  PROVE  i + Limit \in 1 .. n
  BY Sizes

LEMMA WindowOpened ==
  ASSUME NEW s \in Seq(Nat), NEW w \in Seq(Nat), NEW u \in Nat,
         Orderly(s, w), AllOver(w, u)
  PROVE  Orderly(Append(s, u), Append(w, u)) /\ Suffix(Append(w, u), 1, u + Window)
<1>1. /\ Len(s) \in Nat /\ Len(s) = Len(w)
      /\ \A i \in 1 .. Len(w) : s[i] \in Nat /\ w[i] \in Nat
  BY DEF Orderly
<1> DEFINE s1 == Append(s, u)
           w1 == Append(w, u)
<1>2. /\ Len(s1) = Len(w) + 1 /\ Len(w1) = Len(w) + 1
      /\ s1[Len(w) + 1] = u /\ w1[Len(w) + 1] = u
      /\ \A i \in 1 .. Len(w) : s1[i] = s[i] /\ w1[i] = w[i]
  BY <1>1
<1> HIDE DEF s1, w1
<1>3. \A i \in 1 .. Len(w1) : i \in 1 .. Len(w) \/ i = Len(w) + 1
  BY <1>1, <1>2
<1>4. Orderly(s1, w1)
  <2>1. ASSUME NEW i \in 1 .. Len(w1) PROVE w1[i] <= s1[i] /\ s1[i] <= w1[i] + Window
    <3>1. CASE i \in 1 .. Len(w)
      BY <1>2, <3>1 DEF Orderly
    <3>2. CASE i = Len(w) + 1
      BY <1>2, <3>2, Sizes
    <3> QED BY <1>3, <3>1, <3>2
  <2>2. ASSUME NEW i \in 1 .. Len(w1), i + Limit <= Len(w1)
        PROVE  w1[i + Limit] > w1[i] + Window
    <3>1. i \in 1 .. Len(w) /\ w1[i] = w[i] /\ w[i] \in Nat
      BY <1>1, <1>2, <2>2, Sizes
    <3>2. CASE i + Limit = Len(w) + 1
      <4>1. w1[i + Limit] = u /\ w[i] + Window < u
        BY <1>2, <3>1, <3>2 DEF AllOver
      <4> QED BY <3>1, <4>1, Sizes
    <3>3. CASE i + Limit # Len(w) + 1
      <4>1. i + Limit \in 1 .. Len(w)
        <5>1. Len(w) \in Nat /\ i \in Nat /\ i >= 1 /\ i + Limit <= Len(w) + 1
          BY <1>1, <1>2, <2>2, <3>1
        <5> QED BY <5>1, <3>3, Below
      <4>2. w[i + Limit] > w[i] + Window /\ w1[i + Limit] = w[i + Limit]
        BY <1>1, <1>2, <3>1, <4>1, Sizes DEF Orderly
      <4> QED BY <3>1, <4>2
    <3> QED BY <3>2, <3>3
  <2> QED BY <1>2, <2>1, <2>2 DEF Orderly
<1>5. Suffix(w1, 1, u + Window)
  <2>1. Held(1) = 1
    BY Sizes DEF Held
  <2>2. ASSUME NEW i \in 1 .. Len(w1)
        PROVE  /\ i > Len(w1) - 1 => w1[i] + Window = u + Window
               /\ i <= Len(w1) - 1 => w1[i] + 2 * Window < u + Window
    <3>1. CASE i \in 1 .. Len(w)
      <4>1. w1[i] = w[i] /\ w[i] \in Nat /\ w[i] + Window < u
        BY <1>1, <1>2, <3>1 DEF AllOver
      <4> QED BY <1>1, <1>2, <3>1, <4>1, Sizes
    <3>2. CASE i = Len(w) + 1
      BY <1>1, <1>2, <3>2, Sizes
    <3> QED BY <1>3, <3>1, <3>2
  <2> QED BY <1>1, <1>2, <2>1, <2>2 DEF Suffix
<1> QED BY <1>4, <1>5 DEF s1, w1

LEMMA WindowCounted ==
  ASSUME NEW s \in Seq(Nat), NEW w \in Seq(Nat), NEW c \in Nat, NEW e \in Nat, NEW t \in Nat,
         c + 1 <= Limit, t <= e, e >= Window, e - Window <= t,
         Orderly(s, w), Suffix(w, c, e)
  PROVE  Orderly(Append(s, t), Append(w, e - Window)) /\ Suffix(Append(w, e - Window), c + 1, e)
<1>1. /\ Len(s) \in Nat /\ Len(s) = Len(w) /\ e - Window \in Nat
      /\ \A i \in 1 .. Len(w) : s[i] \in Nat /\ w[i] \in Nat
  BY Sizes DEF Orderly
<1>2. Held(c) = c /\ Held(c + 1) = c + 1
  BY Sizes DEF Held
<1> DEFINE s1 == Append(s, t)
           w1 == Append(w, e - Window)
<1>3. /\ Len(s1) = Len(w) + 1 /\ Len(w1) = Len(w) + 1
      /\ s1[Len(w) + 1] = t /\ w1[Len(w) + 1] = e - Window
      /\ \A i \in 1 .. Len(w) : s1[i] = s[i] /\ w1[i] = w[i]
  BY <1>1
<1> HIDE DEF s1, w1
<1>4. \A i \in 1 .. Len(w) : i <= Len(w) - c => w[i] + 2 * Window < e
  BY <1>2 DEF Suffix
<1>5. \A i \in 1 .. Len(w) : i + Limit = Len(w) + 1 => w[i] + 2 * Window < e
  BY <1>1, <1>4, Sizes
<1>6. Orderly(s1, w1)
  <2>1. ASSUME NEW i \in 1 .. Len(w1) PROVE w1[i] <= s1[i] /\ s1[i] <= w1[i] + Window
    <3>1. CASE i \in 1 .. Len(w)
      BY <1>3, <3>1 DEF Orderly
    <3>2. CASE i = Len(w) + 1
      BY <1>1, <1>3, <3>2, Sizes
    <3> QED BY <1>1, <1>3, <3>1, <3>2
  <2>2. ASSUME NEW i \in 1 .. Len(w1), i + Limit <= Len(w1)
        PROVE  w1[i + Limit] > w1[i] + Window
    <3>1. i \in 1 .. Len(w) /\ w1[i] = w[i] /\ w[i] \in Nat
      BY <1>1, <1>3, <2>2, Sizes
    <3>2. CASE i + Limit = Len(w) + 1
      <4>1. w1[i + Limit] = e - Window /\ w[i] + 2 * Window < e
        BY <1>3, <1>5, <3>1, <3>2
      <4> QED BY <3>1, <4>1, Sizes
    <3>3. CASE i + Limit # Len(w) + 1
      <4>1. i + Limit \in 1 .. Len(w)
        <5>1. Len(w) \in Nat /\ i \in Nat /\ i >= 1 /\ i + Limit <= Len(w) + 1
          BY <1>1, <1>3, <2>2, <3>1
        <5> QED BY <5>1, <3>3, Below
      <4>2. w[i + Limit] > w[i] + Window /\ w1[i + Limit] = w[i + Limit]
        BY <1>1, <1>3, <3>1, <4>1, Sizes DEF Orderly
      <4> QED BY <3>1, <4>2
    <3> QED BY <3>2, <3>3
  <2> QED BY <1>3, <2>1, <2>2 DEF Orderly
<1>7. Suffix(w1, c + 1, e)
  <2>1. c + 1 >= 1 /\ c + 1 <= Len(w1)
    BY <1>1, <1>2, <1>3 DEF Suffix
  <2>2. ASSUME NEW i \in 1 .. Len(w1)
        PROVE  /\ i > Len(w1) - (c + 1) => w1[i] + Window = e
               /\ i <= Len(w1) - (c + 1) => w1[i] + 2 * Window < e
    <3>1. CASE i \in 1 .. Len(w)
      <4>1. /\ i > Len(w) - c => w[i] + Window = e
            /\ i <= Len(w) - c => w[i] + 2 * Window < e
        BY <1>2, <3>1 DEF Suffix
      <4>2. Len(w1) - (c + 1) = Len(w) - c
        BY <1>1, <1>3
      <4>3. w1[i] = w[i]
        BY <1>3, <3>1
      <4> QED BY <4>1, <4>2, <4>3, Zenon
    <3>2. CASE i = Len(w) + 1
      BY <1>1, <1>3, <3>2, Sizes
    <3> QED BY <1>1, <1>3, <3>1, <3>2
  <2> QED BY <1>2, <2>1, <2>2, Zenon DEF Suffix
<1> QED BY <1>6, <1>7 DEF s1, w1

LEMMA WindowRefused ==
  ASSUME NEW w \in Seq(Nat), NEW c \in Nat, NEW e \in Nat, c + 1 > Limit, Suffix(w, c, e)
  PROVE  Suffix(w, c + 1, e)
<1>1. Held(c + 1) = Held(c)
  BY Sizes DEF Held
<1> QED BY <1>1 DEF Suffix

LEMMA OverLater ==
  ASSUME NEW w \in Seq(Nat), NEW t \in Nat, NEW u \in Nat, t <= u, AllOver(w, t)
  PROVE  AllOver(w, u)
<1>1. Len(w) \in Nat /\ \A i \in 1 .. Len(w) : w[i] \in Nat
  OBVIOUS
<1> QED BY <1>1, Sizes DEF AllOver

\* What the windows hold is kept by every step.
LEMMA WindowStep == WindowInv /\ [Next]_vars => WindowInv'
<1> SUFFICES ASSUME WindowInv, [Next]_vars, NEW ip \in IPs
             PROVE  Fits(ip)'
  BY TypeStep DEF WindowInv
<1> DEFINE s == passed[ip]
           w == began[ip]
<1>1. /\ now \in Nat /\ rl[ip] \in Buckets \cup {None} /\ s \in Seq(Nat) /\ w \in Seq(Nat)
      /\ Fits(ip) /\ Orderly(s, w) /\ Started(ip) /\ Types
      /\ rl[ip] = None => AllOver(w, now)
      /\ rl[ip] # None => Suffix(w, rl[ip].count, rl[ip].resetAt)
  BY DEF WindowInv, Types, TypeOK, Fits
<1>2. PICK t \in 0 .. MaxTime :
        /\ now' = t /\ now <= t
        /\ \/ Opens(ip, t) \/ Counts(ip) \/ Refuses(ip)
           \/ Keeps(ip) \/ Drops(ip) \/ Forgets(ip)
  BY <1>1, Steps
<1>3. t \in Nat
  OBVIOUS
<1>4. rl[ip] # None => rl[ip].count \in Nat /\ rl[ip].resetAt \in Nat
  BY <1>1, Shapes
<1>5. ASSUME Over(ip), NEW u \in Nat, now <= u PROVE AllOver(w, u)
  <2>1. AllOver(w, now)
    BY <1>1, <1>4, <1>5, OverIsOver DEF Over
  <2> QED BY <1>1, <1>5, <2>1, OverLater
<1> HIDE DEF s, w
<1>6. CASE Opens(ip, t)
  <2>1. AllOver(w, t)
    BY <1>1, <1>2, <1>3, <1>5, <1>6, OverLater DEF Opens
  <2>2. Orderly(Append(s, t), Append(w, t)) /\ Suffix(Append(w, t), 1, t + Window)
    BY <1>1, <1>3, <2>1, WindowOpened
  <2>3. rl'[ip] # None /\ rl'[ip].count = 1 /\ rl'[ip].resetAt = t + Window
    <3>1. t + Window \in Nat
      BY <1>3, Sizes
    <3>2. Bucket(1, t + Window) # None /\ Bucket(1, t + Window).count = 1
          /\ Bucket(1, t + Window).resetAt = t + Window
      BY <3>1, Fields
    <3> QED BY <1>6, <3>2, Zenon DEF Opens
  <2> QED BY <1>6, <2>2, <2>3, Zenon DEF Opens, Added, Fits, s, w
<1>7. CASE Counts(ip)
  <2> DEFINE c == rl[ip].count
             e == rl[ip].resetAt
  <2>1. c \in Nat /\ e \in Nat /\ c + 1 <= Limit /\ now <= e /\ e >= Window /\ e - Window <= now
        /\ Suffix(w, c, e)
    BY <1>1, <1>4, <1>7, Sizes DEF Counts, Over, Started
  <2>2. rl'[ip] # None /\ rl'[ip].count = c + 1 /\ rl'[ip].resetAt = e
    <3>1. c + 1 \in Nat
      BY <2>1
    <3>2. rl'[ip] = Bucket(c + 1, e)
      BY <1>7 DEF Counts
    <3> HIDE DEF c, e
    <3>3. Bucket(c + 1, e) # None /\ Bucket(c + 1, e).count = c + 1 /\ Bucket(c + 1, e).resetAt = e
      BY <2>1, <3>1, Fields
    <3> QED BY <3>2, <3>3, Zenon
  <2> HIDE DEF c, e
  <2>3. /\ Orderly(Append(s, now), Append(w, e - Window))
        /\ Suffix(Append(w, e - Window), c + 1, e)
    BY <1>1, <2>1, WindowCounted
  <2>4. passed'[ip] = Append(s, now) /\ began'[ip] = Append(w, e - Window)
    BY <1>7, Zenon DEF Counts, Added, s, w, e
  <2> QED BY <2>2, <2>3, <2>4, Zenon DEF Fits
<1>8. CASE Refuses(ip)
  <2> DEFINE c == rl[ip].count
             e == rl[ip].resetAt
  <2>1. c \in Nat /\ e \in Nat /\ c + 1 > Limit /\ Suffix(w, c, e)
    BY <1>1, <1>4, <1>8 DEF Refuses
  <2>2. rl'[ip] # None /\ rl'[ip].count = c + 1 /\ rl'[ip].resetAt = e
    <3>1. c + 1 \in Nat
      BY <2>1
    <3>2. rl'[ip] = Bucket(c + 1, e)
      BY <1>8 DEF Refuses
    <3> HIDE DEF c, e
    <3>3. Bucket(c + 1, e) # None /\ Bucket(c + 1, e).count = c + 1 /\ Bucket(c + 1, e).resetAt = e
      BY <2>1, <3>1, Fields
    <3> QED BY <3>2, <3>3, Zenon
  <2> HIDE DEF c, e
  <2>3. Suffix(w, c + 1, e)
    BY <1>1, <2>1, WindowRefused
  <2>4. passed'[ip] = s /\ began'[ip] = w
    BY <1>8, Zenon DEF Refuses, Same, s, w
  <2> QED BY <1>1, <2>2, <2>3, <2>4, Zenon DEF Fits
<1>9. CASE Keeps(ip)
  <2>1. rl[ip] = None => AllOver(w, t)
    BY <1>1, <1>2, <1>3, OverLater
  <2>2. rl'[ip] = rl[ip] /\ passed'[ip] = s /\ began'[ip] = w /\ now' = t
    BY <1>2, <1>9, Zenon DEF Keeps, Same, s, w
  <2> QED BY <1>1, <2>1, <2>2, Zenon DEF Fits
<1>10. CASE Drops(ip)
  <2>1. AllOver(w, now)
    BY <1>1, <1>5, <1>10 DEF Drops
  <2>2. rl'[ip] = None /\ passed'[ip] = s /\ began'[ip] = w /\ now' = now
    BY <1>10, Zenon DEF Drops, Same, s, w
  <2> QED BY <1>1, <2>1, <2>2, Zenon DEF Fits
<1>11. CASE Forgets(ip)
  <2>1. Orderly(<<>>, <<>>) /\ AllOver(<<>>, t)
    BY DEF Orderly, AllOver
  <2> QED BY <1>2, <1>11, <2>1, Zenon DEF Forgets, Fits
<1> QED BY <1>2, <1>6, <1>7, <1>8, <1>9, <1>10, <1>11

LEMMA WindowInit == Init => WindowInv
<1> SUFFICES ASSUME Init, NEW ip \in IPs PROVE Fits(ip)
  BY TypeInit DEF WindowInv
<1>1. Orderly(<<>>, <<>>) /\ AllOver(<<>>, 0)
  BY DEF Orderly, AllOver
<1> QED BY <1>1 DEF Init, Fits

-----------------------------------------------------------------------------
(* The theorems.                                                           *)

\* However windows, bursts and purges fall, rateLimitMiddleware lets through no
\* more than twice the limit of one address within a window's length.
THEOREM BurstsAreBounded == Spec => []BurstBound
<1>1. WindowInv => BurstBound
  <2> SUFFICES ASSUME WindowInv, NEW ip \in IPs,
                      NEW i \in 1 .. Len(passed[ip]) - 2 * Limit
               PROVE  passed[ip][i + 2 * Limit] > passed[ip][i] + Window
    BY DEF BurstBound
  <2> DEFINE s == passed[ip]
             w == began[ip]
  <2>1. s \in Seq(Nat) /\ w \in Seq(Nat) /\ Orderly(s, w)
    BY DEF WindowInv, Types, TypeOK, Fits
  <2>2. i \in 1 .. Len(s) - 2 * Limit
    OBVIOUS
  <2> HIDE DEF s, w
  <2>3. /\ Len(w) \in Nat /\ Len(s) = Len(w)
        /\ \A k \in 1 .. Len(w) : s[k] \in Nat /\ w[k] \in Nat
    BY <2>1 DEF Orderly
  <2>4. i + 2 * Limit \in 1 .. Len(w) /\ i + Limit \in 1 .. Len(w) /\ i \in 1 .. Len(w)
        /\ (i + Limit) + Limit = i + 2 * Limit
    BY <2>2, <2>3, Sizes
  <2>5. s[i] <= w[i] + Window /\ w[i + 2 * Limit] <= s[i + 2 * Limit]
    BY <2>1, <2>4 DEF Orderly
  <2>6. w[i + Limit] > w[i] + Window
    BY <2>1, <2>3, <2>4, Sizes DEF Orderly
  <2>7. w[i + 2 * Limit] > w[i + Limit] + Window
    BY <2>1, <2>3, <2>4, Sizes DEF Orderly
  <2>8. s[i + 2 * Limit] > s[i] + Window
    BY <2>3, <2>4, <2>5, <2>6, <2>7, Sizes
  <2> QED BY <2>8 DEF s
<1> QED BY WindowInit, WindowStep, <1>1, PTL DEF Spec

\* rateLimitMiddleware answers 429 only to an address that used up its limit
\* within the last window.
THEOREM RefusalsHaveCause == Spec => RefusedForCause
<1> DEFINE Cause(ip) == LET n == Len(passed[ip])
                        IN  n >= Limit /\ passed[ip][n - Limit + 1] + Window >= now
<1>1. WindowInv /\ [Next]_vars => [\A ip \in IPs : Refused(ip) => Cause(ip)]_vars
  <2> SUFFICES ASSUME WindowInv, [Next]_vars, NEW ip \in IPs, Refused(ip)
               PROVE  Cause(ip)
    OBVIOUS
  <2> DEFINE s == passed[ip]
             w == began[ip]
  <2>1. /\ now \in Nat /\ rl[ip] \in Buckets \cup {None}
        /\ s \in Seq(Nat) /\ w \in Seq(Nat) /\ Fits(ip) /\ Orderly(s, w) /\ Types
    BY DEF WindowInv, Types, TypeOK, Fits
  <2>2. PICK t \in 0 .. MaxTime :
          /\ now' = t /\ now <= t
          /\ \/ Opens(ip, t) \/ Counts(ip) \/ Refuses(ip)
             \/ Keeps(ip) \/ Drops(ip) \/ Forgets(ip)
    BY <2>1, Steps
  <2>3. \A u : Append(s, u) # s
    BY <2>1
  <2>4. ~Opens(ip, t) /\ ~Counts(ip) /\ ~Keeps(ip) /\ ~Drops(ip) /\ ~Forgets(ip)
    BY <2>3, Zenon DEF Refused, Opens, Counts, Keeps, Drops, Forgets, Added, s
  <2>5. Refuses(ip)
    BY <2>2, <2>4
  <2> DEFINE c == rl[ip].count
             e == rl[ip].resetAt
  <2>6. c \in Nat /\ e \in Nat /\ c + 1 > Limit /\ now <= e /\ Suffix(w, c, e)
    BY <2>1, <2>5, Shapes DEF Refuses, Over, Fits
  <2> HIDE DEF s, w, c, e
  <2>7. /\ Held(c) = Limit /\ Len(w) \in Nat /\ Len(s) = Len(w)
        /\ \A k \in 1 .. Len(w) : s[k] \in Nat /\ w[k] \in Nat
    BY <2>1, <2>6, Sizes DEF Held, Orderly
  <2>8. PICK k : k = Len(w) - Limit + 1
    OBVIOUS
  <2>9. Limit <= Len(w) /\ k \in 1 .. Len(w) /\ k > Len(w) - Limit
    BY <2>6, <2>7, <2>8, Sizes DEF Suffix
  <2>10. w[k] + Window = e /\ w[k] <= s[k]
    BY <2>1, <2>6, <2>7, <2>9 DEF Suffix, Orderly
  <2>11. s[k] + Window >= now
    BY <2>1, <2>6, <2>7, <2>9, <2>10, Sizes
  <2> QED BY <2>7, <2>8, <2>9, <2>11 DEF s
<1> QED BY WindowInit, WindowStep, <1>1, PTL DEF Spec, RefusedForCause
=============================================================================
