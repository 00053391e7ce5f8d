------------------------- MODULE PasswordResetProofs -------------------------
(***************************************************************************)
(* Proofs about PasswordReset. Rows and history only grow: a link stays    *)
(* closed, a link stays the one account's it was asked for, and an id      *)
(* that is gone does not come back. So what a request has read stays true  *)
(* enough while the others run.                                            *)
(***************************************************************************)
EXTENDS PasswordReset, TLAPS

\* Rows, accounts and requests are records, and an update of one field is one.
LEMMA Shapes ==
  /\ \A a \in Account : /\ a # None /\ a.email \in Emails /\ a.by \in OrNone(Links)
                        /\ a.life \in Users
  /\ \A x \in Row : /\ x # None /\ x.user \in Users /\ x.used \in BOOLEAN
                    /\ x.expired \in BOOLEAN
  /\ \A q \in Asked : q # None /\ q.email \in OrNone(Emails) /\ q.link \in OrNone(Links)
  BY ResetAssumption DEF ResetAssumption, Account, Row, Asked

LEMMA AccountUpdate ==
  ASSUME NEW a \in Account, NEW l \in Links
  PROVE  LET b == [a EXCEPT !.by = l]
         IN  b \in Account /\ b # None /\ b.email = a.email /\ b.life = a.life /\ b.by = l
  BY Shapes DEF Account, OrNone

LEMMA RowUpdate ==
  ASSUME NEW x \in Row
  PROVE  /\ LET y == [x EXCEPT !.used = TRUE]
            IN  y \in Row /\ y # None /\ y.user = x.user /\ y.used /\ y.expired = x.expired
         /\ LET y == [x EXCEPT !.expired = TRUE]
            IN  y \in Row /\ y # None /\ y.user = x.user /\ y.used = x.used /\ y.expired
<1>1. [x EXCEPT !.used = TRUE] \in Row /\ [x EXCEPT !.expired = TRUE] \in Row
  BY DEF Row
<1>2. [x EXCEPT !.used = TRUE].user = x.user /\ [x EXCEPT !.expired = TRUE].user = x.user
  BY DEF Row
<1>3. [x EXCEPT !.used = TRUE].used /\ [x EXCEPT !.expired = TRUE].expired
  BY DEF Row
<1>4. [x EXCEPT !.used = TRUE].expired = x.expired
  BY DEF Row
<1>5. [x EXCEPT !.expired = TRUE].used = x.used
  BY DEF Row
<1>6. None \notin Row
  BY Shapes
<1> QED BY <1>1, <1>2, <1>3, <1>4, <1>5, <1>6, Zenon

LEMMA LinkUpdate ==
  ASSUME NEW q \in Asked, NEW l \in Links
  PROVE  LET p == [q EXCEPT !.link = l]
         IN  p \in Asked /\ p # None /\ p.email = q.email /\ p.link = l
  BY Shapes DEF Asked, OrNone

LEMMA NoneApart ==
  /\ MaxUsers \in Nat /\ None \notin Users /\ None \notin Links /\ None \notin Emails
  /\ Log # None /\ Log \notin Emails
  BY ResetAssumption DEF ResetAssumption

-----------------------------------------------------------------------------
(* The invariant, part by part.                                            *)

Shut(l) == links[l] # None /\ (links[l].used \/ links[l].expired)

\* The account a request for a link has found, if it is still there, has the
\* address it was found by.
HasEmail(u, e) == Exists(u) => users[u].email = e

\* What a request holds follows from where it is.
AskingOf(r) ==
  /\ pc[r] \in {"find", "create", "send"} => req[r] # None /\ req[r].email # None
  /\ pc[r] = "create" =>
       who[r] # None /\ who[r] = life[r] /\ who[r] <= lastUser /\ HasEmail(who[r], req[r].email)
  /\ pc[r] = "send" =>
       /\ req[r].link # None /\ req[r].link \in drawn /\ links[req[r].link] # None
       /\ HasEmail(meant[req[r].link], req[r].email)
SettingOf(r) ==
  /\ pc[r] \in {"read", "store", "mark", "answer"} =>
       req[r] # None /\ req[r].link # None /\ mail[req[r].link] # None
  /\ pc[r] \in {"store", "mark", "answer"} =>
       who[r] # None /\ links[req[r].link] # None /\ who[r] = links[req[r].link].user
  /\ pc[r] \in {"mark", "answer"} => req[r].link \in stored \/ ~Exists(who[r])
  /\ pc[r] = "answer" => req[r].link \in unmarked \/ links[req[r].link].used
  /\ r \in late => pc[r] = "read" /\ Shut(req[r].link)

\* A link belongs to the account it was asked for, from its first row on.
LinkOf(l) ==
  /\ l \notin drawn => links[l] = None /\ mail[l] = None
  /\ mail[l] # None => links[l] # None /\ (mail[l] = Log \/ HasEmail(meant[l], mail[l]))
  /\ links[l] # None =>
       /\ links[l].user = meant[l] /\ meant[l] <= lastUser
       /\ links[l].used => l \in stored \/ ~Exists(links[l].user)
  /\ l \in answered => l \in unmarked \/ (links[l] # None /\ links[l].used)

\* An id stands for one registration.
UserOf(u) ==
  /\ u > lastUser => users[u] = None
  /\ Exists(u) =>
       /\ users[u].life = u
       /\ users[u].by # None => /\ users[u].by \in drawn /\ meant[users[u].by] = u
                                /\ mail[users[u].by] \in {users[u].email, Log}

Inv ==
  /\ TypeOK /\ born = lastUser
  /\ \A r \in Requests : AskingOf(r) /\ SettingOf(r)
  /\ \A l \in Links : LinkOf(l)
  /\ \A u \in Users : UserOf(u)

\* What no step takes back.
Later ==
  /\ lastUser' \in Nat /\ lastUser <= lastUser'
  /\ \A u \in Users : u <= lastUser =>
       \/ users'[u] = None
       \/ users[u] # None /\ users'[u] # None /\ users'[u].email = users[u].email
  /\ \A l \in Links :
       /\ links[l] # None => /\ links'[l] # None /\ links'[l].user = links[l].user
                             /\ links[l].used => links'[l].used
                             /\ links[l].expired => links'[l].expired
       /\ mail[l] # None => mail'[l] # None
       /\ l \in drawn => meant'[l] = meant[l]
  /\ drawn \subseteq drawn' /\ stored \subseteq stored' /\ unmarked \subseteq unmarked'

\* A request that does nothing is where it was.
Rests(r) ==
  /\ pc'[r] = pc[r] /\ req'[r] = req[r] /\ who'[r] = who[r] /\ life'[r] = life[r]
  /\ r \in late' => r \in late

LEMMA Typed ==
  ASSUME TypeOK
  PROVE  /\ \A u \in Users : users[u] # None => users[u] \in Account
         /\ \A l \in Links : links[l] # None => links[l] \in Row
         /\ \A l \in Links : mail[l] # None => mail[l] \in Emails \cup {Log}
         /\ \A l \in Links : meant[l] \in 0 .. MaxUsers
         /\ \A r \in Requests : req[r] # None => req[r] \in Asked
         /\ \A r \in Requests : who[r] # None => who[r] \in Users
         /\ \A r \in Requests : life[r] \in 0 .. MaxUsers
         /\ lastUser \in 0 .. MaxUsers
  BY DEF TypeOK, OrNone

\* Addresses stay, and who is gone stays gone.
LEMMA Kept ==
  ASSUME Later
  PROVE  /\ \A u \in Users : \A e : u <= lastUser /\ HasEmail(u, e) =>
              (users'[u] # None => users'[u].email = e)
         /\ \A u \in Users : u <= lastUser /\ ~Exists(u) => users'[u] = None
  BY DEF Later, HasEmail, Exists

\* A request that rests is not disturbed by the others.
LEMMA RequestKept ==
  ASSUME Inv, Later, NEW r \in Requests, Rests(r), TypeOK'
  PROVE  AskingOf(r)' /\ SettingOf(r)'
<1>1. AskingOf(r) /\ SettingOf(r) /\ TypeOK
  BY DEF Inv
<1>2. AskingOf(r)'
  <2>1. CASE pc[r] = "create"
    <3>1. who[r] \in Users /\ who[r] <= lastUser /\ lastUser <= lastUser' /\ lastUser' \in Nat
          /\ (users'[who[r]] # None => users'[who[r]].email = req[r].email)
      BY <1>1, <2>1, Kept, Typed DEF AskingOf, Later
    <3> QED BY <1>1, <2>1, <3>1, Typed, NoneApart DEF AskingOf, Rests, HasEmail, Exists, TypeOK
  <2>2. CASE pc[r] = "send"
    <3> DEFINE l == req[r].link
    <3>1. l \in Links /\ links[l] # None /\ l \in drawn /\ HasEmail(meant[l], req[r].email)
      BY <1>1, <2>2, Typed, Shapes, NoneApart DEF AskingOf, OrNone
    <3>2. meant[l] \in Users /\ meant[l] <= lastUser
      BY <1>1, <3>1, Typed, Shapes DEF Inv, LinkOf
    <3>3. links'[l] # None /\ l \in drawn' /\ meant'[l] = meant[l]
          /\ (users'[meant[l]] # None => users'[meant[l]].email = req[r].email)
      BY <3>1, <3>2, Kept DEF Later
    <3> QED BY <1>1, <2>2, <3>1, <3>3 DEF AskingOf, Rests, HasEmail, Exists
  <2>3. CASE pc[r] \notin {"create", "send"}
    BY <1>1, <2>3 DEF AskingOf, Rests
  <2> QED BY <2>1, <2>2, <2>3
<1>3. SettingOf(r)'
  <2>1. CASE pc[r] \in {"read", "store", "mark", "answer"}
    <3> DEFINE l == req[r].link
    <3>1. l \in Links /\ mail'[l] # None
      BY <1>1, <2>1, Typed, Shapes DEF SettingOf, OrNone, Later
    <3>2. r \in late => links'[l] # None /\ (links'[l].used \/ links'[l].expired)
      BY <1>1, <3>1 DEF SettingOf, Shut, Later
    <3>3. CASE pc[r] = "read"
      BY <1>1, <3>1, <3>2, <3>3 DEF SettingOf, Rests, Shut
    <3>4. CASE pc[r] \in {"store", "mark", "answer"}
      <4>1. links'[l] # None /\ who[r] = links'[l].user
        BY <1>1, <3>1, <3>4 DEF SettingOf, Later
      <4>2. who[r] \in Users /\ who[r] <= lastUser
        BY <1>1, <3>1, <3>4, Typed, Shapes DEF SettingOf, Inv, LinkOf
      <4>3. pc[r] \in {"mark", "answer"} => l \in stored' \/ users'[who[r]] = None
        BY <1>1, <4>2, Kept DEF SettingOf, Later
      <4>4. pc[r] = "answer" => l \in unmarked' \/ links'[l].used
        BY <1>1, <3>1, <3>4 DEF SettingOf, Later
      <4>5. r \notin late
        BY <1>1, <3>4 DEF SettingOf
      <4> QED BY <1>1, <3>1, <3>4, <4>1, <4>3, <4>4, <4>5 DEF SettingOf, Rests, Exists
    <3> QED BY <2>1, <3>3, <3>4
  <2>2. CASE pc[r] \notin {"read", "store", "mark", "answer"}
    BY <1>1, <2>2 DEF SettingOf, Rests
  <2> QED BY <2>1, <2>2
<1> QED BY <1>2, <1>3

\* A link nobody writes to keeps what it stands for, whoever is registered or
\* deleted.
LEMMA LinkKept ==
  ASSUME Inv, Later, NEW l \in Links, links'[l] = links[l], mail'[l] = mail[l],
         meant'[l] = meant[l], l \in drawn' => l \in drawn, l \in answered' => l \in answered
  PROVE  LinkOf(l)'
<1>1. LinkOf(l) /\ TypeOK
  BY DEF Inv
<1>2. CASE links[l] = None
  BY <1>1, <1>2 DEF LinkOf, Later
<1>3. CASE links[l] # None
  <2>1. meant[l] \in Users /\ meant[l] <= lastUser /\ links[l].user = meant[l]
    BY <1>1, <1>3, Typed, Shapes DEF LinkOf
  <2>2. meant[l] <= lastUser'
    BY <1>1, <2>1, Typed DEF Later, TypeOK
  <2>3. mail[l] # None => mail[l] = Log \/ (users'[meant[l]] # None => users'[meant[l]].email = mail[l])
    BY <1>1, <2>1, Kept DEF LinkOf
  <2>4. links[l].used => l \in stored' \/ users'[meant[l]] = None
    BY <1>1, <1>3, <2>1, Kept DEF LinkOf, Later
  <2> QED BY <1>1, <1>3, <2>1, <2>2, <2>3, <2>4 DEF LinkOf, Later, HasEmail, Exists
<1> QED BY <1>2, <1>3

\* An account nobody writes to keeps its password's link.
LEMMA UserKept ==
  ASSUME Inv, Later, NEW u \in Users, users'[u] = users[u], lastUser' = lastUser,
         \A l \in Links : mail[l] # None => mail'[l] = mail[l]
  PROVE  UserOf(u)'
<1>1. UserOf(u) /\ TypeOK
  BY DEF Inv
<1>2. CASE users[u] = None \/ users[u].by = None
  BY <1>1, <1>2 DEF UserOf, Exists
<1>3. CASE users[u] # None /\ users[u].by # None
  <2> DEFINE l == users[u].by
  <2>1. l \in Links /\ users[u].email # None
    BY <1>1, <1>3, Typed, Shapes, NoneApart DEF OrNone
  <2>2. l \in drawn /\ meant[l] = u /\ mail[l] \in {users[u].email, Log} /\ mail[l] # None
    BY <1>1, <1>3, <2>1, NoneApart DEF UserOf, Exists
  <2>3. l \in drawn' /\ meant'[l] = u /\ mail'[l] = mail[l]
    BY <2>1, <2>2 DEF Later
  <2> QED BY <1>1, <1>3, <2>2, <2>3 DEF UserOf, Exists
<1> QED BY <1>2, <1>3

-----------------------------------------------------------------------------
(* Steps, by what they write to.                                           *)

RequestTypes ==
  /\ pc \in [Requests -> {"idle", "find", "create", "send", "read", "store", "mark", "answer"}]
  /\ req \in [Requests -> OrNone(Asked)] /\ who \in [Requests -> OrNone(Users)]
  /\ life \in [Requests -> 0 .. MaxUsers] /\ late \subseteq Requests
TableTypes ==
  /\ users \in [Users -> OrNone(Account)] /\ lastUser \in 0 .. MaxUsers
  /\ links \in [Links -> OrNone(Row)]
  /\ mail \in [Links -> OrNone(Emails \cup {Log})] /\ drawn \subseteq Links
  /\ born \in 0 .. MaxUsers /\ meant \in [Links -> 0 .. MaxUsers]
  /\ stored \subseteq Links /\ answered \subseteq Links /\ unmarked \subseteq Links

LEMMA TypeParts == (TypeOK <=> RequestTypes /\ TableTypes) /\ (TypeOK' <=> RequestTypes' /\ TableTypes')
  BY DEF TypeOK, RequestTypes, TableTypes

\* A request that ends holds nothing, and the others rest.
LEMMA DoneStep ==
  ASSUME RequestTypes, NEW r \in Requests, Done(r)
  PROVE  /\ RequestTypes' /\ AskingOf(r)' /\ SettingOf(r)'
         /\ \A q \in Requests \ {r} : Rests(q)
<1>1. RequestTypes'
  BY NoneApart DEF RequestTypes, Done, OrNone
<1>2. pc'[r] = "idle" /\ r \notin late'
  BY DEF RequestTypes, Done
<1>3. AskingOf(r)' /\ SettingOf(r)'
  BY <1>2 DEF AskingOf, SettingOf
<1>4. \A q \in Requests \ {r} : Rests(q)
  BY DEF RequestTypes, Done, Rests
<1> QED BY <1>1, <1>3, <1>4

LEMMA GotoStep ==
  ASSUME RequestTypes, NEW r \in Requests, NEW u \in Users,
         NEW s \in {"store", "mark", "answer"}, Goto(r, s, u)
  PROVE  /\ RequestTypes' /\ pc'[r] = s /\ who'[r] = u /\ req' = req /\ late' = late
         /\ \A q \in Requests \ {r} : Rests(q)
  BY DEF RequestTypes, Goto, Rests, OrNone

\* A step that leaves tables, mail and history alone.
LEMMA Quiet ==
  ASSUME Inv, UNCHANGED <<tables, mail, drawn, history>>
  PROVE  /\ Later /\ TableTypes' /\ born' = lastUser'
         /\ (\A l \in Links : LinkOf(l)') /\ (\A u \in Users : UserOf(u)')
<1>1. TableTypes' /\ born' = lastUser' /\ Later
  BY TypeParts DEF Inv, TableTypes, tables, history, Later
<1>2. ASSUME NEW l \in Links PROVE LinkOf(l)'
  BY <1>1, LinkKept DEF tables, history
<1>3. ASSUME NEW u \in Users PROVE UserOf(u)'
  BY <1>1, UserKept DEF tables, history
<1> QED BY <1>1, <1>2, <1>3

\* The parts of the invariant, put together.
LEMMA Assemble ==
  ASSUME Inv, Later, RequestTypes', TableTypes', born' = lastUser',
         \A q \in Requests : Rests(q) \/ (AskingOf(q)' /\ SettingOf(q)'),
         \A l \in Links : LinkOf(l)', \A u \in Users : UserOf(u)'
  PROVE  Inv'
<1>1. TypeOK'
  BY TypeParts
<1>2. ASSUME NEW q \in Requests PROVE AskingOf(q)' /\ SettingOf(q)'
  BY <1>1, RequestKept
<1> QED BY <1>1, <1>2 DEF Inv

-----------------------------------------------------------------------------
(* handleForgotSubmit.                                                     *)

LEMMA ForgotStep ==
  ASSUME Inv, NEW r \in Requests, NEW e \in Emails, Forgot(r, e)
  PROVE  Inv'
<1>1. RequestTypes /\ AskingOf(r) /\ SettingOf(r)
  BY TypeParts DEF Inv
<1>2. [email |-> e, link |-> None] \in Asked
  BY DEF Asked, OrNone
<1>3. RequestTypes' /\ (\A q \in Requests \ {r} : Rests(q)) /\ r \notin late'
      /\ pc'[r] = "find" /\ req'[r] = [email |-> e, link |-> None]
  BY <1>1, <1>2 DEF Forgot, RequestTypes, Rests, OrNone, SettingOf
<1>4. AskingOf(r)' /\ SettingOf(r)'
  BY <1>2, <1>3, Shapes, NoneApart DEF AskingOf, SettingOf
<1> QED BY <1>3, <1>4, Quiet, Assemble DEF Forgot

LEMMA FindStep ==
  ASSUME Inv, NEW r \in Requests, GetUserByEmail(r)
  PROVE  Inv'
<1>1. RequestTypes /\ AskingOf(r) /\ SettingOf(r) /\ TypeOK
  BY TypeParts DEF Inv
<1>2. UNCHANGED <<tables, mail, drawn, history>>
  BY DEF GetUserByEmail
<1>3. CASE Done(r)
  BY <1>1, <1>2, <1>3, DoneStep, Quiet, Assemble
<1>4. ASSUME NEW u \in Users, Exists(u), users[u].email = req[r].email,
             pc' = [pc EXCEPT ![r] = "create"], who' = [who EXCEPT ![r] = u],
             life' = [life EXCEPT ![r] = users[u].life], UNCHANGED <<req, late>>
      PROVE  Inv'
  <2>1. users[u].life = u /\ u <= lastUser /\ u \in 0 .. MaxUsers /\ u # None
    BY <1>1, <1>4, NoneApart, Typed DEF Inv, UserOf, Exists, Users
  <2>2. RequestTypes' /\ (\A q \in Requests \ {r} : Rests(q)) /\ r \notin late'
        /\ pc'[r] = "create" /\ who'[r] = u /\ life'[r] = u /\ req'[r] = req[r]
    BY <1>1, <1>4, <2>1 DEF GetUserByEmail, RequestTypes, Rests, OrNone, SettingOf
  <2>3. req[r] # None /\ req[r].email # None /\ lastUser' = lastUser /\ users' = users
    BY <1>1, <1>2 DEF GetUserByEmail, AskingOf, tables
  <2>4. AskingOf(r)' /\ SettingOf(r)'
    BY <1>4, <2>1, <2>2, <2>3 DEF AskingOf, SettingOf, HasEmail
  <2> QED BY <1>2, <2>2, <2>4, Quiet, Assemble
<1> QED BY <1>3, <1>4 DEF GetUserByEmail

LEMMA SendStep ==
  ASSUME Inv, NEW r \in Requests, Send(r)
  PROVE  Inv'
<1>1. RequestTypes /\ TableTypes /\ AskingOf(r) /\ TypeOK
  BY TypeParts DEF Inv
<1>2. PICK k \in Links : k = req[r].link
  BY <1>1, Typed, Shapes DEF Send, AskingOf, OrNone
<1>3. PICK e \in Emails : e = req[r].email
  BY <1>1, Typed, Shapes DEF Send, AskingOf, OrNone
<1>4. /\ links[k] # None /\ k \in drawn /\ HasEmail(meant[k], e)
      /\ \/ mail' = [mail EXCEPT ![k] = e] \/ mail' = [mail EXCEPT ![k] = Log]
      /\ UNCHANGED <<tables, drawn, history>>
  BY <1>1, <1>2, <1>3 DEF Send, AskingOf
<1>5. /\ mail'[k] \in {e, Log} /\ mail'[k] # None
      /\ \A l \in Links : l # k => mail'[l] = mail[l]
  BY <1>1, <1>4, NoneApart DEF TableTypes
<1>6. Later /\ TableTypes' /\ born' = lastUser'
  BY <1>1, <1>4, <1>5 DEF TableTypes, Inv, Later, tables, history, OrNone
<1>7. ASSUME NEW l \in Links PROVE LinkOf(l)'
  <2>1. CASE l = k
    BY <1>4, <1>5, <2>1 DEF Inv, LinkOf, HasEmail, Exists, tables, history
  <2>2. CASE l # k
    BY <1>4, <1>5, <1>6, <2>2, LinkKept DEF tables, history
  <2> QED BY <2>1, <2>2
<1>8. ASSUME NEW u \in Users PROVE UserOf(u)'
  <2>1. UserOf(u)
    BY DEF Inv
  <2>2. CASE Exists(u) /\ users[u].by = k
    BY <1>4, <1>5, <2>1, <2>2, NoneApart DEF UserOf, HasEmail, Exists, tables, history
  <2>3. CASE ~Exists(u) \/ users[u].by # k
    <3>1. Exists(u) /\ users[u].by # None => users[u].by \in Links
      BY <1>1, Typed, Shapes DEF Exists, OrNone
    <3> QED BY <1>4, <1>5, <2>1, <2>3, <3>1 DEF UserOf, Exists, tables, history
  <2> QED BY <2>2, <2>3
<1> QED BY <1>1, <1>6, <1>7, <1>8, DoneStep, Assemble DEF Send
LEMMA CreateStep ==
  ASSUME Inv, NEW r \in Requests, CreateResetToken(r)
  PROVE  Inv'
<1>1. RequestTypes /\ TableTypes /\ AskingOf(r) /\ SettingOf(r) /\ TypeOK
  BY TypeParts DEF Inv
<1>2. PICK u \in Users : u = who[r]
  BY <1>1, Typed DEF CreateResetToken, AskingOf
<1>3. life[r] = u /\ u <= lastUser /\ u \in 0 .. MaxUsers /\ HasEmail(u, req[r].email)
      /\ req[r] \in Asked /\ req[r].email # None /\ pc[r] = "create"
  BY <1>1, <1>2, Typed DEF CreateResetToken, AskingOf
<1>4. PICK k \in Links \ drawn :
        /\ drawn' = drawn \cup {k} /\ meant' = [meant EXCEPT ![k] = u]
        /\ \/ SaveLink(k, u) /\ SendNext(r, k)
           \/ Done(r) /\ UNCHANGED links
        /\ UNCHANGED <<users, lastUser, mail, born, stored, answered, unmarked>>
  BY <1>2, <1>3 DEF CreateResetToken
<1> DEFINE row == [user |-> u, used |-> FALSE, expired |-> FALSE]
<1>5. row \in Row /\ row # None /\ row.user = u /\ ~row.used
  BY Shapes DEF Row
<1> HIDE DEF row
<1>6. /\ links'[k] \in {row, None} /\ links' \in [Links -> OrNone(Row)]
      /\ \A l \in Links : l # k => links'[l] = links[l] /\ meant'[l] = meant[l]
      /\ meant'[k] = u /\ links[k] = None /\ mail[k] = None /\ LinkOf(k)
  BY <1>1, <1>4, <1>5 DEF TableTypes, SaveLink, row, OrNone, Inv, LinkOf
<1>7. Later /\ TableTypes' /\ born' = lastUser'
  <2>1. TableTypes' /\ born' = lastUser'
    BY <1>1, <1>3, <1>4, <1>6 DEF TableTypes, Inv
  <2>2. Later
    BY <1>1, <1>4, <1>6 DEF TableTypes, Later
  <2> QED BY <2>1, <2>2
<1>8. ASSUME NEW l \in Links PROVE LinkOf(l)'
  <2>1. CASE l = k
    BY <1>3, <1>4, <1>5, <1>6, <2>1 DEF LinkOf
  <2>2. CASE l # k
    BY <1>4, <1>6, <1>7, <2>2, LinkKept
  <2> QED BY <2>1, <2>2
<1>9. ASSUME NEW v \in Users PROVE UserOf(v)'
  BY <1>4, <1>7, UserKept
<1>10. RequestTypes' /\ AskingOf(r)' /\ SettingOf(r)' /\ \A q \in Requests \ {r} : Rests(q)
  <2>1. CASE Done(r)
    BY <1>1, <2>1, DoneStep
  <2>2. CASE SaveLink(k, u) /\ SendNext(r, k)
    <3>1. PICK x : x = [req[r] EXCEPT !.link = k]
      OBVIOUS
    <3>2. x \in Asked /\ x # None /\ x.email = req[r].email /\ x.link = k
      BY <1>3, <3>1, LinkUpdate
    <3>3. RequestTypes' /\ (\A q \in Requests \ {r} : Rests(q)) /\ req'[r] = x /\ pc'[r] = "send"
          /\ r \notin late'
      BY <1>1, <1>3, <2>2, <3>1, <3>2 DEF SendNext, RequestTypes, Rests, OrNone, SettingOf
    <3>4. links'[k] # None /\ k \in drawn' /\ k # None /\ meant'[k] = u /\ users' = users
      BY <1>1, <1>4, <1>5, <1>6, <2>2, NoneApart DEF SaveLink, row, TableTypes
    <3> QED BY <1>3, <3>2, <3>3, <3>4 DEF AskingOf, SettingOf, HasEmail, Exists
  <2> QED BY <1>4, <2>1, <2>2
<1> QED BY <1>7, <1>8, <1>9, <1>10, Assemble

-----------------------------------------------------------------------------
(* handleResetSubmit.                                                      *)

LEMMA SubmitStep ==
  ASSUME Inv, NEW r \in Requests, NEW k \in Links, Submit(r, k)
  PROVE  Inv'
<1>1. RequestTypes /\ SettingOf(r) /\ LinkOf(k)
  BY TypeParts DEF Inv
<1>2. PICK x : x = [email |-> None, link |-> k]
  OBVIOUS
<1>3. x \in Asked /\ x # None /\ x.link = k /\ k # None
  BY <1>2, Shapes, NoneApart DEF Asked, OrNone
<1>4. RequestTypes' /\ (\A q \in Requests \ {r} : Rests(q))
      /\ pc'[r] = "read" /\ req'[r] = x /\ (r \in late' => Closed(k))
  BY <1>1, <1>2, <1>3 DEF Submit, RequestTypes, Rests, OrNone, SettingOf
<1>5. Closed(k) => Shut(k)
  BY <1>1 DEF Closed, Shut, LinkOf
<1>6. mail'[k] # None /\ links' = links
  BY DEF Submit, tables
<1>7. AskingOf(r)' /\ SettingOf(r)'
  BY <1>3, <1>4, <1>5, <1>6 DEF AskingOf, SettingOf, Shut
<1> QED BY <1>4, <1>7, Quiet, Assemble DEF Submit

LEMMA ReadStep ==
  ASSUME Inv, NEW r \in Requests, GetResetToken(r)
  PROVE  Inv'
<1>1. RequestTypes /\ SettingOf(r) /\ TypeOK
  BY TypeParts DEF Inv
<1>2. UNCHANGED <<tables, mail, drawn, history>> /\ pc[r] = "read"
  BY DEF GetResetToken
<1>3. PICK k \in Links : k = req[r].link
  BY <1>1, <1>2, Typed, Shapes DEF SettingOf, OrNone
<1>4. CASE Done(r)
  BY <1>1, <1>2, <1>4, DoneStep, Quiet, Assemble
<1>5. CASE Live(k) /\ Goto(r, "store", links[k].user)
  <2>1. links[k] # None /\ links[k].user \in Users /\ ~Shut(k)
    BY <1>1, <1>5, Typed, Shapes DEF Live, Shut
  <2>2. PICK u \in Users : u = links[k].user
    BY <2>1
  <2>3. Goto(r, "store", u)
    BY <1>5, <2>2
  <2>4. RequestTypes' /\ pc'[r] = "store" /\ who'[r] = u /\ req' = req /\ late' = late
        /\ \A q \in Requests \ {r} : Rests(q)
    BY <1>1, <2>3, GotoStep
  <2>5. req[r] # None /\ k # None /\ mail[k] # None /\ r \notin late /\ u # None
    BY <1>1, <1>2, <1>3, <2>1, NoneApart DEF SettingOf
  <2>6. AskingOf(r)' /\ SettingOf(r)'
    BY <1>2, <1>3, <2>1, <2>2, <2>4, <2>5 DEF AskingOf, SettingOf, tables
  <2> QED BY <1>2, <2>4, <2>6, Quiet, Assemble
<1> QED BY <1>3, <1>4, <1>5 DEF GetResetToken

LEMMA StoreStep ==
  ASSUME Inv, NEW r \in Requests, UpdateUserPassword(r)
  PROVE  Inv'
<1>1. RequestTypes /\ TableTypes /\ SettingOf(r) /\ TypeOK
  BY TypeParts DEF Inv
<1>2. PICK k \in Links : k = req[r].link
  BY <1>1, Typed, Shapes DEF UpdateUserPassword, SettingOf, OrNone
<1>3. PICK u \in Users : u = who[r]
  BY <1>1, Typed DEF UpdateUserPassword, SettingOf
<1>4. /\ req[r] # None /\ k # None /\ mail[k] # None /\ r \notin late /\ u # None
      /\ links[k] # None /\ links[k].user = u /\ pc[r] = "store"
  BY <1>1, <1>2, <1>3, NoneApart DEF UpdateUserPassword, SettingOf
<1>5. UNCHANGED <<lastUser, links, mail, drawn, born, meant, answered, unmarked>>
  BY DEF UpdateUserPassword
<1>6. CASE Goto(r, "mark", u) /\ Exists(u) /\ users' = [users EXCEPT ![u].by = k]
           /\ stored' = stored \cup {k}
  <2>1. PICK a : a = [users[u] EXCEPT !.by = k]
    OBVIOUS
  <2>2. a \in Account /\ a # None /\ a.email = users[u].email /\ a.life = users[u].life /\ a.by = k
    BY <1>1, <1>6, <2>1, AccountUpdate, Typed DEF Exists
  <2>3. users'[u] = a /\ users' \in [Users -> OrNone(Account)]
        /\ \A v \in Users : v # u => users'[v] = users[v]
    BY <1>1, <1>6, <2>1, <2>2 DEF TableTypes, OrNone
  <2>4. Later
    BY <1>1, <1>5, <1>6, <2>2, <2>3 DEF Later, TableTypes, Exists
  <2>5. TableTypes' /\ born' = lastUser'
    BY <1>1, <1>5, <1>6, <2>3 DEF TableTypes, Inv
  <2>6. ASSUME NEW l \in Links PROVE LinkOf(l)'
    BY <1>5, <2>4, LinkKept
  <2>7. ASSUME NEW v \in Users PROVE UserOf(v)'
    <3>1. CASE v = u
      <4>1. UserOf(u) /\ LinkOf(k)
        BY DEF Inv
      <4>2. k \in drawn /\ meant[k] = u /\ mail[k] \in {users[u].email, Log}
        BY <1>4, <1>6, <4>1 DEF LinkOf, HasEmail
      <4> QED BY <1>5, <1>6, <2>2, <2>3, <3>1, <4>1, <4>2 DEF UserOf, Exists
    <3>2. CASE v # u
      BY <1>5, <2>3, <2>4, <3>2, UserKept
    <3> QED BY <3>1, <3>2
  <2>8. RequestTypes' /\ pc'[r] = "mark" /\ who'[r] = u /\ req' = req /\ late' = late
        /\ \A q \in Requests \ {r} : Rests(q)
    BY <1>1, <1>6, GotoStep
  <2>9. AskingOf(r)' /\ SettingOf(r)'
    BY <1>2, <1>4, <1>5, <1>6, <2>8 DEF AskingOf, SettingOf
  <2> QED BY <2>4, <2>5, <2>6, <2>7, <2>8, <2>9, Assemble
<1>7. CASE Goto(r, "mark", u) /\ ~Exists(u) /\ UNCHANGED <<users, stored>>
  <2>1. UNCHANGED <<tables, mail, drawn, history>>
    BY <1>5, <1>7 DEF tables, history
  <2>2. RequestTypes' /\ pc'[r] = "mark" /\ who'[r] = u /\ req' = req /\ late' = late
        /\ \A q \in Requests \ {r} : Rests(q)
    BY <1>1, <1>7, GotoStep
  <2>3. AskingOf(r)' /\ SettingOf(r)'
    BY <1>2, <1>4, <1>5, <1>7, <2>2 DEF AskingOf, SettingOf, Exists
  <2> QED BY <2>1, <2>2, <2>3, Quiet, Assemble
<1>8. CASE Done(r) /\ UNCHANGED <<users, stored>>
  <2>1. UNCHANGED <<tables, mail, drawn, history>>
    BY <1>5, <1>8 DEF tables, history
  <2> QED BY <1>1, <1>8, <2>1, DoneStep, Quiet, Assemble
<1> QED BY <1>2, <1>3, <1>6, <1>7, <1>8 DEF UpdateUserPassword
LEMMA MarkStep ==
  ASSUME Inv, NEW r \in Requests, MarkResetTokenUsed(r)
  PROVE  Inv'
<1>1. RequestTypes /\ TableTypes /\ SettingOf(r) /\ TypeOK
  BY TypeParts DEF Inv
<1>2. PICK k \in Links : k = req[r].link
  BY <1>1, Typed, Shapes DEF MarkResetTokenUsed, SettingOf, OrNone
<1>3. PICK u \in Users : u = who[r]
  BY <1>1, Typed DEF MarkResetTokenUsed, SettingOf
<1>4. /\ req[r] # None /\ k # None /\ mail[k] # None /\ r \notin late /\ u # None
      /\ links[k] # None /\ links[k].user = u /\ (k \in stored \/ ~Exists(u))
      /\ links[k] \in Row /\ Goto(r, "answer", u)
  BY <1>1, <1>2, <1>3, NoneApart, Typed DEF MarkResetTokenUsed, SettingOf
<1>5. UNCHANGED <<users, lastUser, mail, drawn, born, meant, stored, answered>>
  BY DEF MarkResetTokenUsed
<1>6. PICK y : y = [links[k] EXCEPT !.used = TRUE]
  OBVIOUS
<1>7. y \in Row /\ y # None /\ y.user = u /\ y.used /\ y.expired = links[k].expired
  BY <1>4, <1>6, RowUpdate
<1>8. \/ links' = [links EXCEPT ![k] = y] /\ unmarked' = unmarked
      \/ unmarked' = unmarked \cup {k} /\ links' = links
  BY <1>2, <1>6 DEF MarkResetTokenUsed
<1>9. /\ links'[k] \in {links[k], y} /\ (k \in unmarked' \/ links'[k] = y)
      /\ links' \in [Links -> OrNone(Row)]
      /\ \A l \in Links : l # k => links'[l] = links[l]
  BY <1>1, <1>7, <1>8 DEF TableTypes, OrNone
<1>10. Later
  BY <1>1, <1>4, <1>5, <1>7, <1>8, <1>9 DEF Later, TableTypes
<1>11. TableTypes' /\ born' = lastUser'
  BY <1>1, <1>5, <1>8, <1>9 DEF TableTypes, Inv
<1>12. ASSUME NEW l \in Links PROVE LinkOf(l)'
  <2>1. CASE l = k
    <3>1. LinkOf(k) /\ unmarked \subseteq unmarked'
      BY <1>10 DEF Inv, Later
    <3>2. k \in unmarked' \/ (links'[k] # None /\ links'[k].used)
      BY <1>7, <1>9
    <3> QED BY <1>4, <1>5, <1>7, <1>9, <2>1, <3>1, <3>2 DEF LinkOf, HasEmail, Exists
  <2>2. CASE l # k
    BY <1>5, <1>9, <1>10, <2>2, LinkKept
  <2> QED BY <2>1, <2>2
<1>13. ASSUME NEW v \in Users PROVE UserOf(v)'
  BY <1>5, <1>10, UserKept
<1>14. RequestTypes' /\ pc'[r] = "answer" /\ who'[r] = u /\ req' = req /\ late' = late
       /\ \A q \in Requests \ {r} : Rests(q)
  BY <1>1, <1>4, GotoStep
<1>15. AskingOf(r)' /\ SettingOf(r)'
  <2>1. links'[k] # None /\ links'[k].user = u /\ (k \in unmarked' \/ links'[k].used)
    BY <1>4, <1>7, <1>9
  <2> QED BY <1>2, <1>4, <1>5, <1>14, <2>1 DEF AskingOf, SettingOf, Exists
<1> QED BY <1>10, <1>11, <1>12, <1>13, <1>14, <1>15, Assemble

LEMMA AnswerStep ==
  ASSUME Inv, NEW r \in Requests, Answer(r)
  PROVE  Inv'
<1>1. RequestTypes /\ TableTypes /\ SettingOf(r) /\ TypeOK
  BY TypeParts DEF Inv
<1>2. PICK k \in Links : k = req[r].link
  BY <1>1, Typed, Shapes DEF Answer, SettingOf, OrNone
<1>3. /\ answered' = answered \cup {k} /\ Done(r)
      /\ UNCHANGED <<tables, mail, drawn, born, meant, stored, unmarked>>
      /\ links[k] # None /\ (k \in unmarked \/ links[k].used)
  BY <1>1, <1>2 DEF Answer, SettingOf
<1>4. Later /\ TableTypes' /\ born' = lastUser'
  <2>1. TableTypes' /\ born' = lastUser'
    BY <1>1, <1>3 DEF TableTypes, Inv, tables
  <2>2. Later
    BY <1>1, <1>3 DEF TableTypes, Later, tables
  <2> QED BY <2>1, <2>2
<1>5. ASSUME NEW l \in Links PROVE LinkOf(l)'
  <2>1. LinkOf(l)
    BY DEF Inv
  <2> QED BY <1>3, <2>1 DEF LinkOf, HasEmail, Exists, tables
<1>6. ASSUME NEW v \in Users PROVE UserOf(v)'
  BY <1>3, <1>4, UserKept DEF tables
<1> QED BY <1>1, <1>3, <1>4, <1>5, <1>6, DoneStep, Assemble

-----------------------------------------------------------------------------
(* What else touches the tables.                                           *)

LEMMA RegisterStep ==
  ASSUME Inv, NEW e \in Emails, Register(e)
  PROVE  Inv'
<1>1. RequestTypes /\ TableTypes /\ TypeOK /\ born = lastUser
  BY TypeParts DEF Inv
<1>2. PICK u \in Users : u = lastUser + 1
  BY <1>1, NoneApart DEF Register, TableTypes, Users
<1>3. PICK a : a = [email |-> e, by |-> None, life |-> u]
  OBVIOUS
<1>4. a \in Account /\ a # None /\ a.by = None /\ a.life = u
  BY <1>3, Shapes DEF Account, OrNone
<1>5. /\ users' = [users EXCEPT ![u] = a] /\ lastUser' = u /\ born' = u
      /\ UNCHANGED <<links, mail, drawn, request, meant, stored, answered, unmarked>>
  BY <1>1, <1>2, <1>3 DEF Register, NewAccount
<1>6. u \in 0 .. MaxUsers /\ lastUser < u /\ lastUser \in Nat /\ u \in Nat
  BY <1>1, <1>2 DEF TableTypes, Users
<1>7. /\ users'[u] = a /\ users' \in [Users -> OrNone(Account)]
      /\ \A v \in Users : v # u => users'[v] = users[v]
  BY <1>1, <1>4, <1>5 DEF TableTypes, OrNone
<1>8. Later
  BY <1>1, <1>5, <1>6, <1>7 DEF Later
<1>9. TableTypes' /\ born' = lastUser'
  BY <1>1, <1>5, <1>6, <1>7 DEF TableTypes
<1>10. RequestTypes' /\ \A q \in Requests : Rests(q)
  BY <1>1, <1>5 DEF RequestTypes, Rests, request
<1>11. ASSUME NEW l \in Links PROVE LinkOf(l)'
  BY <1>5, <1>8, LinkKept
<1>12. ASSUME NEW v \in Users PROVE UserOf(v)'
  <2>1. UserOf(v) /\ v \in Nat
    BY DEF Inv, Users
  <2>2. CASE v = u
    BY <1>4, <1>5, <1>6, <1>7, <2>2 DEF UserOf, Exists
  <2>3. CASE v # u
    BY <1>5, <1>6, <1>7, <2>1, <2>3 DEF UserOf, Exists
  <2> QED BY <2>2, <2>3
<1> QED BY <1>8, <1>9, <1>10, <1>11, <1>12, Assemble

LEMMA DeleteStep ==
  ASSUME Inv, NEW u \in Users, DeleteUser(u)
  PROVE  Inv'
<1>1. RequestTypes /\ TableTypes /\ TypeOK /\ born = lastUser
  BY TypeParts DEF Inv
<1>2. /\ users'[u] = None /\ users' \in [Users -> OrNone(Account)]
      /\ \A v \in Users : v # u => users'[v] = users[v]
      /\ UNCHANGED <<lastUser, links, mail, drawn, request, history>>
  BY <1>1 DEF DeleteUser, TableTypes, OrNone
<1>3. Later /\ TableTypes' /\ born' = lastUser'
  <2>1. TableTypes' /\ born' = lastUser'
    BY <1>1, <1>2 DEF TableTypes, history
  <2>2. Later
    BY <1>1, <1>2 DEF TableTypes, Later, history
  <2> QED BY <2>1, <2>2
<1>4. RequestTypes' /\ \A q \in Requests : Rests(q)
  BY <1>1, <1>2 DEF RequestTypes, Rests, request
<1>5. ASSUME NEW l \in Links PROVE LinkOf(l)'
  BY <1>2, <1>3, LinkKept DEF history
<1>6. ASSUME NEW v \in Users PROVE UserOf(v)'
  <2>1. CASE v = u
    BY <1>2, <2>1 DEF UserOf, Exists
  <2>2. CASE v # u
    BY <1>2, <1>3, <2>2, UserKept
  <2> QED BY <2>1, <2>2
<1> QED BY <1>3, <1>4, <1>5, <1>6, Assemble

LEMMA ExpireStep ==
  ASSUME Inv, NEW k \in Links, Expire(k)
  PROVE  Inv'
<1>1. RequestTypes /\ TableTypes /\ TypeOK /\ born = lastUser /\ links[k] \in Row /\ links[k] # None
  BY TypeParts, Typed DEF Inv, Expire
<1>2. PICK y : y = [links[k] EXCEPT !.expired = TRUE]
  OBVIOUS
<1>3. y \in Row /\ y # None /\ y.user = links[k].user /\ y.used = links[k].used /\ y.expired
  BY <1>1, <1>2, RowUpdate, Zenon
<1>4. /\ links'[k] = y /\ links' \in [Links -> OrNone(Row)]
      /\ \A l \in Links : l # k => links'[l] = links[l]
      /\ UNCHANGED <<users, lastUser, mail, drawn, request, history>>
  BY <1>1, <1>2, <1>3 DEF Expire, TableTypes, OrNone
<1>5. TableTypes' /\ born' = lastUser'
  BY <1>1, <1>4 DEF TableTypes, history
<1>6. \A l \in Links : links[l] # None =>
        /\ links'[l] # None /\ links'[l].user = links[l].user
        /\ links[l].used => links'[l].used
        /\ links[l].expired => links'[l].expired
  BY <1>3, <1>4
<1>7. Later
  BY <1>1, <1>4, <1>6 DEF Later, TableTypes, history
<1>8. RequestTypes' /\ \A q \in Requests : Rests(q)
  BY <1>1, <1>4 DEF RequestTypes, Rests, request
<1>9. ASSUME NEW l \in Links PROVE LinkOf(l)'
  <2>1. CASE l = k
    <3>1. LinkOf(k)
      BY DEF Inv
    <3> QED BY <1>1, <1>3, <1>4, <2>1, <3>1 DEF LinkOf, HasEmail, Exists, history
  <2>2. CASE l # k
    BY <1>4, <1>7, <2>2, LinkKept DEF history
  <2> QED BY <2>1, <2>2
<1>10. ASSUME NEW v \in Users PROVE UserOf(v)'
  BY <1>4, <1>7, UserKept DEF history
<1> QED BY <1>5, <1>7, <1>8, <1>9, <1>10, Assemble

LEMMA CrashStep == Inv /\ Crash => Inv'
<1> SUFFICES ASSUME Inv, Crash PROVE Inv'
  OBVIOUS
<1>1. RequestTypes' /\ \A q \in Requests : pc'[q] = "idle" /\ q \notin late'
  BY NoneApart DEF Crash, RequestTypes, OrNone
<1>2. ASSUME NEW q \in Requests PROVE AskingOf(q)' /\ SettingOf(q)'
  BY <1>1 DEF AskingOf, SettingOf
<1> QED BY <1>1, <1>2, Quiet, Assemble DEF Crash

LEMMA InvInit == Init => Inv
  BY NoneApart DEF Init, Inv, TypeOK, OrNone, AskingOf, SettingOf, LinkOf, UserOf, Exists

LEMMA InvStep == Inv /\ [Next]_vars => Inv'
<1> SUFFICES ASSUME Inv, [Next]_vars PROVE Inv'
  OBVIOUS
<1>1. CASE UNCHANGED vars
  <2>1. RequestTypes' /\ (\A q \in Requests : Rests(q)) /\ UNCHANGED <<tables, mail, drawn, history>>
    BY <1>1, TypeParts DEF vars, request, RequestTypes, Rests, Inv
  <2> QED BY <2>1, Quiet, Assemble
<1>2. ASSUME NEW r \in Requests, Serve(r) PROVE Inv'
  BY <1>2, FindStep, CreateStep, SendStep, ReadStep, StoreStep, MarkStep, AnswerStep DEF Serve
<1> QED BY <1>1, <1>2, ForgotStep, SubmitStep, RegisterStep, DeleteStep, ExpireStep, CrashStep DEF Next

LEMMA Invariant == Spec => []Inv
  BY InvInit, InvStep, PTL DEF Spec

-----------------------------------------------------------------------------
(* The theorems.                                                           *)

\* Tables and requests keep their types, whatever handlers run side by side.
THEOREM ResetTypes == Spec => []TypeOK
<1>1. Inv => TypeOK
  BY DEF Inv
<1> QED BY Invariant, <1>1, PTL

\* UpdateUserPassword changes the password of the account whose address the link
\* was mailed to, and of no later one.
THEOREM OwnersOnly == Spec => []OnlyOwnersReset
<1>1. Inv => OnlyOwnersReset
  BY DEF Inv, UserOf, OnlyOwnersReset
<1> QED BY Invariant, <1>1, PTL

\* A request sent after its link was closed never gets past GetResetToken.
THEOREM LateChangeNothing == Spec => []NoLateReset
<1>1. Inv => NoLateReset
  BY DEF Inv, TypeOK, SettingOf, NoLateReset
<1> QED BY Invariant, <1>1, PTL

\* MarkResetTokenUsed takes no link whose password was not stored.
THEOREM UsedOnlyWhenDone == Spec => []UsedMeansDone
<1>1. Inv => UsedMeansDone
  BY DEF Inv, LinkOf, UsedMeansDone
<1> QED BY Invariant, <1>1, PTL

\* handleForgotSubmit mails only links that CreateResetToken has stored.
THEOREM MailedLinksHaveRows == Spec => []MailedLinksWork
<1>1. Inv => MailedLinksWork
  BY DEF Inv, LinkOf, MailedLinksWork
<1> QED BY Invariant, <1>1, PTL
=============================================================================
