--------------------------- MODULE SessionsProofs ---------------------------
(***************************************************************************)
(* What Sessions guarantees for any number of browsers, requests, accounts *)
(* and tokens, whatever fails.                                             *)
(***************************************************************************)
EXTENDS Sessions, TLAPS

\* What a request holds follows from where it is.
ControlOf(r) ==
  /\ pc[r] # "idle" => req[r] # None
  /\ pc[r] = "idle" => ctx[r] = None
  /\ pc[r] = "session" => req[r].sent # None
  /\ pc[r] \in {"user", "clear"} => ctx[r] # None
  /\ pc[r] = "create" => req[r].op = "register"
  /\ pc[r] = "start" => req[r].op \in {"login", "register"} /\ who[r] # None
  /\ pc[r] = "flash" => req[r].op = "register"
  /\ req[r] # None =>
       /\ req[r].op \in {"login", "register"} => req[r].token # None
       /\ req[r].op \in {"form", "register"} => req[r].note # None
Control == \A r \in Requests : ControlOf(r)

TypeInv == TypeOK /\ Control

\* A token is unborn until its startSession: nobody has drawn it, or a request
\* has it in reserve. Nothing refers to it then.
Reserves(r, t) == /\ pc[r] \in {"session", "user", "serve", "create", "start"}
                  /\ req[r].token = t
Unborn(t) == t \notin issued \/ \E r \in Requests : Reserves(r, t)
Untouched(t) ==
  /\ sessions[t] = None /\ t \notin ended
  /\ \A b \in Browsers : cookie[b] # t
  /\ \A r \in Requests :
       /\ reply[r] # {t}
       /\ ctx[r] # None => ctx[r].token # t
       /\ req[r] # None => req[r].sent # t
Births ==
  /\ \A t \in Tokens : Unborn(t) => Untouched(t)
  /\ \A r \in Requests : req[r] # None /\ req[r].token # None => req[r].token \in issued
  /\ \A q, r \in Requests : \A t \in Tokens : Reserves(q, t) /\ Reserves(r, t) => q = r

\* Ids are issued once: whoever is named by a row or a request has been created.
Created ==
  /\ \A u \in Users : u > lastUser => users[u] = None
  /\ \A t \in Tokens : sessions[t] # None => sessions[t].user <= lastUser
  /\ \A r \in Requests :
       /\ ctx[r] # None => ctx[r].user <= lastUser
       /\ who[r] # None => who[r] <= lastUser

\* A request whose session was over when it began finds that out.
DoomedOf(r) ==
  /\ pc[r] = "session" => Over(req[r].sent)
  /\ pc[r] = "user" => ~Exists(ctx[r].user)
  /\ pc[r] \notin {"idle", "user"} => ctx[r] = None
Dooms == \A r \in doomed : DoomedOf(r)

-----------------------------------------------------------------------------
(* Types                                                                   *)

\* The initial state has its types.
LEMMA TypeInit == Init => TypeInv
  BY SessionsAssumption
  DEF SessionsAssumption, Init, TypeInv, TypeOK, Control, ControlOf, OrNone, Steps, Users

\* A row with another flash, or past its time, is a row.
LEMMA RowUpdate ==
  ASSUME NEW row \in Rows, NEW f \in OrNone(Notes)
  PROVE  [row EXCEPT !.flash = f] \in Rows /\ [row EXCEPT !.expired = TRUE] \in Rows
  BY DEF Rows

\* sessionMiddleware and the arrival of a response keep the types.
LEMMA TypeMiddleware ==
  ASSUME TypeInv, NEW r \in Requests,
         (\E q \in Asked : Begin(r, q)) \/ GetSession(r) \/ GetUserByID(r) \/ Respond(r)
  PROVE  TypeInv'
<1> USE SessionsAssumption
    DEF SessionsAssumption, TypeInv, TypeOK, Control, ControlOf, OrNone, Steps, Goto, tables
<1>1. ASSUME NEW q \in Asked, Begin(r, q) PROVE TypeInv'
  <2>1. /\ q # None /\ q.token \in OrNone(Tokens) /\ q.note \in OrNone(Notes)
        /\ q.sent = cookie[q.from]
    BY <1>1 DEF Begin, Asked
  <2>2. issued' \subseteq Tokens \cup Notes
    BY <1>1, <2>1 DEF Begin
  <2> QED
    BY <1>1, <2>1, <2>2 DEF Begin
<1>2. CASE GetSession(r)
  <2>1. req[r] \in Asked /\ req[r].sent \in Tokens
    BY <1>2 DEF GetSession, Asked
  <2>2. CASE /\ Live(req[r].sent)
             /\ ctx' = [ctx EXCEPT ![r] = [token |-> req[r].sent,
                                           user |-> sessions[req[r].sent].user,
                                           flash |-> sessions[req[r].sent].flash]]
             /\ Goto(r, "user") /\ UNCHANGED reply
    <3>1. sessions[req[r].sent] \in Rows
      BY <2>1, <2>2 DEF Live
    <3>2. /\ sessions[req[r].sent].user \in Users
          /\ sessions[req[r].sent].flash \in OrNone(Notes)
      BY <3>1 DEF Rows
    <3>3. [token |-> req[r].sent, user |-> sessions[req[r].sent].user,
           flash |-> sessions[req[r].sent].flash] \in Contexts
      BY <2>1, <3>2 DEF Contexts
    <3> QED
      BY <1>2, <2>2, <3>3 DEF GetSession
  <2>3. CASE /\ reply' = [reply EXCEPT ![r] = {None}]
             /\ Goto(r, "serve") /\ UNCHANGED ctx
    BY <1>2, <2>3 DEF GetSession
  <2> QED
    BY <1>2, <2>2, <2>3 DEF GetSession
<1>3. CASE GetUserByID(r)
  BY <1>3 DEF GetUserByID
<1>4. CASE Respond(r)
  BY <1>4 DEF Respond, Asked
<1> QED
  BY <1>1, <1>2, <1>3, <1>4

\* Pages and flash messages keep the types.
LEMMA TypePages ==
  ASSUME TypeInv, NEW r \in Requests,
         RenderPage(r) \/ RenderOwn(r) \/ ClearFlash(r) \/ SetFlash(r)
  PROVE  TypeInv'
<1> USE SessionsAssumption
    DEF SessionsAssumption, TypeInv, TypeOK, Control, ControlOf, OrNone, Steps, Goto, tables
<1>1. CASE RenderPage(r)
  <2>1. ctx[r] # None => ctx[r].flash \in OrNone(Notes)
    BY DEF Contexts
  <2> QED
    BY <1>1, <2>1 DEF RenderPage
<1>2. CASE RenderOwn(r)
  BY <1>2 DEF RenderOwn
<1>3. CASE ClearFlash(r)
  <2>1. ctx[r].token \in Tokens
    BY <1>3 DEF ClearFlash, Contexts
  <2>2. \A row \in OrNone(Rows) :
          (IF row = None THEN None ELSE [row EXCEPT !.flash = None]) \in OrNone(Rows)
    BY RowUpdate
  <2>3. sessions' \in [Tokens -> OrNone(Rows)]
    BY <1>3, <2>1, <2>2 DEF ClearFlash
  <2> QED
    BY <1>3, <2>3 DEF ClearFlash
<1>4. CASE SetFlash(r)
  <2>1. ctx[r] # None => ctx[r].token \in Tokens
    BY DEF Contexts
  <2>2. /\ req[r] \in Asked /\ req[r].op \in {"form", "register"}
        /\ req[r].note \in Notes
    BY <1>4 DEF SetFlash, Redirects, Asked
  <2>3. \A row \in OrNone(Rows) :
          (IF row = None THEN None ELSE [row EXCEPT !.flash = req[r].note]) \in OrNone(Rows)
    BY <2>2, RowUpdate
  <2>4. sessions' \in [Tokens -> OrNone(Rows)]
    BY <1>4, <2>1, <2>3 DEF SetFlash
  <2>5. alone' \subseteq Notes
    BY <1>4, <2>2 DEF SetFlash
  <2>6. /\ pc' = [pc EXCEPT ![r] = "reply"]
        /\ UNCHANGED <<users, lastUser, cookie, req, ctx, who, reply, issued, ended, doomed,
                       shown>>
    BY <1>4 DEF SetFlash
  <2>7. TypeOK'
    BY <2>4, <2>5, <2>6, Zenon
  <2>8. pc[r] # "idle" /\ \A x \in Requests : pc'[x] = IF x = r THEN "reply" ELSE pc[x]
    BY <1>4, <2>6 DEF SetFlash, Redirects
  <2>9. Control'
    BY <2>6, <2>8
  <2> QED
    BY <2>7, <2>9
<1> QED
  BY <1>1, <1>2, <1>3, <1>4

\* Logins, registrations and logouts keep the types.
LEMMA TypeAccounts ==
  ASSUME TypeInv, NEW r \in Requests,
         \/ LoginLookup(r) \/ RegisterLookup(r) \/ CreateUser(r) \/ CreateSession(r)
         \/ Logout(r)
  PROVE  TypeInv'
<1> USE SessionsAssumption
    DEF SessionsAssumption, TypeInv, TypeOK, Control, ControlOf, OrNone, Steps, Goto, tables
<1>1. CASE LoginLookup(r)
  BY <1>1 DEF LoginLookup
<1>2. CASE RegisterLookup(r)
  BY <1>2 DEF RegisterLookup
<1>3. CASE CreateUser(r)
  <2>1. req[r].email \in Emails
    BY <1>3 DEF CreateUser, Asked
  <2>2. lastUser < MaxUsers => lastUser + 1 \in Users
    BY DEF Users
  <2>3. /\ lastUser' \in 0 .. MaxUsers
        /\ users' \in [Users -> Emails \cup {None}]
        /\ who' \in [Requests -> Users \cup {None}]
    BY <1>3, <2>1, <2>2 DEF CreateUser
  <2>4. /\ pc'[r] \in {"start", "reply"} /\ pc' = [pc EXCEPT ![r] = pc'[r]]
        /\ pc'[r] = "start" => who'[r] # None
        /\ \A q \in Requests \ {r} : who'[q] = who[q]
        /\ UNCHANGED <<sessions, cookie, req, ctx, reply, issued, ended, doomed, shown, alone>>
    BY <1>3, <2>2 DEF CreateUser
  <2>5. req[r] # None /\ req[r].op = "register"
    BY <1>3 DEF CreateUser
  <2> QED
    BY <2>3, <2>4, <2>5
<1>4. CASE CreateSession(r)
  <2>1. req[r].token \in Tokens /\ who[r] \in Users
    BY <1>4 DEF CreateSession, Asked
  <2>2. [user |-> who[r], flash |-> None, expired |-> FALSE] \in Rows
    BY <2>1 DEF Rows
  <2>3. sessions' \in [Tokens -> OrNone(Rows)]
    BY <1>4, <2>1, <2>2 DEF CreateSession
  <2>4. reply' \in [Requests -> {{}, {None}} \cup {{t} : t \in Tokens}]
    BY <1>4, <2>1 DEF CreateSession
  <2> QED
    BY <1>4, <2>3, <2>4 DEF CreateSession
<1>5. CASE Logout(r)
  <2>1. ctx[r] # None => ctx[r].token \in Tokens
    BY DEF Contexts
  <2> QED
    BY <1>5, <2>1 DEF Logout
<1> QED
  BY <1>1, <1>2, <1>3, <1>4, <1>5

\* Steps of nobody's request keep the types.
LEMMA TypeOthers ==
  ASSUME TypeInv,
         \/ \E u \in Users : DeleteUser(u)
         \/ \E t \in Tokens : Expire(t)
         \/ PruneExpiredSessions \/ Crash \/ UNCHANGED vars
  PROVE  TypeInv'
<1> USE DEF TypeInv, TypeOK, Control, ControlOf, OrNone, Steps, tables
<1>1. ASSUME NEW u \in Users, DeleteUser(u) PROVE TypeInv'
  BY <1>1 DEF DeleteUser
<1>2. ASSUME NEW t \in Tokens, Expire(t) PROVE TypeInv'
  <2>1. [sessions[t] EXCEPT !.expired = TRUE] \in Rows
    BY <1>2, RowUpdate DEF Expire, Live
  <2> QED
    BY <1>2, <2>1 DEF Expire
<1>3. CASE PruneExpiredSessions
  BY <1>3 DEF PruneExpiredSessions
<1>4. CASE Crash
  BY <1>4 DEF Crash
<1>5. CASE UNCHANGED vars
  BY <1>5 DEF vars
<1> QED
  BY <1>1, <1>2, <1>3, <1>4, <1>5

\* Every step keeps the types.
LEMMA TypeStep == TypeInv /\ [Next]_vars => TypeInv'
  BY TypeMiddleware, TypePages, TypeAccounts, TypeOthers DEF Next, Serve

\* Tables, cookies and the requests' locals keep their types (TypeOK).
THEOREM SessionTypes == Spec => []TypeOK
<1>1. Spec => []TypeInv
  BY TypeInit, TypeStep, PTL DEF Spec
<1> QED
  BY <1>1, PTL DEF TypeInv

-----------------------------------------------------------------------------
(* Tokens                                                                  *)

\* Nobody has drawn a token yet.
LEMMA BirthsInit == Init => Births
  BY SessionsAssumption
  DEF SessionsAssumption, Init, Births, Unborn, Untouched, Reserves

\* Most steps draw no token and touch none that is unborn.
LEMMA BirthsFrame ==
  ASSUME Births, UNCHANGED issued,
         \A q \in Requests : req'[q] = req[q] \/ req'[q] = None,
         \A q \in Requests : \A t \in Tokens : Reserves(q, t)' => Reserves(q, t),
         \A t \in Tokens : Untouched(t) => Untouched(t)'
  PROVE  Births'
  BY DEF Births, Unborn

\* sessionMiddleware, pages and flash messages: only tokens with a row get into
\* a context, only contexts are written to, only replies become cookies.
LEMMA BirthsServe ==
  ASSUME TypeInv, Births, NEW r \in Requests,
         \/ GetSession(r) \/ GetUserByID(r) \/ RenderPage(r) \/ RenderOwn(r)
         \/ ClearFlash(r) \/ SetFlash(r) \/ LoginLookup(r) \/ RegisterLookup(r)
         \/ CreateUser(r) \/ Logout(r) \/ Respond(r)
  PROVE  Births'
<1> USE SessionsAssumption DEF SessionsAssumption, TypeInv, TypeOK, OrNone, Goto, tables
<1>1. CASE GetSession(r)
  <2>1. \A q \in Requests : \A t \in Tokens : Reserves(q, t)' => Reserves(q, t)
    BY <1>1 DEF GetSession, Reserves
  <2>2. /\ UNCHANGED <<sessions, ended, cookie, req, issued>>
        /\ \A q \in Requests \ {r} : ctx'[q] = ctx[q]
        /\ ctx'[r] = ctx[r] \/ ctx'[r].token = req[r].sent
        /\ req[r] # None
    BY <1>1 DEF GetSession, Live, Control, ControlOf
  <2>3. \A q \in Requests : reply'[q] = reply[q] \/ reply'[q] = {None}
    BY <1>1 DEF GetSession
  <2>4. ASSUME NEW t \in Tokens, Untouched(t) PROVE Untouched(t)'
    <3>1. t # None /\ t # req[r].sent
      BY <2>2, <2>4 DEF Untouched
    <3>2. \A q \in Requests : ctx'[q] # None => ctx'[q].token # t
      BY <2>2, <2>4, <3>1 DEF Untouched
    <3>3. \A q \in Requests : reply'[q] # {t}
      BY <2>3, <2>4, <3>1 DEF Untouched
    <3> QED
      BY <2>2, <2>4, <3>2, <3>3 DEF Untouched
  <2> QED
    BY <2>1, <2>2, <2>4, BirthsFrame
<1>2. CASE GetUserByID(r) \/ RenderPage(r) \/ RenderOwn(r) \/ LoginLookup(r) \/ RegisterLookup(r)
           \/ CreateUser(r)
  <2>1. \A q \in Requests : \A t \in Tokens : Reserves(q, t)' => Reserves(q, t)
    BY <1>2
    DEF GetUserByID, RenderPage, RenderOwn, LoginLookup, RegisterLookup, CreateUser, Reserves
  <2>2. /\ UNCHANGED <<sessions, ended, cookie, reply, req, issued>>
        /\ \A q \in Requests : ctx'[q] = ctx[q] \/ ctx'[q] = None
    BY <1>2 DEF GetUserByID, RenderPage, RenderOwn, LoginLookup, RegisterLookup, CreateUser
  <2>3. ASSUME NEW t \in Tokens, Untouched(t) PROVE Untouched(t)'
    BY <2>2, <2>3 DEF Untouched
  <2> QED
    BY <2>1, <2>2, <2>3, BirthsFrame
<1>3. CASE ClearFlash(r) \/ SetFlash(r) \/ Logout(r)
  <2>1. \A q \in Requests : \A t \in Tokens : Reserves(q, t)' => Reserves(q, t)
    BY <1>3 DEF ClearFlash, SetFlash, Logout, Reserves
  <2>2. /\ UNCHANGED <<cookie, ctx, req, issued>>
        /\ \A q \in Requests : reply'[q] = reply[q] \/ reply'[q] = {None}
    BY <1>3 DEF ClearFlash, SetFlash, Logout
  <2>3. \A t \in Tokens : sessions[t] = None => sessions'[t] = None
    BY <1>3 DEF ClearFlash, SetFlash, Logout
  <2>4. \A t \in Tokens : t \in ended' => t \in ended \/ (ctx[r] # None /\ ctx[r].token = t)
    BY <1>3 DEF ClearFlash, SetFlash, Logout
  <2>5. ASSUME NEW t \in Tokens, Untouched(t) PROVE Untouched(t)'
    BY <2>2, <2>3, <2>4, <2>5 DEF Untouched
  <2> QED
    BY <2>1, <2>2, <2>5, BirthsFrame
<1>4. CASE Respond(r)
  <2>1. \A q \in Requests : \A t \in Tokens : Reserves(q, t)' => Reserves(q, t)
    BY <1>4 DEF Respond, Reserves
  <2>2. \A b \in Browsers : cookie'[b] = cookie[b] \/ cookie'[b] = None \/ reply[r] = {cookie'[b]}
    BY <1>4 DEF Respond, Asked
  <2>3. /\ UNCHANGED <<sessions, ended, issued>>
        /\ \A q \in Requests :
             /\ req'[q] = req[q] \/ req'[q] = None
             /\ ctx'[q] = ctx[q] \/ ctx'[q] = None
             /\ reply'[q] = reply[q] \/ reply'[q] = {}
    BY <1>4 DEF Respond
  <2>4. ASSUME NEW t \in Tokens, Untouched(t) PROVE Untouched(t)'
    BY <2>2, <2>3, <2>4 DEF Untouched
  <2> QED
    BY <2>1, <2>3, <2>4, BirthsFrame
<1> QED
  BY <1>1, <1>2, <1>3, <1>4

\* The same of the steps that are nobody's request.
LEMMA BirthsOthers ==
  ASSUME TypeInv, Births,
         \/ \E u \in Users : DeleteUser(u)
         \/ \E t \in Tokens : Expire(t)
         \/ PruneExpiredSessions \/ Crash \/ UNCHANGED vars
  PROVE  Births'
<1> USE DEF TypeInv, TypeOK, OrNone, tables
<1>1. \A q \in Requests : \A t \in Tokens : Reserves(q, t)' => Reserves(q, t)
  BY DEF DeleteUser, Expire, PruneExpiredSessions, Crash, vars, Reserves
<1>2. /\ UNCHANGED <<cookie, issued>>
      /\ \A q \in Requests :
           /\ req'[q] = req[q] \/ req'[q] = None
           /\ ctx'[q] = ctx[q] \/ ctx'[q] = None
           /\ reply'[q] = reply[q] \/ reply'[q] = {}
  BY DEF DeleteUser, Expire, PruneExpiredSessions, Crash, vars
<1>3. \A t \in Tokens : sessions[t] = None =>
        sessions'[t] = None /\ (t \in ended' => t \in ended)
  BY DEF DeleteUser, Expire, PruneExpiredSessions, Crash, vars, Live
<1>4. ASSUME NEW t \in Tokens, Untouched(t) PROVE Untouched(t)'
  BY <1>2, <1>3, <1>4 DEF Untouched
<1> QED
  BY <1>1, <1>2, <1>4, BirthsFrame

\* A request draws a token nobody has.
LEMMA BirthsBegin ==
  ASSUME TypeInv, Births, NEW r \in Requests, NEW q \in Asked, Begin(r, q)
  PROVE  Births'
<1> USE SessionsAssumption DEF SessionsAssumption, TypeInv, TypeOK, OrNone, Goto, tables
<1>1. /\ q # None /\ q.token \in Tokens \cup {None} /\ q.sent = cookie[q.from]
      /\ q.from \in Browsers /\ q.token \notin issued
      /\ req'[r] = q /\ \A x \in Requests \ {r} : req'[x] = req[x] /\ pc'[x] = pc[x]
      /\ UNCHANGED <<sessions, ended, cookie, reply, ctx>>
  BY DEF Begin, Asked
<1>2. issued' = issued \cup ({q.token, q.note} \ {None})
  BY DEF Begin
<1>3. ASSUME NEW t \in Tokens, Unborn(t)' PROVE Untouched(t)'
  <2>1. Unborn(t)
    BY <1>1, <1>2, <1>3 DEF Unborn, Reserves
  <2>2. Untouched(t)
    BY <2>1 DEF Births
  <2> QED
    BY <1>1, <2>2 DEF Untouched
<1>4. ASSUME NEW x \in Requests, req'[x] # None, req'[x].token # None
      PROVE req'[x].token \in issued'
  BY <1>1, <1>2, <1>4 DEF Births
<1>5. ASSUME NEW x \in Requests, NEW y \in Requests, NEW t \in Tokens,
             Reserves(x, t)', Reserves(y, t)'
      PROVE x = y
  <2>1. ASSUME NEW z \in Requests \ {r}, Reserves(z, t)' PROVE t \in issued /\ Reserves(z, t)
    BY <1>1, <2>1 DEF Births, Reserves, Control, ControlOf
  <2>2. Reserves(r, t)' => t \notin issued
    BY <1>1 DEF Reserves
  <2> QED
    BY <1>5, <2>1, <2>2 DEF Births
<1> QED
  BY <1>3, <1>4, <1>5 DEF Births

\* startSession gives birth to the token in reserve, and to no other.
LEMMA BirthsCreate ==
  ASSUME TypeInv, Births, NEW r \in Requests, CreateSession(r)
  PROVE  Births'
<1> USE SessionsAssumption DEF SessionsAssumption, TypeInv, TypeOK, OrNone, Goto, tables
<1>1. /\ pc[r] = "start" /\ req[r] # None /\ req[r].token \in Tokens
      /\ pc'[r] \in {"flash", "reply"}
      /\ \A x \in Requests \ {r} : pc'[x] = pc[x] /\ reply'[x] = reply[x]
      /\ UNCHANGED <<ended, cookie, req, ctx, issued>>
  BY DEF CreateSession, Control, ControlOf, Asked
<1>2. \A x \in Requests : \A t \in Tokens : Reserves(x, t)' => Reserves(x, t) /\ x # r
  BY <1>1 DEF Reserves
<1>3. ASSUME NEW t \in Tokens, Unborn(t)' PROVE Untouched(t)'
  <2>1. Untouched(t)
    BY <1>1, <1>2, <1>3 DEF Births, Unborn
  <2>2. Reserves(r, req[r].token) /\ req[r].token \in issued
    BY <1>1 DEF Reserves, Births
  <2>3. t # req[r].token
    BY <1>1, <1>2, <1>3, <2>2 DEF Births, Unborn
  <2>4. sessions'[t] = sessions[t]
    BY <1>1, <2>3 DEF CreateSession
  <2>5. reply'[r] = reply[r] \/ reply'[r] = {req[r].token}
    BY <1>1 DEF CreateSession
  <2>6. \A x \in Requests : reply'[x] # {t}
    BY <1>1, <2>1, <2>3, <2>5 DEF Untouched
  <2> QED
    BY <1>1, <2>1, <2>4, <2>6 DEF Untouched
<1> QED
  BY <1>1, <1>2, <1>3 DEF Births

\* Every step keeps what is said of tokens.
LEMMA BirthsStep == ASSUME TypeInv, Births, [Next]_vars PROVE Births'
  BY BirthsServe, BirthsOthers, BirthsBegin, BirthsCreate DEF Next, Serve

\* Only startSession adds a row, under the token of its request and for its user.
\* A row that stays keeps its user, and stays expired.
LEMMA RowsFrom ==
  ASSUME TypeInv, [Next]_vars, NEW t \in Tokens, sessions'[t] # None
  PROVE  \/ /\ sessions[t] # None /\ sessions'[t].user = sessions[t].user
            /\ sessions[t].expired => sessions'[t].expired
         \/ \E r \in Requests :
              CreateSession(r) /\ req[r].token = t /\ sessions'[t].user = who[r]
<1> USE DEF TypeInv, TypeOK, OrNone, tables
<1> DEFINE Stays   == /\ sessions[t] # None /\ sessions'[t].user = sessions[t].user
                      /\ sessions[t].expired => sessions'[t].expired
           Born(r) == CreateSession(r) /\ req[r].token = t /\ sessions'[t].user = who[r]
<1>1. UNCHANGED sessions => Stays
  OBVIOUS
<1>2. ASSUME NEW r \in Requests, Serve(r) PROVE Stays \/ Born(r)
  <2>1. CASE CreateSession(r)
    BY <2>1 DEF CreateSession
  <2>2. CASE \/ GetSession(r) \/ GetUserByID(r) \/ RenderPage(r) \/ RenderOwn(r)
             \/ LoginLookup(r) \/ RegisterLookup(r) \/ CreateUser(r) \/ Respond(r)
    <3>1. UNCHANGED sessions
      BY <2>2
      DEF GetSession, GetUserByID, RenderPage, RenderOwn, LoginLookup, RegisterLookup,
          CreateUser, Respond
    <3> QED
      BY <1>1, <3>1
  <2>3. CASE ClearFlash(r) \/ SetFlash(r)
    <3>1. \/ sessions'[t] = sessions[t]
          \/ /\ sessions[t] # None
             /\ \/ sessions'[t] = [sessions[t] EXCEPT !.flash = None]
                \/ sessions'[t] = [sessions[t] EXCEPT !.flash = req[r].note]
      BY <2>3 DEF ClearFlash, SetFlash
    <3>2. sessions[t] # None => sessions[t] \in Rows
      OBVIOUS
    <3> QED
      BY <3>1, <3>2 DEF Rows
  <2>4. CASE Logout(r)
    BY <2>4 DEF Logout
  <2> QED
    BY <1>2, <2>1, <2>2, <2>3, <2>4 DEF Serve
<1>3. ASSUME NEW r \in Requests, NEW q \in Asked, Begin(r, q) PROVE Stays
  BY <1>1, <1>3 DEF Begin
<1>4. ASSUME NEW u \in Users, DeleteUser(u) PROVE Stays
  BY <1>1, <1>4 DEF DeleteUser
<1>5. ASSUME NEW x \in Tokens, Expire(x) PROVE Stays
  <2>1. sessions'[t] = sessions[t] \/ sessions'[t] = [sessions[t] EXCEPT !.expired = TRUE]
    BY <1>5 DEF Expire
  <2>2. x = t => sessions[t] # None
    BY <1>5 DEF Expire, Live
  <2>3. sessions[t] # None
    BY <1>5, <2>2 DEF Expire
  <2>4. sessions[t] \in Rows
    BY <2>3
  <2> QED
    BY <2>1, <2>3, <2>4 DEF Rows
<1>6. CASE PruneExpiredSessions
  BY <1>6 DEF PruneExpiredSessions
<1>7. CASE Crash \/ UNCHANGED vars
  BY <1>1, <1>7 DEF Crash, vars
<1> QED
  BY <1>2, <1>3, <1>4, <1>5, <1>6, <1>7 DEF Next

\* The token of a startSession under way is unborn.
LEMMA CreatedUnborn ==
  ASSUME TypeInv, NEW r \in Requests, CreateSession(r)
  PROVE  Unborn(req[r].token)
  BY DEF CreateSession, Unborn, Reserves

\* Tokens that end do so with their row.
LEMMA EndsWithRow ==
  ASSUME TypeInv, [Next]_vars, NEW t \in Tokens, t \in ended', t \notin ended
  PROVE  sessions'[t] = None
<1> USE DEF TypeInv, TypeOK, OrNone, tables
<1>1. ASSUME NEW r \in Requests, Serve(r) PROVE sessions'[t] = None
  <2>1. CASE Logout(r)
    BY <2>1 DEF Logout
  <2>2. ~Logout(r) => UNCHANGED ended
    BY <1>1
    DEF Serve, GetSession, GetUserByID, RenderPage, RenderOwn, LoginLookup, RegisterLookup,
        CreateUser, CreateSession, Respond, ClearFlash, SetFlash
  <2> QED
    BY <2>1, <2>2
<1>2. ASSUME NEW r \in Requests, NEW q \in Asked, Begin(r, q) PROVE FALSE
  BY <1>2 DEF Begin
<1>3. CASE PruneExpiredSessions
  BY <1>3 DEF PruneExpiredSessions
<1>4. ~ \/ \E u \in Users : DeleteUser(u)
        \/ \E x \in Tokens : Expire(x)
        \/ Crash \/ UNCHANGED vars
  BY DEF DeleteUser, Expire, Crash, vars
<1> QED
  BY <1>1, <1>2, <1>3, <1>4 DEF Next

\* A session that was logged out or pruned does not come back (EndedStaysEnded).
THEOREM SessionsEnd == Spec => []EndedStaysEnded
<1>1. Init => EndedStaysEnded
  BY DEF Init, EndedStaysEnded
<1>2. TypeInv /\ Births /\ EndedStaysEnded /\ [Next]_vars => EndedStaysEnded'
  <2> SUFFICES ASSUME TypeInv, Births, EndedStaysEnded, [Next]_vars,
                      NEW t \in ended', sessions'[t] # None
               PROVE  FALSE
    BY DEF EndedStaysEnded
  <2>1. t \in Tokens
    BY TypeStep DEF TypeInv, TypeOK
  <2>2. t \in ended /\ sessions[t] = None
    BY <2>1, EndsWithRow DEF EndedStaysEnded
  <2>3. PICK r \in Requests : CreateSession(r) /\ req[r].token = t
    BY <2>1, <2>2, RowsFrom
  <2>4. Untouched(t)
    BY <2>1, <2>3, CreatedUnborn DEF Births
  <2> QED
    BY <2>2, <2>4 DEF Untouched
<1> QED
  BY <1>1, <1>2, TypeInit, TypeStep, BirthsInit, BirthsStep, PTL DEF Spec

-----------------------------------------------------------------------------
(* Accounts                                                                *)

\* An account comes from createUser with the next id, its address free, or it was
\* there before.
LEMMA UsersFrom ==
  ASSUME TypeInv, [Next]_vars
  PROVE  \/ /\ UNCHANGED lastUser
            /\ \A u \in Users : users'[u] = users[u] \/ users'[u] = None
         \/ /\ lastUser + 1 \in Users /\ lastUser' = lastUser + 1
            /\ \A u \in Users : u # lastUser + 1 => users'[u] = users[u]
            /\ \A u \in Users : users[u] # users'[lastUser + 1]
<1> USE DEF TypeInv, TypeOK, OrNone, tables
<1> DEFINE Fewer == /\ UNCHANGED lastUser
                    /\ \A u \in Users : users'[u] = users[u] \/ users'[u] = None
           OneMore == /\ lastUser + 1 \in Users /\ lastUser' = lastUser + 1
                      /\ \A u \in Users : u # lastUser + 1 => users'[u] = users[u]
                      /\ \A u \in Users : users[u] # users'[lastUser + 1]
<1>1. UNCHANGED <<users, lastUser>> => Fewer
  OBVIOUS
<1>2. ASSUME NEW r \in Requests, Serve(r) PROVE Fewer \/ OneMore
  <2>1. CASE CreateUser(r)
    <3>1. CASE UNCHANGED <<users, lastUser>>
      BY <1>1, <3>1
    <3>2. CASE /\ lastUser < MaxUsers
               /\ ~ \E u \in Users : HasAccount(req[r].email, u)
               /\ lastUser' = lastUser + 1
               /\ users' = [users EXCEPT ![lastUser + 1] = req[r].email]
      <4>1. lastUser + 1 \in Users
        BY <3>2, SessionsAssumption DEF SessionsAssumption, Users
      <4>2. req[r].email # None
        BY <2>1, SessionsAssumption
        DEF CreateUser, Control, ControlOf, Asked, SessionsAssumption
      <4>3. \A u \in Users : users[u] # req[r].email
        BY <3>2, <4>2 DEF HasAccount, Exists
      <4> QED
        BY <3>2, <4>1, <4>3
    <3> QED
      BY <2>1, <3>1, <3>2 DEF CreateUser
  <2>2. ~CreateUser(r) => UNCHANGED <<users, lastUser>>
    BY <1>2
    DEF Serve, GetSession, GetUserByID, RenderPage, RenderOwn, LoginLookup, RegisterLookup,
        Logout, CreateSession, Respond, ClearFlash, SetFlash
  <2> QED
    BY <1>1, <2>1, <2>2
<1>3. ASSUME NEW r \in Requests, NEW q \in Asked, Begin(r, q) PROVE Fewer
  BY <1>1, <1>3 DEF Begin
<1>4. ASSUME NEW u \in Users, DeleteUser(u) PROVE Fewer
  BY <1>4 DEF DeleteUser
<1>5. ~(\E r \in Requests : Serve(r) \/ \E q \in Asked : Begin(r, q))
        /\ ~(\E u \in Users : DeleteUser(u)) => Fewer
  BY <1>1 DEF Next, vars, Expire, PruneExpiredSessions, Crash
<1> QED
  BY <1>2, <1>3, <1>4, <1>5

\* Two registrations of one address make one account (OneAccountPerEmail).
THEOREM AccountsAreUnique == Spec => []OneAccountPerEmail
<1>1. Init => OneAccountPerEmail
  BY DEF Init, OneAccountPerEmail, Exists
<1>2. TypeInv /\ OneAccountPerEmail /\ [Next]_vars => OneAccountPerEmail'
  BY UsersFrom DEF OneAccountPerEmail, Exists
<1> QED
  BY <1>1, <1>2, TypeInit, TypeStep, PTL DEF Spec

\* Contexts name the user of a row; startSession is called for an account.
LEMMA NamesFrom ==
  ASSUME TypeInv, [Next]_vars, NEW r \in Requests
  PROVE  /\ \/ ctx'[r] = None \/ ctx'[r] = ctx[r]
            \/ \E t \in Tokens : sessions[t] # None /\ ctx'[r].user = sessions[t].user
         /\ \/ who'[r] = None \/ who'[r] = who[r] \/ who'[r] = lastUser'
            \/ Exists(who'[r])
<1> USE DEF TypeInv, TypeOK, OrNone, tables
<1> DEFINE C == \/ ctx'[r] = None \/ ctx'[r] = ctx[r]
                \/ \E t \in Tokens : sessions[t] # None /\ ctx'[r].user = sessions[t].user
           W == \/ who'[r] = None \/ who'[r] = who[r] \/ who'[r] = lastUser'
                \/ Exists(who'[r])
<1>1. ASSUME NEW q \in Requests, Serve(q) PROVE C /\ W
  <2>1. CASE GetSession(q)
    <3>1. req[q].sent \in Tokens
      BY <2>1 DEF GetSession, Control, ControlOf, Asked
    <3> QED
      BY <2>1, <3>1 DEF GetSession, Live
  <2>2. CASE \/ GetUserByID(q) \/ RenderPage(q) \/ RenderOwn(q) \/ ClearFlash(q)
             \/ SetFlash(q) \/ RegisterLookup(q) \/ CreateSession(q) \/ Logout(q)
             \/ Respond(q)
    BY <2>2
    DEF GetUserByID, RenderPage, RenderOwn, RegisterLookup, Logout, CreateSession, Respond,
        ClearFlash, SetFlash
  <2>3. CASE LoginLookup(q)
    BY <2>3 DEF LoginLookup, HasAccount, Exists
  <2>4. CASE CreateUser(q)
    BY <2>4 DEF CreateUser
  <2> QED
    BY <1>1, <2>1, <2>2, <2>3, <2>4 DEF Serve
<1>2. ASSUME NEW q \in Requests, NEW x \in Asked, Begin(q, x) PROVE C /\ W
  BY <1>2 DEF Begin
<1>3. \/ \E u \in Users : DeleteUser(u)
      \/ \E t \in Tokens : Expire(t)
      \/ PruneExpiredSessions \/ Crash \/ UNCHANGED vars
      => C /\ W
  BY DEF DeleteUser, Expire, PruneExpiredSessions, Crash, vars
<1> QED
  BY <1>1, <1>2, <1>3 DEF Next

\* Every step keeps what is said of ids.
LEMMA CreatedStep == ASSUME TypeInv, Created, [Next]_vars PROVE Created'
<1> USE DEF TypeInv, TypeOK, OrNone
<1>1. lastUser \in Nat /\ lastUser' \in Nat /\ lastUser <= lastUser' /\ Users \subseteq Nat
  BY UsersFrom, SessionsAssumption DEF SessionsAssumption, Users
<1>2. ASSUME NEW u \in Users, u > lastUser' PROVE users'[u] = None
  BY <1>1, <1>2, UsersFrom DEF Created
<1>3. ASSUME NEW t \in Tokens, sessions'[t] # None PROVE sessions'[t].user <= lastUser'
  <2>1. CASE sessions[t] # None /\ sessions'[t].user = sessions[t].user
    <3>1. sessions[t].user \in Nat /\ sessions[t].user <= lastUser
      BY <1>1, <2>1 DEF Created, Rows
    <3> QED
      BY <1>1, <2>1, <3>1
  <2>2. ASSUME NEW r \in Requests, CreateSession(r), sessions'[t].user = who[r]
        PROVE  sessions'[t].user <= lastUser'
    <3>1. who[r] \in Nat /\ who[r] <= lastUser
      BY <2>2 DEF CreateSession, Created, Control, ControlOf, Users
    <3>2. who[r] <= lastUser'
      BY <1>1, <3>1
    <3> QED
      BY <2>2, <3>2, Zenon
  <2> QED
    BY <1>3, <2>1, <2>2, RowsFrom
<1>4. ASSUME NEW r \in Requests, ctx'[r] # None PROVE ctx'[r].user <= lastUser'
  <2>1. CASE ctx'[r] = ctx[r]
    <3>1. ctx[r].user \in Nat /\ ctx[r].user <= lastUser
      BY <1>1, <1>4, <2>1 DEF Created, Contexts
    <3> QED
      BY <1>1, <2>1, <3>1
  <2>2. ASSUME NEW t \in Tokens, sessions[t] # None, ctx'[r].user = sessions[t].user
        PROVE  ctx'[r].user <= lastUser'
    <3>1. sessions[t].user \in Nat /\ sessions[t].user <= lastUser
      BY <1>1, <2>2 DEF Created, Rows
    <3>2. sessions[t].user <= lastUser'
      BY <1>1, <3>1
    <3> QED
      BY <2>2, <3>2, Zenon
  <2> QED
    BY <1>4, <2>1, <2>2, NamesFrom
<1>5. ASSUME NEW r \in Requests, who'[r] # None PROVE who'[r] <= lastUser'
  <2>1. who'[r] \in Users /\ who'[r] \in Nat
    BY <1>5, TypeStep DEF Users
  <2>2. Exists(who'[r]) => who'[r] <= lastUser
    <3>1. \A u \in Users : users[u] # None => u <= lastUser
      BY <1>1 DEF Created
    <3> QED
      BY <2>1, <3>1 DEF Exists
  <2>3. who'[r] = who[r] => who'[r] <= lastUser
    BY <1>5 DEF Created
  <2>4. who'[r] <= lastUser \/ who'[r] = lastUser'
    BY <1>5, <2>2, <2>3, NamesFrom
  <2> QED
    BY <1>1, <2>1, <2>4
<1> QED
  BY <1>2, <1>3, <1>4, <1>5 DEF Created

-----------------------------------------------------------------------------
(* Requests of a session that is over                                      *)

\* A user who is gone stays gone: ids are not issued again.
LEMMA GoneStays ==
  ASSUME TypeInv, Created, [Next]_vars, NEW u \in Users, u <= lastUser, ~Exists(u)
  PROVE  ~Exists(u)'
<1>1. u \in Nat /\ lastUser \in Nat
  BY SessionsAssumption DEF TypeInv, TypeOK, Users, SessionsAssumption
<1>2. u # lastUser + 1
  BY <1>1
<1> QED
  BY <1>2, UsersFrom DEF Exists

\* The token a request was sent with has been born, and once its session is over
\* it is over for good.
LEMMA OverStays ==
  ASSUME TypeInv, Births, Created, [Next]_vars, NEW t \in Tokens, Over(t),
         NEW r \in Requests, req[r] # None, req[r].sent = t
  PROVE  Over(t)'
<1>1. SUFFICES ASSUME sessions'[t] # None, ~sessions'[t].expired
               PROVE  users'[sessions'[t].user] = None
  BY DEF Over, Live, Exists
<1>2. ~Unborn(t)
  BY DEF Births, Untouched
<1>3. /\ sessions[t] # None /\ sessions'[t].user = sessions[t].user
      /\ sessions[t].expired => sessions'[t].expired
  BY <1>1, <1>2, RowsFrom, CreatedUnborn
<1>4. sessions[t].user \in Users /\ sessions[t].user <= lastUser
  BY <1>3 DEF Created, TypeInv, TypeOK, OrNone, Rows
<1>5. t # None
  BY SessionsAssumption DEF SessionsAssumption
<1>6. ~Exists(sessions[t].user)
  BY <1>1, <1>3, <1>5 DEF Over, Live
<1>7. PICK u \in Users : u = sessions[t].user
  BY <1>4
<1>8. ~Exists(u)'
  BY <1>4, <1>6, <1>7, GoneStays
<1> QED
  BY <1>3, <1>7, <1>8 DEF Exists

\* Only its own steps change where a request is and what it holds.
LEMMA OwnSteps ==
  ASSUME TypeInv, [Next]_vars, NEW r \in Requests,
         ~Serve(r), ~ \E q \in Asked : Begin(r, q)
  PROVE  \/ UNCHANGED <<pc[r], req[r], ctx[r]>> /\ (r \in doomed' => r \in doomed)
         \/ pc'[r] = "idle"
<1> USE DEF TypeInv, TypeOK, OrNone, Goto
<1> DEFINE Same == UNCHANGED <<pc[r], req[r], ctx[r]>> /\ (r \in doomed' => r \in doomed)
<1>1. ASSUME NEW q \in Requests \ {r}, Serve(q) PROVE Same
  BY <1>1
  DEF Serve, GetSession, GetUserByID, RenderPage, RenderOwn, LoginLookup, RegisterLookup,
      CreateUser, CreateSession, Logout, Respond, ClearFlash, SetFlash
<1>2. ASSUME NEW q \in Requests \ {r}, NEW x \in Asked, Begin(q, x) PROVE Same
  BY <1>2 DEF Begin
<1>3. \/ \E u \in Users : DeleteUser(u)
      \/ \E t \in Tokens : Expire(t)
      \/ PruneExpiredSessions \/ UNCHANGED vars
      => Same
  BY DEF DeleteUser, Expire, PruneExpiredSessions, vars
<1>4. Crash => pc'[r] = "idle"
  BY DEF Crash
<1> QED
  BY <1>1, <1>2, <1>3, <1>4 DEF Next

\* A request whose session was over when it began finds that out.
LEMMA DoomsStep == ASSUME TypeInv, Births, Created, Dooms, [Next]_vars PROVE Dooms'
<1> USE SessionsAssumption DEF SessionsAssumption, TypeInv, TypeOK, OrNone, Goto, tables
<1>1. ASSUME NEW r \in Requests, r \in doomed', NEW q \in Asked, Begin(r, q)
      PROVE  DoomedOf(r)'
  <2>1. /\ req'[r] = q /\ ctx'[r] = None
        /\ pc'[r] = IF q.sent = None THEN "serve" ELSE "session"
        /\ Over(q.sent) /\ UNCHANGED <<users, sessions>>
    BY <1>1 DEF Begin, Control, ControlOf
  <2> QED
    BY <2>1 DEF DoomedOf, Over, Live, Exists
<1>2. ASSUME NEW r \in Requests, r \in doomed', Serve(r) PROVE DoomedOf(r)'
  <2>1. DoomedOf(r)
    BY <1>2
    DEF Dooms, Serve, GetSession, GetUserByID, RenderPage, RenderOwn, LoginLookup,
        RegisterLookup, CreateUser, CreateSession, Logout, Respond, ClearFlash, SetFlash
  <2>2. CASE GetSession(r)
    <3>1. /\ UNCHANGED <<users, sessions>> /\ req[r].sent \in Tokens
          /\ Over(req[r].sent) /\ ctx[r] = None
      BY <2>1, <2>2 DEF GetSession, DoomedOf, Control, ControlOf, Asked
    <3>2. CASE /\ Live(req[r].sent) /\ pc'[r] = "user"
               /\ ctx'[r].user = sessions[req[r].sent].user
      BY <3>1, <3>2 DEF DoomedOf, Over, Exists
    <3>3. CASE pc'[r] = "serve" /\ ctx'[r] = None
      BY <3>3 DEF DoomedOf
    <3> QED
      BY <2>2, <3>1, <3>2, <3>3 DEF GetSession
  <2>3. CASE GetUserByID(r)
    BY <2>1, <2>3 DEF GetUserByID, DoomedOf
  <2>4. CASE \/ RenderPage(r) \/ RenderOwn(r) \/ ClearFlash(r) \/ SetFlash(r)
             \/ LoginLookup(r) \/ RegisterLookup(r) \/ CreateUser(r) \/ CreateSession(r)
             \/ Logout(r) \/ Respond(r)
    <3>1. /\ pc[r] \notin {"idle", "session", "user"}
          /\ pc'[r] \notin {"session", "user"}
          /\ ctx'[r] = ctx[r] \/ ctx'[r] = None
      BY <2>4
      DEF RenderPage, RenderOwn, LoginLookup, RegisterLookup, CreateUser, CreateSession,
          Logout, Respond, ClearFlash, SetFlash, Redirects
    <3> QED
      BY <2>1, <3>1 DEF DoomedOf
  <2> QED
    BY <1>2, <2>2, <2>3, <2>4 DEF Serve
<1>3. ASSUME NEW r \in Requests, r \in doomed, DoomedOf(r),
             UNCHANGED <<pc[r], req[r], ctx[r]>>
      PROVE  DoomedOf(r)'
  <2>1. CASE pc[r] = "session"
    <3>1. req[r] # None /\ req[r].sent \in Tokens /\ ctx[r] = None /\ Over(req[r].sent)
      BY <1>3, <2>1 DEF DoomedOf, Control, ControlOf, Asked
    <3>2. PICK t \in Tokens : t = req[r].sent
      BY <3>1
    <3>3. Over(t)'
      BY <3>1, <3>2, OverStays
    <3> QED
      BY <1>3, <2>1, <3>1, <3>2, <3>3 DEF DoomedOf, Over, Live, Exists
  <2>2. CASE pc[r] = "user"
    <3>1. ctx[r].user \in Users /\ ctx[r].user <= lastUser /\ ~Exists(ctx[r].user)
      BY <1>3, <2>2 DEF DoomedOf, Created, Control, ControlOf, Contexts
    <3>2. PICK u \in Users : u = ctx[r].user
      BY <3>1
    <3>3. ~Exists(u)'
      BY <3>1, <3>2, GoneStays
    <3> QED
      BY <1>3, <2>2, <3>2, <3>3 DEF DoomedOf, Exists
  <2>3. CASE pc[r] \notin {"session", "user"}
    BY <1>3, <2>3 DEF DoomedOf
  <2> QED
    BY <2>1, <2>2, <2>3
<1>4. ASSUME NEW r \in Requests, pc'[r] = "idle" PROVE DoomedOf(r)'
  BY <1>4 DEF DoomedOf
<1>5. doomed' \subseteq Requests
  BY TypeStep
<1> QED
  BY <1>1, <1>2, <1>3, <1>4, <1>5, OwnSteps DEF Dooms

\* A request that is sent after its session ended is served as nobody's
\* (NoServiceAfterEnd): the row is gone, is past its time or names a user who is
\* gone, and nothing the other requests do changes that.
THEOREM SessionsServeTheLiving == Spec => []NoServiceAfterEnd
<1> DEFINE Inv == TypeInv /\ Births /\ Created /\ Dooms
<1>1. Init => Inv
  <2>1. Init => Created
    BY SessionsAssumption DEF SessionsAssumption, Init, Created, Users
  <2>2. Init => Dooms
    BY DEF Init, Dooms
  <2> QED
    BY <2>1, <2>2, TypeInit, BirthsInit
<1>2. Inv /\ [Next]_vars => Inv'
  BY TypeStep, BirthsStep, CreatedStep, DoomsStep
<1>3. Inv => NoServiceAfterEnd
  BY DEF Dooms, DoomedOf, NoServiceAfterEnd
<1> QED
  BY <1>1, <1>2, <1>3, PTL DEF Spec

-----------------------------------------------------------------------------
(* Flash messages                                                          *)

\* A message is unsaid until its redirect: nobody has drawn it, or a request has
\* it in reserve. No row has it then.
Holds(r, n)   == pc[r] \notin {"idle", "reply"} /\ req[r].note = n
Unsaid(n)     == n \notin issued \/ \E r \in Requests : Holds(r, n)
RowHas(t, n)  == sessions[t] # None /\ sessions[t].flash = n
Notices ==
  /\ \A n \in Notes : Unsaid(n) => n \notin alone /\ \A t \in Tokens : ~RowHas(t, n)
  /\ \A r \in Requests : req[r] # None /\ req[r].note # None => req[r].note \in issued
  /\ \A q, r \in Requests : \A n \in Notes : Holds(q, n) /\ Holds(r, n) => q = r

\* A message set while nobody else was on the session is the one every request
\* that came later has read, and what is to be cleared has been shown.
OnRow(r, t) == ctx[r] # None /\ ctx[r].token = t /\ pc[r] # "reply"
Copies ==
  /\ \A t \in Tokens : \A n \in alone : RowHas(t, n) =>
       \A r \in Requests : OnRow(r, t) => ctx[r].flash = n
  /\ \A r \in Requests : pc[r] = "clear" => ctx[r].flash \in shown

\* A message in a row was there before or is the one of the redirect under way;
\* it goes with the row, for another message, or when a page clears it.
LEMMA FlashFrom ==
  ASSUME TypeInv, Births, [Next]_vars, NEW t \in Tokens, sessions'[t] # None
  PROVE  \/ sessions[t] # None /\ sessions'[t].flash = sessions[t].flash
         \/ \E r \in Requests :
              \/ SetFlash(r) /\ ctx[r] # None /\ ctx[r].token = t
                   /\ sessions'[t].flash = req[r].note
              \/ ClearFlash(r) /\ ctx[r].token = t /\ sessions'[t].flash = None
         \/ sessions[t] = None /\ sessions'[t].flash = None
<1> USE DEF TypeInv, TypeOK, OrNone, tables
<1> DEFINE Stays    == sessions[t] # None /\ sessions'[t].flash = sessions[t].flash
           Set(r)   == SetFlash(r) /\ ctx[r] # None /\ ctx[r].token = t
                         /\ sessions'[t].flash = req[r].note
           Clear(r) == ClearFlash(r) /\ ctx[r].token = t /\ sessions'[t].flash = None
           Born     == sessions[t] = None /\ sessions'[t].flash = None
<1>1. UNCHANGED sessions => Stays
  OBVIOUS
<1>2. ASSUME NEW r \in Requests, Serve(r) PROVE Stays \/ Set(r) \/ Clear(r) \/ Born
  <2>1. CASE CreateSession(r)
    <3>1. Untouched(req[r].token)
      BY <2>1, CreatedUnborn DEF Births, CreateSession, Control, ControlOf, Asked
    <3>2. CASE t = req[r].token
      BY <2>1, <3>1, <3>2 DEF CreateSession, Untouched
    <3>3. CASE t # req[r].token
      BY <2>1, <3>3 DEF CreateSession
    <3> QED
      BY <3>2, <3>3
  <2>2. CASE \/ GetSession(r) \/ GetUserByID(r) \/ RenderPage(r) \/ RenderOwn(r)
             \/ LoginLookup(r) \/ RegisterLookup(r) \/ CreateUser(r) \/ Respond(r)
    <3>1. UNCHANGED sessions
      BY <2>2
      DEF GetSession, GetUserByID, RenderPage, RenderOwn, LoginLookup, RegisterLookup,
          CreateUser, Respond
    <3> QED
      BY <1>1, <3>1
  <2>3. CASE ClearFlash(r)
    <3>1. \/ sessions'[t] = sessions[t]
          \/ /\ ctx[r].token = t /\ sessions[t] # None
             /\ sessions'[t] = [sessions[t] EXCEPT !.flash = None]
      BY <2>3 DEF ClearFlash
    <3>2. sessions[t] # None => sessions[t] \in Rows
      OBVIOUS
    <3> QED
      BY <2>3, <3>1, <3>2 DEF Rows
  <2>4. CASE SetFlash(r)
    <3>1. \/ sessions'[t] = sessions[t]
          \/ /\ ctx[r] # None /\ ctx[r].token = t /\ sessions[t] # None
             /\ sessions'[t] = [sessions[t] EXCEPT !.flash = req[r].note]
      BY <2>4 DEF SetFlash
    <3>2. sessions[t] # None => sessions[t] \in Rows
      OBVIOUS
    <3> QED
      BY <2>4, <3>1, <3>2 DEF Rows
  <2>5. CASE Logout(r)
    BY <2>5 DEF Logout
  <2> QED
    BY <1>2, <2>1, <2>2, <2>3, <2>4, <2>5 DEF Serve
<1>3. ASSUME NEW r \in Requests, NEW q \in Asked, Begin(r, q) PROVE Stays
  BY <1>1, <1>3 DEF Begin
<1>4. ASSUME NEW u \in Users, DeleteUser(u) PROVE Stays
  BY <1>1, <1>4 DEF DeleteUser
<1>5. ASSUME NEW x \in Tokens, Expire(x) PROVE Stays
  <2>1. sessions'[t] = sessions[t] \/ sessions'[t] = [sessions[t] EXCEPT !.expired = TRUE]
    BY <1>5 DEF Expire
  <2>2. sessions[t] # None
    BY <1>5 DEF Expire, Live
  <2>3. sessions[t] \in Rows
    BY <2>2
  <2> QED
    BY <2>1, <2>2, <2>3 DEF Rows
<1>6. CASE PruneExpiredSessions
  BY <1>6 DEF PruneExpiredSessions
<1>7. CASE Crash \/ UNCHANGED vars
  BY <1>1, <1>7 DEF Crash, vars
<1> QED
  BY <1>2, <1>3, <1>4, <1>5, <1>6, <1>7 DEF Next

\* Nobody has said anything yet.
LEMMA NoticesInit == Init => Notices /\ Copies
  BY SessionsAssumption
  DEF SessionsAssumption, Init, Notices, Unsaid, Holds, RowHas, Copies

\* A request that is served goes on, and the others stay where they are.
LEMMA Moves ==
  ASSUME TypeInv, NEW r \in Requests, Serve(r)
  PROVE  /\ pc[r] # "idle" /\ pc'[r] # pc[r] /\ (pc[r] = "reply" => pc'[r] = "idle")
         /\ pc'[r] # "idle" => req'[r] = req[r]
         /\ pc'[r] = "idle" => req'[r] = None /\ ctx'[r] = None
         /\ \A q \in Requests \ {r} : pc'[q] = pc[q] /\ req'[q] = req[q] /\ ctx'[q] = ctx[q]
<1> USE DEF TypeInv, TypeOK, Goto, tables
<1>1. CASE GetSession(r) \/ GetUserByID(r) \/ RenderPage(r) \/ RenderOwn(r) \/ ClearFlash(r)
           \/ SetFlash(r)
  BY <1>1 DEF GetSession, GetUserByID, RenderPage, RenderOwn, ClearFlash, SetFlash, Redirects
<1>2. CASE LoginLookup(r) \/ RegisterLookup(r) \/ CreateUser(r) \/ CreateSession(r)
           \/ Logout(r) \/ Respond(r)
  BY <1>2 DEF LoginLookup, RegisterLookup, CreateUser, CreateSession, Logout, Respond
<1> QED
  BY <1>1, <1>2 DEF Serve

\* Only a redirect sets a message.
LEMMA AloneFrom ==
  ASSUME TypeInv, [Next]_vars, NEW n \in Notes, n \in alone', n \notin alone
  PROVE  \E r \in Requests : SetFlash(r) /\ ctx[r] # None /\ req[r].note = n
<1> USE DEF TypeInv, TypeOK, tables
<1>1. ASSUME NEW r \in Requests, Serve(r)
      PROVE  SetFlash(r) /\ ctx[r] # None /\ req[r].note = n
  <2>1. ~SetFlash(r) => UNCHANGED alone
    BY <1>1
    DEF Serve, GetSession, GetUserByID, RenderPage, RenderOwn, LoginLookup, RegisterLookup,
        CreateUser, CreateSession, Logout, Respond, ClearFlash
  <2>2. SetFlash(r) => ctx[r] # None /\ req[r].note = n
    BY DEF SetFlash
  <2> QED
    BY <2>1, <2>2
<1>2. ASSUME NEW r \in Requests, NEW q \in Asked, Begin(r, q) PROVE FALSE
  BY <1>2 DEF Begin
<1>3. ~ \/ \E u \in Users : DeleteUser(u)
        \/ \E x \in Tokens : Expire(x)
        \/ PruneExpiredSessions \/ Crash \/ UNCHANGED vars
  BY DEF DeleteUser, Expire, PruneExpiredSessions, Crash, vars
<1> QED
  BY <1>1, <1>2, <1>3 DEF Next

\* A redirect has its message in reserve, and no longer after its step.
LEMMA SetHolds ==
  ASSUME TypeInv, NEW r \in Requests, SetFlash(r)
  PROVE  /\ req[r] # None /\ req[r].note \in Notes /\ Holds(r, req[r].note)
         /\ pc'[r] = "reply" /\ UNCHANGED <<req, ctx, issued>>
         /\ \A q \in Requests \ {r} : pc'[q] = pc[q]
  BY DEF SetFlash, Redirects, TypeInv, TypeOK, Control, ControlOf, Asked, OrNone, Goto, Holds

\* Steps that draw no message and set none leave the unsaid unsaid.
LEMMA NoticesFrame ==
  ASSUME TypeInv, Births, Notices, [Next]_vars, UNCHANGED issued,
         \A r \in Requests : ~SetFlash(r),
         \A q \in Requests : req'[q] = req[q] \/ req'[q] = None,
         \A q \in Requests : \A n \in Notes : Holds(q, n)' => Holds(q, n)
  PROVE  Notices'
<1>1. \A n \in Notes : Unsaid(n)' => Unsaid(n)
  BY DEF Unsaid
<1>2. ASSUME NEW n \in Notes, NEW t \in Tokens, ~RowHas(t, n) PROVE ~RowHas(t, n)'
  <2>1. n # None
    BY SessionsAssumption DEF SessionsAssumption
  <2> QED
    BY <1>2, <2>1, FlashFrom DEF RowHas
<1>3. \A n \in Notes : n \notin alone => n \notin alone'
  BY AloneFrom
<1> QED
  BY <1>1, <1>2, <1>3 DEF Notices

\* Every step keeps what is said of messages.
LEMMA NoticesStep == ASSUME TypeInv, Births, Notices, [Next]_vars PROVE Notices'
<1> USE DEF TypeInv, TypeOK
<1>1. ASSUME NEW r \in Requests, SetFlash(r) PROVE Notices'
  <2> DEFINE n == req[r].note
  <2>1. /\ req[r] # None /\ n \in Notes /\ Holds(r, n) /\ n \in issued
        /\ pc'[r] = "reply" /\ UNCHANGED <<req, ctx, issued>>
        /\ \A q \in Requests \ {r} : pc'[q] = pc[q]
    BY <1>1, SetHolds, SessionsAssumption DEF Notices, SessionsAssumption
  <2>2. \A q \in Requests : \A m \in Notes : Holds(q, m)' => Holds(q, m) /\ q # r
    BY <2>1 DEF Holds
  <2>3. ASSUME NEW m \in Notes, Unsaid(m)' PROVE Unsaid(m) /\ m # n
    <3>1. Unsaid(m)
      BY <2>1, <2>2, <2>3 DEF Unsaid
    <3>2. ASSUME m = n PROVE FALSE
      <4>1. m \in issued' /\ Holds(r, m)
        BY <2>1, <3>2
      <4>2. PICK q \in Requests : Holds(q, m)'
        BY <2>3, <4>1 DEF Unsaid
      <4> QED
        BY <2>2, <4>1, <4>2 DEF Notices
    <3> QED
      BY <2>3, <3>1, <3>2
  <2>4. alone' \subseteq alone \cup {n}
    BY <1>1 DEF SetFlash
  <2>5. ASSUME NEW m \in Notes, m # n, NEW t \in Tokens, ~RowHas(t, m) PROVE ~RowHas(t, m)'
    <3>1. m # None
      BY SessionsAssumption DEF SessionsAssumption
    <3>2. \A q \in Requests : SetFlash(q) => q = r
      BY <1>1, <2>1, SetHolds DEF Holds
    <3> QED
      BY <2>5, <3>1, <3>2, FlashFrom DEF RowHas
  <2>6. \A m \in Notes : Unsaid(m)' => m \notin alone' /\ \A t \in Tokens : ~RowHas(t, m)'
    BY <2>3, <2>4, <2>5 DEF Notices
  <2> QED
    BY <2>1, <2>2, <2>6 DEF Notices
<1>2. ASSUME NEW r \in Requests, NEW q \in Asked, Begin(r, q) PROVE Notices'
  <2>1. /\ q # None /\ q.note \in Notes \cup {None} /\ q.note \notin issued
        /\ req'[r] = q /\ \A x \in Requests \ {r} : req'[x] = req[x] /\ pc'[x] = pc[x]
        /\ UNCHANGED <<sessions, alone>>
    BY <1>2, SessionsAssumption DEF Begin, Asked, OrNone, Goto, tables, SessionsAssumption
  <2>2. issued' = issued \cup ({q.token, q.note} \ {None})
    BY <1>2 DEF Begin
  <2>3. ASSUME NEW m \in Notes, Unsaid(m)' PROVE Unsaid(m)
    BY <2>1, <2>2, <2>3 DEF Unsaid, Holds
  <2>4. ASSUME NEW x \in Requests, req'[x] # None, req'[x].note # None
        PROVE req'[x].note \in issued'
    BY <2>1, <2>2, <2>4 DEF Notices
  <2>5. ASSUME NEW x \in Requests, NEW y \in Requests, NEW m \in Notes,
               Holds(x, m)', Holds(y, m)'
        PROVE x = y
    <3>1. ASSUME NEW z \in Requests \ {r}, Holds(z, m)' PROVE m \in issued /\ Holds(z, m)
      <4>1. Holds(z, m) /\ req[z] # None /\ req[z].note # None
        BY <2>1, <3>1, SessionsAssumption DEF Holds, Control, ControlOf, SessionsAssumption
      <4> QED
        BY <4>1 DEF Notices, Holds
    <3>2. Holds(r, m)' => m \notin issued
      BY <2>1 DEF Holds
    <3> QED
      BY <2>5, <3>1, <3>2 DEF Notices
  <2> QED
    BY <2>1, <2>3, <2>4, <2>5 DEF Notices, RowHas
<1>3. ASSUME NEW r \in Requests, Serve(r), \A q \in Requests : ~SetFlash(q) PROVE Notices'
  <2>1. UNCHANGED issued
    BY <1>3
    DEF Serve, GetSession, GetUserByID, RenderPage, RenderOwn, LoginLookup, RegisterLookup,
        CreateUser, CreateSession, Logout, Respond, ClearFlash, SetFlash
  <2>2. \A q \in Requests : req'[q] = req[q] \/ req'[q] = None
    BY <1>3, Moves
  <2>3. \A q \in Requests : \A m \in Notes : Holds(q, m)' => Holds(q, m)
    BY <1>3, Moves DEF Holds
  <2>4. [Next]_vars
    BY <1>3 DEF Next
  <2> QED
    BY <1>3, <2>1, <2>2, <2>3, <2>4, NoticesFrame
<1>4. ASSUME \A q \in Requests : ~SetFlash(q),
             \/ \E u \in Users : DeleteUser(u)
             \/ \E t \in Tokens : Expire(t)
             \/ PruneExpiredSessions \/ Crash \/ UNCHANGED vars
      PROVE  Notices'
  <2>1. UNCHANGED issued /\ \A q \in Requests : req'[q] = req[q] \/ req'[q] = None
    BY <1>4 DEF DeleteUser, Expire, PruneExpiredSessions, Crash, vars
  <2>2. \A q \in Requests : \A m \in Notes : Holds(q, m)' => Holds(q, m)
    BY <1>4 DEF DeleteUser, Expire, PruneExpiredSessions, Crash, vars, Holds
  <2> QED
    BY <1>4, <2>1, <2>2, NoticesFrame
<1> QED
  BY <1>1, <1>2, <1>3, <1>4 DEF Next

\* What a request has read is what it had or, if it is just reading, the row's.
LEMMA CopyFrom ==
  ASSUME TypeInv, [Next]_vars, NEW r \in Requests, ctx'[r] # None, pc'[r] # "reply"
  PROVE  \/ ctx'[r] = ctx[r] /\ pc[r] # "reply"
         \/ /\ ctx'[r].token \in Tokens
            /\ ctx'[r].flash = sessions[ctx'[r].token].flash
<1> USE DEF TypeInv, TypeOK, OrNone, tables
<1>1. CASE Serve(r)
  <2>1. CASE GetSession(r)
    BY <1>1, <2>1, Moves DEF GetSession, Control, ControlOf, Asked
  <2>2. ~GetSession(r) => ctx'[r] = ctx[r] \/ ctx'[r] = None
    BY <1>1
    DEF Serve, GetUserByID, RenderPage, RenderOwn, LoginLookup, RegisterLookup, CreateUser,
        CreateSession, Logout, Respond, ClearFlash, SetFlash
  <2> QED
    BY <1>1, <2>1, <2>2, Moves
<1>2. ASSUME NEW q \in Asked, Begin(r, q) PROVE FALSE
  BY <1>2 DEF Begin, Control, ControlOf
<1>3. CASE ~Serve(r) /\ ~ \E q \in Asked : Begin(r, q)
  <2>1. pc'[r] = "idle" => ctx'[r] = None
    BY TypeStep DEF Control, ControlOf
  <2> QED
    BY <1>3, <2>1, OwnSteps
<1> QED
  BY <1>1, <1>2, <1>3

\* A request on the row of a message that was set while nobody else was on it has
\* read that message, and what is to be cleared has been shown.
LEMMA CopiesStep == ASSUME TypeInv, Births, Notices, Copies, [Next]_vars PROVE Copies'
<1> USE DEF TypeInv, TypeOK, OrNone
<1>1. ASSUME NEW t \in Tokens, NEW n \in alone', RowHas(t, n)',
             NEW r \in Requests, OnRow(r, t)'
      PROVE  ctx'[r].flash = n
  <2>1. n \in Notes /\ n # None
    BY <1>1, TypeStep, SessionsAssumption DEF SessionsAssumption
  <2>2. ASSUME NEW q \in Requests, SetFlash(q), req[q].note = n
        PROVE  n \notin alone /\ ~RowHas(t, n)
    BY <2>1, <2>2, SetHolds DEF Notices, Unsaid
  <2>3. CASE RowHas(t, n)
    <3>1. n \in alone
      BY <2>1, <2>2, <2>3, AloneFrom
    <3>2. CASE ctx'[r] = ctx[r] /\ pc[r] # "reply"
      BY <1>1, <2>3, <3>1, <3>2 DEF Copies, OnRow
    <3>3. CASE ctx'[r].flash = sessions[ctx'[r].token].flash
      BY <1>1, <2>3, <3>3 DEF OnRow, RowHas
    <3> QED
      BY <1>1, <3>2, <3>3, CopyFrom DEF OnRow
  <2>4. ASSUME NEW q \in Requests, SetFlash(q), ctx[q] # None, ctx[q].token = t,
               req[q].note = n
        PROVE  FALSE
    <3>1. n \notin alone
      BY <2>2, <2>4
    <3>2. ~OnSession(t, q)
      BY <1>1, <2>4, <3>1 DEF SetFlash
    <3>3. q # r /\ ctx'[r] = ctx[r]
      BY <1>1, <2>4, SetHolds DEF OnRow
    <3> QED
      BY <1>1, <3>2, <3>3 DEF OnSession, OnRow
  <2> QED
    BY <1>1, <2>1, <2>3, <2>4, FlashFrom DEF RowHas
<1>2. ASSUME NEW r \in Requests, pc'[r] = "clear" PROVE ctx'[r].flash \in shown'
  <2>1. shown \subseteq shown'
    BY DEF Next, vars, Begin, Serve, GetSession, GetUserByID, RenderPage, RenderOwn, LoginLookup,
       RegisterLookup, CreateUser, CreateSession, Logout, Respond, ClearFlash, SetFlash,
       DeleteUser, Expire, PruneExpiredSessions, Crash
  <2>2. CASE Serve(r)
    <3>1. RenderPage(r)
      BY <1>2, <2>2
      DEF Serve, GetSession, GetUserByID, RenderOwn, LoginLookup, RegisterLookup, CreateUser,
          CreateSession, Logout, Respond, ClearFlash, SetFlash, Goto
    <3> QED
      BY <1>2, <3>1 DEF RenderPage, Goto
  <2>3. ASSUME NEW q \in Asked, Begin(r, q) PROVE FALSE
    BY <1>2, <2>3 DEF Begin, Goto
  <2>4. CASE ~Serve(r) /\ ~ \E q \in Asked : Begin(r, q)
    BY <1>2, <2>1, <2>4, OwnSteps DEF Copies
  <2> QED
    BY <2>2, <2>3, <2>4
<1> QED
  BY <1>1, <1>2 DEF Copies

\* A message set while nobody else was on the session is only taken off it after a
\* page has shown it, or by a redirect that was handed it and puts its own in its
\* place (FlashIsSeen): every request on the row has read it, and ClearFlash
\* follows the page.
THEOREM FlashesAreSeen == Spec => FlashIsSeen
<1> DEFINE Inv == TypeInv /\ Births /\ Notices /\ Copies
           Kept == \A t \in Tokens, note \in alone :
                     /\ sessions[t] # None /\ sessions[t].flash = note
                     /\ sessions'[t] # None /\ sessions'[t].flash # note
                     => note \in shown \/ \E r \in Requests : Supersedes(r, t, note)
<1>1. Init => Inv
  BY TypeInit, BirthsInit, NoticesInit
<1>2. Inv /\ [Next]_vars => Inv'
  BY TypeStep, BirthsStep, NoticesStep, CopiesStep
<1>3. ASSUME Inv, [Next]_vars PROVE Kept
  <2> SUFFICES ASSUME NEW t \in Tokens, NEW note \in alone,
                      sessions[t] # None, sessions[t].flash = note,
                      sessions'[t] # None, sessions'[t].flash # note
               PROVE  note \in shown \/ \E r \in Requests : Supersedes(r, t, note)
    OBVIOUS
  <2>1. note \in Notes /\ None \notin Notes
    BY <1>3, SessionsAssumption DEF TypeInv, TypeOK, SessionsAssumption
  <2>2. ASSUME NEW r \in Requests, OnRow(r, t) PROVE ctx[r].flash = note
    BY <1>3, <2>2 DEF Copies, RowHas
  <2>3. PICK r \in Requests :
          \/ SetFlash(r) /\ ctx[r] # None /\ ctx[r].token = t /\ sessions'[t].flash = req[r].note
          \/ ClearFlash(r) /\ ctx[r].token = t
    BY <1>3, <2>1, FlashFrom
  <2>4. CASE SetFlash(r) /\ ctx[r] # None /\ ctx[r].token = t /\ sessions'[t].flash = req[r].note
    <3>1. Redirects(r) /\ pc[r] # "reply"
      BY <2>4 DEF SetFlash, Redirects
    <3>2. ctx[r].flash = note
      BY <2>2, <2>4, <3>1 DEF OnRow
    <3> QED
      BY <2>4, <3>1, <3>2 DEF Supersedes
  <2>5. CASE ClearFlash(r) /\ ctx[r].token = t
    <3>1. OnRow(r, t) /\ pc[r] = "clear"
      BY <1>3, <2>5 DEF ClearFlash, OnRow, TypeInv, Control, ControlOf
    <3> QED
      BY <1>3, <2>2, <3>1 DEF Copies
  <2> QED
    BY <2>3, <2>4, <2>5
<1>4. Spec => []Inv
  BY <1>1, <1>2, PTL DEF Spec
<1>5. Inv /\ [Next]_vars => [Kept]_vars
  BY <1>3
<1> QED
  BY <1>4, <1>5, PTL DEF Spec, FlashIsSeen
=============================================================================
