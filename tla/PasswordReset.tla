---------------------------- MODULE PasswordReset ----------------------------
(***************************************************************************)
(* Password reset of freeride-watcher: concurrent requests that ask for a  *)
(* link (handleForgotSubmit) and that set a password with one              *)
(* (handleResetSubmit), on the tables users and reset_tokens, beside       *)
(* accounts that are registered and deleted. One step per SQL statement.   *)
(***************************************************************************)
EXTENDS Naturals, FiniteSets

CONSTANTS
  Requests,  \* requests under way at a time
  Emails,
  Links,     \* reset tokens: GenerateToken returns each once
  Log,       \* where a link goes that could not be mailed
  MaxUsers,  \* bound on the accounts ever created
  Faults,    \* methods that may fail, and "Crash"
  None

Users == 1 .. MaxUsers

OrNone(S) == S \cup {None}
Account == [email : Emails, by : OrNone(Links), life : Users]
Row     == [user : Users, used : BOOLEAN, expired : BOOLEAN]
Asked   == [email : OrNone(Emails), link : OrNone(Links)]

ASSUME ResetAssumption ==
  /\ MaxUsers \in Nat
  /\ None \notin Users \cup Links \cup Emails \cup {Log}
  /\ None \notin Account \cup Row \cup Asked
  /\ Log \notin Emails

VARIABLES
  users,     \* table users: e-mail, the link that set the password, or None;
             \* and, as history, which registration this is
  lastUser,  \* the AUTOINCREMENT of users
  links,     \* table reset_tokens: the row of each token, or None
  mail,      \* where each link went: an address, the log, or None
  drawn,     \* tokens GenerateToken has returned
  pc,
  req,       \* the request a goroutine serves
  who,       \* the user id it has read, or None
  born,      \* history: registrations so far
  life,      \* history: the registration a request for a link has found
  meant,     \* history: the registration each link was asked for
  stored,    \* history: links through which a password was stored
  answered,  \* history: links whose reset was answered "Password updated"
  unmarked,  \* history: links MarkResetTokenUsed failed for
  late       \* history: requests sent when their link was closed

tables  == <<users, lastUser, links>>
request == <<pc, req, who, life, late>>
history == <<born, meant, stored, answered, unmarked>>
vars    == <<tables, mail, drawn, request, history>>

MayFail(call) == call \in Faults
Exists(u) == users[u] # None
Live(l)   == links[l] # None /\ ~links[l].used /\ ~links[l].expired

\* A link nobody may use any more, as far as its owner can know.
Closed(l) ==
  \/ links[l] # None /\ (links[l].used \/ links[l].expired)
  \/ l \in answered \ unmarked

Init ==
  /\ users = [u \in Users |-> None] /\ lastUser = 0
  /\ links = [l \in Links |-> None] /\ mail = [l \in Links |-> None] /\ drawn = {}
  /\ pc = [r \in Requests |-> "idle"]
  /\ req = [r \in Requests |-> None] /\ who = [r \in Requests |-> None]
  /\ born = 0 /\ life = [r \in Requests |-> 0] /\ meant = [l \in Links |-> 0]
  /\ stored = {} /\ answered = {} /\ unmarked = {} /\ late = {}

\* The request goes on with this step, knowing this user.
Goto(r, step, u) ==
  /\ pc' = [pc EXCEPT ![r] = step] /\ who' = [who EXCEPT ![r] = u]
  /\ UNCHANGED <<req, life, late>>

\* The request has been answered, and nothing of it is left.
Done(r) ==
  /\ pc' = [pc EXCEPT ![r] = "idle"]
  /\ req' = [req EXCEPT ![r] = None] /\ who' = [who EXCEPT ![r] = None]
  /\ life' = [life EXCEPT ![r] = 0] /\ late' = late \ {r}

-----------------------------------------------------------------------------
(* handleForgotSubmit.                                                     *)

Forgot(r, e) ==
  /\ pc[r] = "idle"
  /\ pc' = [pc EXCEPT ![r] = "find"]
  /\ req' = [req EXCEPT ![r] = [email |-> e, link |-> None]]
  /\ UNCHANGED <<tables, mail, drawn, who, life, late, history>>

\* Mutant: no row gives an empty user, whose id is 0, instead of none.
GetUserByEmailEmpty(r) ==
  /\ pc[r] = "find"
  /\ pc' = [pc EXCEPT ![r] = "create"]
  /\ \E u \in 0 .. MaxUsers :
       /\ IF \E v \in Users : Exists(v) /\ users[v].email = req[r].email
          THEN u # 0 /\ Exists(u) /\ users[u].email = req[r].email
          ELSE u = 0
       /\ who' = [who EXCEPT ![r] = u]
       /\ life' = [life EXCEPT ![r] = IF u = 0 THEN 0 ELSE users[u].life]
  /\ UNCHANGED <<tables, mail, drawn, req, late, history>>

\* The answer is the same whether there is an account or not.
GetUserByEmail(r) ==
  /\ pc[r] = "find"
  /\ \/ \E u \in Users :
          /\ Exists(u) /\ users[u].email = req[r].email
          /\ pc' = [pc EXCEPT ![r] = "create"]
          /\ who' = [who EXCEPT ![r] = u] /\ life' = [life EXCEPT ![r] = users[u].life]
          /\ UNCHANGED <<req, late>>
     \/ /\ MayFail("GetUserByEmail") \/ \A u \in Users : Exists(u) => users[u].email # req[r].email
        /\ Done(r)
  /\ UNCHANGED <<tables, mail, drawn, history>>

SaveLink(l, u) == links' = [links EXCEPT ![l] = [user |-> u, used |-> FALSE, expired |-> FALSE]]
SendNext(r, l) ==
  /\ pc' = [pc EXCEPT ![r] = "send"] /\ req' = [req EXCEPT ![r].link = l]
  /\ UNCHANGED <<who, life, late>>

\* Mutant: without the return, a link that was not saved is mailed.
CreateResetTokenGoesOn(r) ==
  /\ pc[r] = "create"
  /\ \E l \in Links \ drawn :
       /\ drawn' = drawn \cup {l}
       /\ meant' = [meant EXCEPT ![l] = life[r]]
       /\ SaveLink(l, who[r]) \/ (MayFail("CreateResetToken") /\ UNCHANGED links)
       /\ SendNext(r, l)
  /\ UNCHANGED <<users, lastUser, mail, born, stored, answered, unmarked>>

\* Without foreign keys the row is written though its user may be gone.
CreateResetToken(r) ==
  /\ pc[r] = "create"
  /\ \E l \in Links \ drawn :
       /\ drawn' = drawn \cup {l}
       /\ meant' = [meant EXCEPT ![l] = life[r]]
       /\ \/ SaveLink(l, who[r]) /\ SendNext(r, l)
          \/ MayFail("CreateResetToken") /\ Done(r) /\ UNCHANGED links
  /\ UNCHANGED <<users, lastUser, mail, born, stored, answered, unmarked>>

\* A link that cannot be mailed is written to the log.
Send(r) ==
  /\ pc[r] = "send"
  /\ \/ mail' = [mail EXCEPT ![req[r].link] = req[r].email]
     \/ MayFail("Send") /\ mail' = [mail EXCEPT ![req[r].link] = Log]
  /\ Done(r)
  /\ UNCHANGED <<tables, drawn, history>>

-----------------------------------------------------------------------------
(* handleResetSubmit.                                                      *)

\* Somebody who has the link sends a password that passes the form's checks.
Submit(r, l) ==
  /\ pc[r] = "idle" /\ mail[l] # None
  /\ pc' = [pc EXCEPT ![r] = "read"]
  /\ req' = [req EXCEPT ![r] = [email |-> None, link |-> l]]
  /\ late' = IF Closed(l) THEN late \cup {r} ELSE late
  /\ UNCHANGED <<tables, mail, drawn, who, life, history>>

\* Mutant: the query without its "used=0".
GetResetTokenUsed(r) ==
  /\ pc[r] = "read"
  /\ LET l == req[r].link IN
     IF links[l] # None /\ ~links[l].expired THEN Goto(r, "store", links[l].user) ELSE Done(r)
  /\ UNCHANGED <<tables, mail, drawn, history>>

\* The row, if it is neither used nor expired; hashing the password comes between
\* this statement and the next.
GetResetToken(r) ==
  /\ pc[r] = "read"
  /\ LET l == req[r].link IN
     \/ Live(l) /\ Goto(r, "store", links[l].user)
     \/ (~Live(l) \/ MayFail("GetResetToken")) /\ Done(r)
  /\ UNCHANGED <<tables, mail, drawn, history>>

\* Mutant: the error of the UPDATE is logged, and the handler goes on.
UpdateUserPasswordGoesOn(r) ==
  /\ pc[r] = "store"
  /\ LET u == who[r]
         l == req[r].link
     IN
     \/ /\ Exists(u)
        /\ users' = [users EXCEPT ![u].by = l] /\ stored' = stored \cup {l}
     \/ (~Exists(u) \/ MayFail("UpdateUserPassword")) /\ UNCHANGED <<users, stored>>
  /\ Goto(r, "mark", who[r])
  /\ UNCHANGED <<lastUser, links, mail, drawn, born, meant, answered, unmarked>>

\* An UPDATE of a user who is gone changes no row and is no error.
UpdateUserPassword(r) ==
  /\ pc[r] = "store"
  /\ LET u == who[r]
         l == req[r].link
     IN
     \/ /\ Exists(u)
        /\ users' = [users EXCEPT ![u].by = l] /\ stored' = stored \cup {l}
        /\ Goto(r, "mark", u)
     \/ ~Exists(u) /\ Goto(r, "mark", u) /\ UNCHANGED <<users, stored>>
     \/ MayFail("UpdateUserPassword") /\ Done(r) /\ UNCHANGED <<users, stored>>
  /\ UNCHANGED <<lastUser, links, mail, drawn, born, meant, answered, unmarked>>

\* Its error is dropped.
MarkResetTokenUsed(r) ==
  /\ pc[r] = "mark"
  /\ LET l == req[r].link IN
     \/ links' = [links EXCEPT ![l].used = TRUE] /\ UNCHANGED unmarked
     \/ MayFail("MarkResetTokenUsed") /\ unmarked' = unmarked \cup {l} /\ UNCHANGED links
  /\ Goto(r, "answer", who[r])
  /\ UNCHANGED <<users, lastUser, mail, drawn, born, meant, stored, answered>>

\* "Password updated. You can now log in."
Answer(r) ==
  /\ pc[r] = "answer"
  /\ answered' = answered \cup {req[r].link}
  /\ Done(r)
  /\ UNCHANGED <<tables, mail, drawn, born, meant, stored, unmarked>>

-----------------------------------------------------------------------------
(* What else touches the tables.                                           *)

NewAccount(u, e) ==
  /\ users' = [users EXCEPT ![u] = [email |-> e, by |-> None, life |-> born + 1]]
  /\ lastUser' = u /\ born' = born + 1

\* Mutant: without AUTOINCREMENT the id after the largest in the table.
RegisterReusesId(e) ==
  /\ born < MaxUsers
  /\ \A u \in Users : Exists(u) => users[u].email # e
  /\ \E u \in Users : /\ \A v \in u .. MaxUsers : ~Exists(v)
                      /\ u > 1 => Exists(u - 1)
                      /\ NewAccount(u, e)
  /\ UNCHANGED <<links, mail, drawn, request, meant, stored, answered, unmarked>>

\* CreateUser: an id is never used again.
Register(e) ==
  /\ lastUser < MaxUsers
  /\ \A u \in Users : Exists(u) => users[u].email # e
  /\ NewAccount(lastUser + 1, e)
  /\ UNCHANGED <<links, mail, drawn, request, meant, stored, answered, unmarked>>

\* An admin deletes a user; reset_tokens keeps the rows.
DeleteUser(u) ==
  /\ Exists(u)
  /\ users' = [users EXCEPT ![u] = None]
  /\ UNCHANGED <<lastUser, links, mail, drawn, request, history>>

\* An hour passes. Nothing deletes the row.
Expire(l) ==
  /\ links[l] # None
  /\ links' = [links EXCEPT ![l].expired = TRUE]
  /\ UNCHANGED <<users, lastUser, mail, drawn, request, history>>

\* The process is killed with the requests it serves.
Crash ==
  /\ MayFail("Crash")
  /\ pc' = [r \in Requests |-> "idle"]
  /\ req' = [r \in Requests |-> None] /\ who' = [r \in Requests |-> None]
  /\ life' = [r \in Requests |-> 0] /\ late' = {}
  /\ UNCHANGED <<tables, mail, drawn, history>>

Serve(r) ==
  \/ GetUserByEmail(r) \/ CreateResetToken(r) \/ Send(r)
  \/ GetResetToken(r) \/ UpdateUserPassword(r) \/ MarkResetTokenUsed(r) \/ Answer(r)

Next ==
  \/ \E r \in Requests : \/ Serve(r)
                         \/ \E e \in Emails : Forgot(r, e)
                         \/ \E l \in Links : Submit(r, l)
  \/ \E e \in Emails : Register(e)
  \/ \E u \in Users : DeleteUser(u)
  \/ \E l \in Links : Expire(l)
  \/ Crash

Spec == Init /\ [][Next]_vars

-----------------------------------------------------------------------------
\* Tables, requests and history keep their shape.
TypeOK ==
  /\ users \in [Users -> OrNone(Account)] /\ lastUser \in 0 .. MaxUsers
  /\ links \in [Links -> OrNone(Row)]
  /\ mail \in [Links -> OrNone(Emails \cup {Log})] /\ drawn \subseteq Links
  /\ pc \in [Requests -> {"idle", "find", "create", "send", "read", "store", "mark", "answer"}]
  /\ req \in [Requests -> OrNone(Asked)] /\ who \in [Requests -> OrNone(Users)]
  /\ born \in 0 .. MaxUsers /\ life \in [Requests -> 0 .. MaxUsers]
  /\ meant \in [Links -> 0 .. MaxUsers]
  /\ stored \subseteq Links /\ answered \subseteq Links /\ unmarked \subseteq Links
  /\ late \subseteq Requests

\* Only whoever has read the mail of an account, or the server's log, sets its
\* password: the link was asked for this account and mailed to its address, and
\* not for one deleted since whose address or id came back.
OnlyOwnersReset ==
  \A u \in Users : Exists(u) /\ users[u].by # None =>
    LET l == users[u].by
    IN  meant[l] = users[u].life /\ mail[l] \in {users[u].email, Log}

\* A request sent when its link had been used, had expired or had been answered
\* for stores no password. Requests that were under way by then may, and so may
\* anyone as long as marking the link failed.
NoLateReset == \A r \in late : pc[r] \notin {"store", "mark", "answer"}

\* A link that is marked used has done its work, unless its account is gone: no
\* failure or crash takes the link and leaves the forgotten password.
UsedMeansDone ==
  \A l \in Links : links[l] # None /\ links[l].used =>
    l \in stored \/ ~Exists(links[l].user)

\* Every link that is mailed leads to a row, whichever step before it failed.
MailedLinksWork == \A l \in Links : mail[l] # None => links[l] # None
=============================================================================
