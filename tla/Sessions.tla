------------------------------ MODULE Sessions ------------------------------
(***************************************************************************)
(* Accounts and sessions of freeride-watcher: concurrent requests that     *)
(* register, log in, log out, show a page or redirect with a flash message,*)
(* each behind sessionMiddleware, on the tables users and sessions, with   *)
(* the hourly prune and the admin who deletes a user. One step per SQL     *)
(* statement; a response changes the browser's cookie when it arrives.     *)
(***************************************************************************)
EXTENDS Naturals

CONSTANTS
  Browsers,
  Requests,  \* requests under way at a time
  Emails,
  Tokens,    \* session tokens: GenerateToken returns each once
  Notes,     \* flash messages, each the text of one request
  MaxUsers,  \* bound on the accounts ever created
  Faults,    \* db methods that may fail, and "Crash"
  None

Users == 1 .. MaxUsers

OrNone(S) == S \cup {None}
Rows     == [user : Users, flash : OrNone(Notes), expired : BOOLEAN]
Contexts == [token : Tokens, user : Users, flash : OrNone(Notes)]
Asked    == [op : {"page", "form", "login", "register", "logout"}, from : Browsers,
             sent : OrNone(Tokens), email : Emails,
             token : OrNone(Tokens), note : OrNone(Notes)]
Steps    == {"idle", "session", "user", "serve", "clear", "create", "start", "flash",
             "reply"}

ASSUME SessionsAssumption ==
  /\ MaxUsers \in Nat
  /\ None \notin Tokens \cup Notes \cup Emails \cup Users
  /\ None \notin Rows \cup Contexts \cup Asked

VARIABLES
  users,     \* table users: the e-mail of each id, or None
  lastUser,  \* the AUTOINCREMENT of users
  sessions,  \* table sessions: the row of each token, or None
  cookie,    \* the session cookie of each browser, or None
  pc,
  req,       \* the request a goroutine serves
  ctx,       \* the session sessionMiddleware put into its context, or None
  who,       \* the user startSession is called for, or None
  reply,     \* Set-Cookie of its response: {} none, {None} delete, {t} set
  issued,    \* tokens and notes used up
  ended,     \* history: tokens whose row was deleted
  doomed,    \* history: requests whose session had ended when they began
  shown,     \* history: notes a page has shown
  alone      \* history: notes set while no other request was on the session

tables == <<users, lastUser, sessions>>
vars   == <<tables, cookie, pc, req, ctx, who, reply, issued, ended, doomed, shown, alone>>

MayFail(call) == call \in Faults
Exists(u) == users[u] # None
Live(t)   == sessions[t] # None /\ ~sessions[t].expired
Over(t)   == t = None \/ ~Live(t) \/ ~Exists(sessions[t].user)

Init ==
  /\ users = [u \in Users |-> None] /\ lastUser = 0
  /\ sessions = [t \in Tokens |-> None]
  /\ cookie = [b \in Browsers |-> None]
  /\ pc = [r \in Requests |-> "idle"] /\ req = [r \in Requests |-> None]
  /\ ctx = [r \in Requests |-> None] /\ who = [r \in Requests |-> None]
  /\ reply = [r \in Requests |-> {}]
  /\ issued = {} /\ ended = {} /\ doomed = {} /\ shown = {} /\ alone = {}

Goto(r, step) == pc' = [pc EXCEPT ![r] = step]

-----------------------------------------------------------------------------
(* sessionMiddleware.                                                      *)

\* A browser sends a request with its cookie. What the request will generate, a
\* session token and the text of a flash message, is drawn here.
Begin(r, q) ==
  /\ pc[r] = "idle"
  /\ q.sent = cookie[q.from]
  /\ q.token # None <=> q.op \in {"login", "register"}
  /\ q.note # None <=> q.op \in {"form", "register"}
  /\ q.token \notin issued /\ q.note \notin issued
  /\ issued' = issued \cup ({q.token, q.note} \ {None})
  /\ req' = [req EXCEPT ![r] = q]
  /\ doomed' = IF Over(q.sent) THEN doomed \cup {r} ELSE doomed \ {r}
  /\ Goto(r, IF q.sent = None THEN "serve" ELSE "session")
  /\ UNCHANGED <<tables, cookie, ctx, who, reply, ended, shown, alone>>

\* Mutant: the row is looked up by its token alone.
GetSessionExpired(r) ==
  /\ pc[r] = "session"
  /\ LET t == req[r].sent IN
     IF sessions[t] # None
     THEN /\ ctx' = [ctx EXCEPT ![r] = [token |-> t, user |-> sessions[t].user,
                                        flash |-> sessions[t].flash]]
          /\ Goto(r, "user") /\ UNCHANGED reply
     ELSE /\ reply' = [reply EXCEPT ![r] = {None}]
          /\ Goto(r, "serve") /\ UNCHANGED ctx
  /\ UNCHANGED <<tables, cookie, req, who, issued, ended, doomed, shown, alone>>

\* No row, an expired one or an error: the cookie is taken for stale.
GetSession(r) ==
  /\ pc[r] = "session"
  /\ LET t == req[r].sent IN
     \/ /\ Live(t)
        /\ ctx' = [ctx EXCEPT ![r] = [token |-> t, user |-> sessions[t].user,
                                      flash |-> sessions[t].flash]]
        /\ Goto(r, "user") /\ UNCHANGED reply
     \/ /\ ~Live(t) \/ MayFail("GetSession")
        /\ reply' = [reply EXCEPT ![r] = {None}]
        /\ Goto(r, "serve") /\ UNCHANGED ctx
  /\ UNCHANGED <<tables, cookie, req, who, issued, ended, doomed, shown, alone>>

\* A session of a user who is gone counts for nothing.
GetUserByID(r) ==
  /\ pc[r] = "user"
  /\ Goto(r, "serve")
  /\ \/ Exists(ctx[r].user) /\ UNCHANGED ctx
     \/ /\ ~Exists(ctx[r].user) \/ MayFail("GetUserByID")
        /\ ctx' = [ctx EXCEPT ![r] = None]
  /\ UNCHANGED <<tables, cookie, req, who, reply, issued, ended, doomed, shown, alone>>

\* The response arrives, in any order.
Respond(r) ==
  /\ pc[r] = "reply"
  /\ Goto(r, "idle")
  /\ \/ reply[r] = {} /\ UNCHANGED cookie
     \/ \E c \in reply[r] : cookie' = [cookie EXCEPT ![req[r].from] = c]
  /\ req' = [req EXCEPT ![r] = None] /\ ctx' = [ctx EXCEPT ![r] = None]
  /\ who' = [who EXCEPT ![r] = None] /\ reply' = [reply EXCEPT ![r] = {}]
  /\ UNCHANGED <<tables, issued, ended, doomed, shown, alone>>

-----------------------------------------------------------------------------
(* Pages and flash messages.                                               *)

\* render of a page without a message of its own: the flash of the session as
\* it was read goes onto the page.
RenderPage(r) ==
  /\ pc[r] = "serve" /\ req[r].op = "page"
  /\ IF ctx[r] # None /\ ctx[r].flash # None
     THEN shown' = shown \cup {ctx[r].flash} /\ Goto(r, "clear")
     ELSE Goto(r, "reply") /\ UNCHANGED shown
  /\ UNCHANGED <<tables, cookie, req, ctx, who, reply, issued, ended, doomed, alone>>

\* Mutant: render clears the flash even if the page has a message of its own.
RenderOwnClears(r) ==
  /\ pc[r] = "serve" /\ req[r].op \in {"form", "login", "register"}
  /\ Goto(r, IF ctx[r] # None /\ ctx[r].flash # None THEN "clear" ELSE "reply")
  /\ UNCHANGED <<tables, cookie, req, ctx, who, reply, issued, ended, doomed, shown, alone>>

\* The form is refused: a page with a message of its own, which leaves the flash
\* alone, or requireAuth sends the browser to the login page, or csrfMiddleware
\* answers 403: which one is left to chance.
RenderOwn(r) ==
  /\ pc[r] = "serve" /\ req[r].op \in {"form", "login", "register"}
  /\ Goto(r, "reply")
  /\ UNCHANGED <<tables, cookie, req, ctx, who, reply, issued, ended, doomed, shown, alone>>

\* UPDATE ... WHERE token: whatever flash the row has by now, if there is a row.
ClearFlash(r) ==
  /\ pc[r] = "clear"
  /\ Goto(r, "reply")
  /\ LET t == ctx[r].token IN
     \/ sessions' = [sessions EXCEPT ![t] = IF @ = None THEN None ELSE [@ EXCEPT !.flash = None]]
     \/ MayFail("ClearFlash") /\ UNCHANGED sessions
  /\ UNCHANGED <<users, lastUser, cookie, req, ctx, who, reply, issued, ended, doomed, shown,
                 alone>>

\* A form done, or an account created: redirect sets the flash of the session
\* the request came with, if it came with one.
OnSession(t, r) == \E q \in Requests \ {r} : ctx[q] # None /\ ctx[q].token = t
Redirects(r) == \/ pc[r] = "serve" /\ req[r].op = "form" /\ ctx[r] # None
                \/ pc[r] = "flash"

\* Mutant: the session is written back as a row.
SetFlashSavesRow(r) ==
  /\ Redirects(r)
  /\ Goto(r, "reply")
  /\ \/ ctx[r] = None /\ UNCHANGED <<sessions, alone>>
     \/ /\ ctx[r] # None
        /\ sessions' = [sessions EXCEPT ![ctx[r].token] =
                          [user |-> ctx[r].user, flash |-> req[r].note, expired |-> FALSE]]
        /\ alone' = IF OnSession(ctx[r].token, r) THEN alone ELSE alone \cup {req[r].note}
  /\ UNCHANGED <<users, lastUser, cookie, req, ctx, who, reply, issued, ended, doomed, shown>>

\* Mutant: the flash goes to every session of the user.
SetFlashByUser(r) ==
  /\ Redirects(r)
  /\ Goto(r, "reply")
  /\ \/ (ctx[r] = None \/ MayFail("SetFlash")) /\ UNCHANGED <<sessions, alone>>
     \/ /\ ctx[r] # None
        /\ sessions' = [t \in Tokens |->
                          IF sessions[t] # None /\ sessions[t].user = ctx[r].user
                          THEN [sessions[t] EXCEPT !.flash = req[r].note] ELSE sessions[t]]
        /\ alone' = IF OnSession(ctx[r].token, r) THEN alone ELSE alone \cup {req[r].note}
  /\ UNCHANGED <<users, lastUser, cookie, req, ctx, who, reply, issued, ended, doomed, shown>>

SetFlash(r) ==
  /\ Redirects(r)
  /\ Goto(r, "reply")
  /\ \/ (ctx[r] = None \/ MayFail("SetFlash")) /\ UNCHANGED <<sessions, alone>>
     \/ /\ ctx[r] # None
        /\ sessions' = [sessions EXCEPT ![ctx[r].token] =
                          IF @ = None THEN None ELSE [@ EXCEPT !.flash = req[r].note]]
        /\ alone' = IF OnSession(ctx[r].token, r) THEN alone ELSE alone \cup {req[r].note}
  /\ UNCHANGED <<users, lastUser, cookie, req, ctx, who, reply, issued, ended, doomed, shown>>

-----------------------------------------------------------------------------
(* Accounts.                                                               *)

HasAccount(e, u) == Exists(u) /\ users[u] = e

\* handleLoginSubmit with the right password: GetUserByEmail.
LoginLookup(r) ==
  /\ pc[r] = "serve" /\ req[r].op = "login"
  /\ \E u \in Users : HasAccount(req[r].email, u) /\ who' = [who EXCEPT ![r] = u]
  /\ Goto(r, "start")
  /\ UNCHANGED <<tables, cookie, req, ctx, reply, issued, ended, doomed, shown, alone>>

\* handleRegisterSubmit goes on if GetUserByEmail finds nobody.
RegisterLookup(r) ==
  /\ pc[r] = "serve" /\ req[r].op = "register"
  /\ ~ \E u \in Users : HasAccount(req[r].email, u)
  /\ Goto(r, "create")
  /\ UNCHANGED <<tables, cookie, req, ctx, who, reply, issued, ended, doomed, shown, alone>>

\* Mutant: the lookup is trusted, the column is not UNIQUE.
CreateUserUnchecked(r) ==
  /\ pc[r] = "create" /\ lastUser < MaxUsers
  /\ lastUser' = lastUser + 1
  /\ users' = [users EXCEPT ![lastUser + 1] = req[r].email]
  /\ who' = [who EXCEPT ![r] = lastUser + 1]
  /\ Goto(r, "start")
  /\ UNCHANGED <<sessions, cookie, req, ctx, reply, issued, ended, doomed, shown, alone>>

\* Mutant: the error is logged and registration goes on.
CreateUserGoesOn(r) ==
  /\ pc[r] = "create"
  /\ Goto(r, "start")
  /\ \/ /\ lastUser < MaxUsers
        /\ ~ \E u \in Users : HasAccount(req[r].email, u)
        /\ lastUser' = lastUser + 1
        /\ users' = [users EXCEPT ![lastUser + 1] = req[r].email]
        /\ who' = [who EXCEPT ![r] = lastUser + 1]
     \/ MayFail("CreateUser") /\ UNCHANGED <<users, lastUser, who>>
  /\ UNCHANGED <<sessions, cookie, req, ctx, reply, issued, ended, doomed, shown, alone>>

\* INSERT INTO users: email is UNIQUE, an error refuses the form.
CreateUser(r) ==
  /\ pc[r] = "create"
  /\ \/ /\ lastUser < MaxUsers
        /\ ~ \E u \in Users : HasAccount(req[r].email, u)
        /\ lastUser' = lastUser + 1
        /\ users' = [users EXCEPT ![lastUser + 1] = req[r].email]
        /\ who' = [who EXCEPT ![r] = lastUser + 1]
        /\ Goto(r, "start")
     \/ /\ MayFail("CreateUser") \/ \E u \in Users : HasAccount(req[r].email, u)
        /\ Goto(r, "reply") /\ UNCHANGED <<users, lastUser, who>>
  /\ UNCHANGED <<sessions, cookie, req, ctx, reply, issued, ended, doomed, shown, alone>>

\* startSession; the foreign key to users is not enforced. On an error a login
\* fails, a registration goes on without a session.
CreateSession(r) ==
  /\ pc[r] = "start"
  /\ Goto(r, IF req[r].op = "register" THEN "flash" ELSE "reply")
  /\ \/ /\ sessions' = [sessions EXCEPT ![req[r].token] =
                          [user |-> who[r], flash |-> None, expired |-> FALSE]]
        /\ reply' = [reply EXCEPT ![r] = {req[r].token}]
     \/ MayFail("CreateSession") /\ UNCHANGED <<sessions, reply>>
  /\ UNCHANGED <<users, lastUser, cookie, req, ctx, who, issued, ended, doomed, shown, alone>>

\* handleLogout: the row goes, or an error is dropped; the cookie goes anyway.
Logout(r) ==
  /\ pc[r] = "serve" /\ req[r].op = "logout"
  /\ Goto(r, "reply")
  /\ reply' = [reply EXCEPT ![r] = {None}]
  /\ \/ /\ ctx[r] # None
        /\ sessions' = [sessions EXCEPT ![ctx[r].token] = None]
        /\ ended' = ended \cup {ctx[r].token}
     \/ (ctx[r] = None \/ MayFail("DeleteSession")) /\ UNCHANGED <<sessions, ended>>
  /\ UNCHANGED <<users, lastUser, cookie, req, ctx, who, issued, doomed, shown, alone>>

\* handleAdminDeleteUser: sessions keep the row (REFERENCES is not enforced).
DeleteUser(u) ==
  /\ Exists(u)
  /\ users' = [users EXCEPT ![u] = None]
  /\ UNCHANGED <<lastUser, sessions, cookie, pc, req, ctx, who, reply, issued, ended, doomed,
                 shown, alone>>

-----------------------------------------------------------------------------
(* Time, and the end of the process.                                       *)

\* SessionMaxAge has passed since startSession.
Expire(t) ==
  /\ Live(t)
  /\ sessions' = [sessions EXCEPT ![t].expired = TRUE]
  /\ UNCHANGED <<users, lastUser, cookie, pc, req, ctx, who, reply, issued, ended, doomed,
                 shown, alone>>

\* runHousekeeping, every hour.
PruneExpiredSessions ==
  LET old == {t \in Tokens : sessions[t] # None /\ ~Live(t)} IN
  /\ old # {}
  /\ sessions' = [t \in Tokens |-> IF t \in old THEN None ELSE sessions[t]]
  /\ ended' = ended \cup old
  /\ UNCHANGED <<users, lastUser, cookie, pc, req, ctx, who, reply, issued, doomed, shown,
                 alone>>

\* Requests under way end without a response; tables and cookies stay.
Crash ==
  /\ MayFail("Crash")
  /\ pc' = [r \in Requests |-> "idle"] /\ req' = [r \in Requests |-> None]
  /\ ctx' = [r \in Requests |-> None] /\ who' = [r \in Requests |-> None]
  /\ reply' = [r \in Requests |-> {}]
  /\ UNCHANGED <<tables, cookie, issued, ended, doomed, shown, alone>>

Serve(r) == \/ GetSession(r) \/ GetUserByID(r) \/ RenderPage(r) \/ RenderOwn(r)
            \/ ClearFlash(r) \/ SetFlash(r) \/ LoginLookup(r) \/ RegisterLookup(r)
            \/ CreateUser(r) \/ CreateSession(r) \/ Logout(r) \/ Respond(r)

Next ==
  \/ \E r \in Requests : Serve(r) \/ \E q \in Asked : Begin(r, q)
  \/ \E u \in Users : DeleteUser(u)
  \/ \E t \in Tokens : Expire(t)
  \/ PruneExpiredSessions
  \/ Crash

Spec == Init /\ [][Next]_vars

-----------------------------------------------------------------------------
\* Tables, cookies and the requests' locals keep their shape.
TypeOK ==
  /\ users \in [Users -> OrNone(Emails)] /\ lastUser \in 0 .. MaxUsers
  /\ sessions \in [Tokens -> OrNone(Rows)]
  /\ cookie \in [Browsers -> OrNone(Tokens)]
  /\ pc \in [Requests -> Steps] /\ req \in [Requests -> OrNone(Asked)]
  /\ ctx \in [Requests -> OrNone(Contexts)] /\ who \in [Requests -> OrNone(Users)]
  /\ reply \in [Requests -> {{}, {None}} \cup {{t} : t \in Tokens}]
  /\ issued \subseteq Tokens \cup Notes
  /\ ended \subseteq Tokens /\ doomed \subseteq Requests
  /\ shown \subseteq Notes /\ alone \subseteq Notes

\* A session that was logged out or pruned does not come back, whatever the
\* requests that still hold a copy of it write to the table afterwards.
EndedStaysEnded == \A t \in ended : sessions[t] = None

\* A request that is sent after its session expired or was logged out, or after
\* its user was deleted, is served as nobody's, although deleting a user leaves
\* the session's row and a login under way may even add one.
NoServiceAfterEnd ==
  \A r \in doomed : pc[r] \notin {"idle", "user"} => ctx[r] = None

\* Two registrations of one address, both past the lookup, make one account.
OneAccountPerEmail ==
  \A u, v \in Users : Exists(u) /\ users[u] = users[v] => u = v

\* A message that was set while no other request was on the session stays on it
\* until a page has shown it, or until a request that was handed it redirects and
\* puts its own message in its place, unseen. Nothing else takes it off a session
\* that lives on: no page with a message of its own, no request that began before
\* it was set, no request on another session of the user.
Supersedes(r, t, note) ==
  /\ Redirects(r)
  /\ ctx[r] # None /\ ctx[r].token = t /\ ctx[r].flash = note
  /\ sessions'[t].flash = req[r].note
FlashIsSeen ==
  [][\A t \in Tokens, note \in alone :
       /\ sessions[t] # None /\ sessions[t].flash = note
       /\ sessions'[t] # None /\ sessions'[t].flash # note
       => note \in shown \/ \E r \in Requests : Supersedes(r, t, note)]_vars
=============================================================================
