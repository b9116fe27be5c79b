------------------------------ MODULE Accounts ------------------------------
(***************************************************************************)
(* Accounts and sessions of the service desk: registration, the bootstrap  *)
(* of the administrator, login, refresh, logout, and the changes           *)
(* administrators make to accounts. Workers are request slots; a request   *)
(* is suspended at every statement it sends to the database.               *)
(***************************************************************************)
CONSTANTS Workers, Emails, Passwords, Asked, Nil

(***************************************************************************)
(* users[e] is the row under the email e; session says that it has a       *)
(* refreshTokenHash. held is what browsers hold: <<e, p>> when somebody    *)
(* who gave the password p was sent tokens of e. latest[e] is the last     *)
(* record of a session of e in the audit log, and log the records of who   *)
(* made whom an administrator.                                             *)
(***************************************************************************)
VARIABLES users, held, latest, log, req

vars == <<users, held, latest, log, req>>

UserRole == {"ADMIN", "AGENT", "REQUESTER"}
Changes == {"role", "enable", "disable"}
Handler == {"register", "bootstrap", "login", "refresh", "logout", "ticket"} \cup Changes

\* The roles that administrators give in a run; no value is not a value.
ASSUME AskedAssumption == Asked \subseteq UserRole
ASSUME NilAssumption == Nil \notin Emails \cup Passwords \cup Handler \cup {"in", "out"}

UserRow == [known : BOOLEAN, password : Passwords \cup {Nil}, role : UserRole,
            isActive : BOOLEAN, session : BOOLEAN]
NoUser == [known |-> FALSE, password |-> Nil, role |-> "REQUESTER",
           isActive |-> TRUE, session |-> FALSE]

Request == [pc : {"idle", "find", "create", "tokens", "clear", "log", "upsert",
                  "before", "write", "record"},
            ask : Handler \cup {Nil}, user : Emails \cup {Nil}, actor : Emails \cup {Nil},
            password : Passwords \cup {Nil}, role : UserRole]
Idle == [pc |-> "idle", ask |-> Nil, user |-> Nil, actor |-> Nil, password |-> Nil,
         role |-> "REQUESTER"]

Grant == [by : Emails, to : Emails, action : {"AUTH_BOOTSTRAP_ADMIN", "USER_ROLE_CHANGED"}]

Admins == {e \in Emails : users[e].role = "ADMIN"}

At(w, pc) == req[w].pc = pc
Goto(w, pc) == req' = [req EXCEPT ![w].pc = pc]
Finish(w) == req' = [req EXCEPT ![w] = Idle]
Arrive(w, ask, pc, e, actor, p, role) ==
  /\ At(w, "idle")
  /\ req' = [req EXCEPT ![w] = [pc |-> pc, ask |-> ask, user |-> e, actor |-> actor,
                                password |-> p, role |-> role]]

Init ==
  /\ users = [e \in Emails |-> NoUser]
  /\ held = {}
  /\ latest = [e \in Emails |-> Nil]
  /\ log = {}
  /\ req = [w \in Workers |-> Idle]

-----------------------------------------------------------------------------
(* Sessions *)

Unchanged == UNCHANGED <<users, held, latest, log>>

Register(w, e, p) ==
  /\ ~users[e].known
  /\ Arrive(w, "register", "create", e, e, p, "REQUESTER")
  /\ Unchanged

BootstrapActive(w, e, p) ==  \* Fault: only the active administrators are counted
  /\ \A a \in Admins : ~users[a].isActive
  /\ Arrive(w, "bootstrap", "find", e, e, p, "ADMIN")
  /\ Unchanged

\* The secret is the right one, and no row, active or not, is an ADMIN.
Bootstrap(w, e, p) ==
  /\ Admins = {}
  /\ Arrive(w, "bootstrap", "find", e, e, p, "ADMIN")
  /\ Unchanged

FindEmail(w) ==
  /\ At(w, "find")
  /\ IF users[req[w].user].known THEN Finish(w) ELSE Goto(w, "create")
  /\ Unchanged

CreateUserAnyway(w) ==  \* Fault: the second registration takes the row over
  LET e == req[w].user IN
  /\ At(w, "create")
  /\ users' = [users EXCEPT ![e] = [@ EXCEPT !.known = TRUE,
                 !.password = req[w].password, !.role = req[w].role]]
  /\ Goto(w, "tokens")
  /\ UNCHANGED <<held, latest, log>>

\* The unique index on the email refuses the second of two insertions.
CreateUser(w) ==
  LET e == req[w].user IN
  /\ At(w, "create")
  /\ IF users[e].known
     THEN Finish(w) /\ UNCHANGED users
     ELSE /\ users' = [users EXCEPT ![e] = [NoUser EXCEPT !.known = TRUE,
                         !.password = req[w].password, !.role = req[w].role]]
          /\ Goto(w, "tokens")
  /\ UNCHANGED <<held, latest, log>>

\* An account that a ticket created has no password and nothing matches it.
Login(w, e, p) ==
  /\ users[e].known /\ users[e].password = p /\ users[e].isActive
  /\ Arrive(w, "login", "tokens", e, e, p, "REQUESTER")
  /\ Unchanged

RefreshAlways(w, e, p) ==  \* Fault: the row is not asked for a hash
  /\ <<e, p>> \in held /\ users[e].isActive
  /\ Arrive(w, "refresh", "tokens", e, e, p, "REQUESTER")
  /\ Unchanged

\* bcrypt compares the first 72 bytes, which in a refresh token are the header
\* and the beginning of the user's id: every token of the account that has not
\* expired matches while the row holds a hash, the one before a rotation too.
Refresh(w, e, p) ==
  /\ <<e, p>> \in held /\ users[e].session /\ users[e].isActive
  /\ Arrive(w, "refresh", "tokens", e, e, p, "REQUESTER")
  /\ Unchanged

SaveRefreshTokenHash(w) ==
  /\ At(w, "tokens")
  /\ users' = [users EXCEPT ![req[w].user].session = TRUE]
  /\ Goto(w, "log")
  /\ UNCHANGED <<held, latest, log>>

\* What jwt.strategy.ts asks of every request that carries an access token.
Authenticated(e) == users[e].isActive /\ \E p \in Passwords : <<e, p>> \in held

Logout(w, e) ==
  /\ Authenticated(e)
  /\ Arrive(w, "logout", "clear", e, e, Nil, "REQUESTER")
  /\ Unchanged

ClearSession(w) ==
  /\ At(w, "clear")
  /\ users' = [users EXCEPT ![req[w].user].session = FALSE]
  /\ Goto(w, "log")
  /\ UNCHANGED <<held, latest, log>>

LogSessionAsked(w) ==  \* Fault: the action is recorded as the request names it
  LET r == req[w] IN
  /\ At(w, "log")
  /\ latest' = [latest EXCEPT ![r.user] = r.ask]
  /\ log' = IF r.ask = "bootstrap"
            THEN log \cup {[by |-> r.user, to |-> r.user, action |-> "AUTH_BOOTSTRAP_ADMIN"]}
            ELSE log
  /\ held' = IF r.ask = "logout" THEN held ELSE held \cup {<<r.user, r.password>>}
  /\ Finish(w)
  /\ UNCHANGED users

\* The record of the session, and then the answer with its tokens.
LogSession(w) ==
  LET r == req[w] IN
  /\ At(w, "log")
  /\ latest' = [latest EXCEPT ![r.user] = IF r.ask = "logout" THEN "out" ELSE "in"]
  /\ log' = IF r.ask = "bootstrap"
            THEN log \cup {[by |-> r.user, to |-> r.user, action |-> "AUTH_BOOTSTRAP_ADMIN"]}
            ELSE log
  /\ held' = IF r.ask = "logout" THEN held ELSE held \cup {<<r.user, r.password>>}
  /\ Finish(w)
  /\ UNCHANGED users

-----------------------------------------------------------------------------
(* Accounts *)

\* A ticket names its requester or assignee by email; an email nobody has used
\* becomes an account without a password.
OpenTicket(w, actor, e) ==
  /\ Authenticated(actor)
  /\ Arrive(w, "ticket", "upsert", e, Nil, Nil, "REQUESTER")
  /\ Unchanged

UpsertRequester(w) ==
  /\ At(w, "upsert")
  /\ users' = [users EXCEPT ![req[w].user].known = TRUE]
  /\ Finish(w)
  /\ UNCHANGED <<held, latest, log>>

ChangeUserAsAnyone(w, ask, actor, e, role) ==  \* Fault: without the roles guard
  /\ Authenticated(actor)
  /\ Arrive(w, ask, "before", e, actor, Nil, role)
  /\ Unchanged

\* The guards look at the actor's row once, when the request arrives.
ChangeUser(w, ask, actor, e, role) ==
  /\ Authenticated(actor) /\ actor \in Admins
  /\ Arrive(w, ask, "before", e, actor, Nil, role)
  /\ Unchanged

FindUser(w) ==
  /\ At(w, "before")
  /\ IF users[req[w].user].known THEN Goto(w, "write") ELSE Finish(w)
  /\ Unchanged

WriteUser(w) ==
  LET r == req[w] IN
  /\ At(w, "write")
  /\ users' = CASE r.ask = "role"    -> [users EXCEPT ![r.user].role = r.role]
                [] r.ask = "enable"  -> [users EXCEPT ![r.user].isActive = TRUE]
                [] r.ask = "disable" -> [users EXCEPT ![r.user].isActive = FALSE]
  /\ Goto(w, "record")
  /\ UNCHANGED <<held, latest, log>>

RecordChange(w) ==
  LET r == req[w] IN
  /\ At(w, "record")
  /\ log' = IF r.ask = "role" /\ r.role = "ADMIN"
            THEN log \cup {[by |-> r.actor, to |-> r.user, action |-> "USER_ROLE_CHANGED"]}
            ELSE log
  /\ Finish(w)
  /\ UNCHANGED <<users, held, latest>>

-----------------------------------------------------------------------------
Session(w) ==
  \/ \E e \in Emails, p \in Passwords :
       Register(w, e, p) \/ Bootstrap(w, e, p) \/ Login(w, e, p) \/ Refresh(w, e, p)
  \/ \E e \in Emails : Logout(w, e)
  \/ FindEmail(w) \/ CreateUser(w) \/ SaveRefreshTokenHash(w) \/ ClearSession(w)
  \/ LogSession(w)

Account(w) ==
  \/ \E actor, e \in Emails : OpenTicket(w, actor, e)
  \/ \E actor, e \in Emails, role \in Asked : ChangeUser(w, "role", actor, e, role)
  \/ \E ask \in {"enable", "disable"}, actor, e \in Emails :
       ChangeUser(w, ask, actor, e, "REQUESTER")
  \/ UpsertRequester(w) \/ FindUser(w) \/ WriteUser(w) \/ RecordChange(w)

Next == \E w \in Workers : Session(w) \/ Account(w)

Spec == Init /\ [][Next]_vars

-----------------------------------------------------------------------------
(* Properties *)

\* Rows, records and requests keep to their types.
TypeOK ==
  /\ users \in [Emails -> UserRow]
  /\ held \subseteq Emails \X Passwords
  /\ latest \in [Emails -> {Nil, "in", "out"}]
  /\ log \subseteq Grant
  /\ req \in [Workers -> Request]

\* Tokens of an account are sent only to who gave the account's password, also
\* when two people register one email at once, when a ticket creates the account
\* in between, and along any chain of refreshes; and an account without a
\* password never has a session. (register, login and refresh; the unique index.)
OnlyOwnersHold ==
  /\ \A e \in Emails, p \in Passwords : <<e, p>> \in held => users[e].password = p
  /\ \A e \in Emails : users[e].session => users[e].password # Nil

\* The record that w is about to write when it has made e an administrator.
Owes(w, e) ==
  /\ req[w].user = e
  /\ \/ req[w].ask = "bootstrap" /\ req[w].pc \in {"tokens", "log"}
     \/ req[w].ask = "role" /\ req[w].role = "ADMIN" /\ req[w].pc = "record"

Vouched(e) == (\E g \in log : g.to = e) \/ (\E w \in Workers : Owes(w, e))

Rules(e) ==
  \/ e \in Admins
  \/ \E w \in Workers : req[w].ask \in Changes /\ req[w].actor = e
  \/ \E g \in log : g.by = e

\* Whoever is an administrator, or acts or has acted as one, was made one by a
\* recorded act (or one about to be recorded), and the first of these acts was a
\* bootstrap: authority never comes from nowhere, whatever roles are taken away
\* while requests of their holders are under way. (bootstrapAdmin, updateRole.)
AuthorityTraced ==
  /\ \A e \in Emails : Rules(e) => Vouched(e)
  /\ (\E e \in Emails : Rules(e)) =>
       \/ \E g \in log : g.action = "AUTH_BOOTSTRAP_ADMIN"
       \/ \E w \in Workers : req[w].ask = "bootstrap" /\ req[w].pc \in {"tokens", "log"}

\* Administrators exist, none is active, and nothing under way can change that.
LockedOut ==
  /\ Admins # {}
  /\ \A e \in Admins : ~users[e].isActive
  /\ \A w \in Workers : req[w].pc \notin {"before", "write"}
  /\ \A w \in Workers : ~(req[w].ask = "bootstrap" /\ req[w].pc \in {"find", "create"})

\* An administrator may disable the last active one, and nothing the service
\* offers brings one back: bootstrapAdmin counts the inactive rows too, and only
\* an active administrator enables an account. (users.service.ts keeps no last
\* administrator; what is left is the database itself.)
LockoutIsFinal == [][LockedOut => LockedOut']_vars
=============================================================================
