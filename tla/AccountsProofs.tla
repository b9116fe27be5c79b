--------------------------- MODULE AccountsProofs ---------------------------
(***************************************************************************)
(* Proofs about Accounts: its types, who holds tokens, where the authority *)
(* of administrators comes from, and what becomes of a service whose       *)
(* administrators are all disabled, for any number of requests, accounts   *)
(* and passwords; and what a logout ends, when one request is served at a  *)
(* time.                                                                   *)
(***************************************************************************)
EXTENDS MCAccounts, FiniteSetTheorems, TLAPS

Sessions == {"register", "bootstrap", "login", "refresh"}

\* What a request holds at each point of its handler.
Shape(r) ==
  /\ r \in Request
  /\ r.pc = "idle" => r.ask = Nil
  /\ r.pc # "idle" => r.user \in Emails
  /\ r.pc \in {"find", "create", "tokens"} => r.ask \in Sessions /\ r.password \in Passwords
  /\ r.pc \in {"find", "create"} /\ r.role # "REQUESTER" => r.ask = "bootstrap"
  /\ r.pc = "clear" => r.ask = "logout"
  /\ r.pc = "log" => \/ r.ask = "logout"
                     \/ r.ask \in Sessions /\ r.password \in Passwords
  /\ r.pc = "upsert" => r.ask = "ticket"
  /\ r.pc \in {"before", "write", "record"} => r.ask \in Changes /\ r.actor \in Emails

\* The tokens that r is about to send.
Sends(r) == r.pc = "tokens" \/ (r.pc = "log" /\ r.ask # "logout")

\* A request knows the row it works on, and sends tokens to its owner.
Placed(r, rows) ==
  /\ r.pc \in {"tokens", "clear", "log", "write", "record"} => rows[r.user].known
  /\ Sends(r) => rows[r.user].password = r.password

TypeInv == TypeOK /\ \A w \in Workers : Shape(req[w])
RowInv ==
  /\ \A e \in Emails : ~users[e].known => users[e] = NoUser
  /\ \A w \in Workers : Placed(req[w], users)

\* The inductive invariant of accounts and sessions.
Inv == TypeInv /\ RowInv /\ OnlyOwnersHold

-----------------------------------------------------------------------------
(* Steps that change a request, and at most one row.                       *)

\* A request moves on and leaves the rows as they are.
LEMMA RequestMoves ==
  ASSUME Inv, NEW w \in Workers, NEW r, Shape(r), Placed(r, users),
         req' = [req EXCEPT ![w] = r], UNCHANGED <<users, held>>,
         latest' \in [Emails -> {Nil, "in", "out"}], log' \subseteq Grant
  PROVE  Inv'
<1>1. r \in Request
  BY DEF Shape
<1>2. req' \in [Workers -> Request] /\ \A v \in Workers : req'[v] = IF v = w THEN r ELSE req[v]
  BY <1>1 DEF Inv, TypeInv, TypeOK
<1>3. TypeOK'
  BY <1>2 DEF Inv, TypeInv, TypeOK
<1>4. \A v \in Workers : Shape(req'[v])
  BY <1>2 DEF Inv, TypeInv
<1>5. TypeInv'
  BY <1>3, <1>4 DEF TypeInv, Shape, Request, Changes, Handler, UserRole, Sessions
<1>6. \A v \in Workers : Placed(req'[v], users')
  BY <1>2 DEF Inv, RowInv
<1>7. RowInv'
  BY <1>6 DEF Inv, RowInv, Placed, Sends, NoUser
<1>8. OnlyOwnersHold'
  BY DEF Inv, OnlyOwnersHold
<1> QED  BY <1>5, <1>7, <1>8 DEF Inv

\* A request writes its row and moves on. The password of a known account stays.
LEMMA RowIsWritten ==
  ASSUME Inv, NEW w \in Workers, NEW r, Shape(r),
         NEW e \in Emails, NEW row \in UserRow, row.known,
         users[e].known => row.password = users[e].password,
         row.session => row.password # Nil,
         users' = [users EXCEPT ![e] = row], Placed(r, users'),
         req' = [req EXCEPT ![w] = r], UNCHANGED <<held, latest, log>>
  PROVE  Inv'
<1>1. r \in Request
  BY DEF Shape
<1>2. req' \in [Workers -> Request] /\ \A v \in Workers : req'[v] = IF v = w THEN r ELSE req[v]
  BY <1>1 DEF Inv, TypeInv, TypeOK
<1>3. users' \in [Emails -> UserRow] /\ \A f \in Emails : users'[f] = IF f = e THEN row ELSE users[f]
  BY DEF Inv, TypeInv, TypeOK
<1>4. TypeOK'
  BY <1>2, <1>3 DEF Inv, TypeInv, TypeOK
<1>5. TypeInv'
  BY <1>2, <1>4 DEF Inv, TypeInv
<1>6. \A f \in Emails : users[f].known =>
        users'[f].known /\ users'[f].password = users[f].password
  BY <1>3
<1>7. \A v \in Workers : Placed(req[v], users) /\ Shape(req[v]) => Placed(req[v], users')
  BY <1>6 DEF Placed, Sends, Shape
<1>8. \A v \in Workers : Placed(req'[v], users')
  BY <1>2, <1>7 DEF Inv, RowInv, TypeInv
<1>9. \A f \in Emails : ~users'[f].known => users'[f] = NoUser
  BY <1>3 DEF Inv, RowInv
<1>10. RowInv'
  BY <1>8, <1>9 DEF RowInv
<1>11. \A f \in Emails, p \in Passwords : <<f, p>> \in held => users[f].known
  BY NilAssumption DEF Inv, RowInv, OnlyOwnersHold, NoUser
<1>12. OnlyOwnersHold'
  BY <1>3, <1>6, <1>11 DEF Inv, OnlyOwnersHold
<1> QED  BY <1>5, <1>10, <1>12 DEF Inv

-----------------------------------------------------------------------------
(* Every action keeps the invariant. *)

\* What a request that arrives is, and the one it becomes.
LEMMA ArrivalShape ==
  ASSUME NEW e \in Emails, NEW actor \in Emails \cup {Nil}, NEW p \in Passwords \cup {Nil},
         NEW role \in UserRole, NEW pc, NEW ask \in Handler,
         \/ pc \in {"find", "create", "tokens"} /\ ask \in Sessions /\ p \in Passwords
            /\ (role # "REQUESTER" => ask = "bootstrap")
         \/ pc = "clear" /\ ask = "logout"
         \/ pc = "upsert" /\ ask = "ticket"
         \/ pc = "before" /\ ask \in Changes /\ actor \in Emails
  PROVE  Shape([pc |-> pc, ask |-> ask, user |-> e, actor |-> actor,
                password |-> p, role |-> role])
BY DEF Shape, Request

\* The shape of a request that ends or moves to another statement.
LEMMA IdleShape == Shape(Idle) /\ \A rows : Placed(Idle, rows)
BY NilAssumption DEF Shape, Idle, Request, Placed, Sends, UserRole, Handler

LEMMA NextShape ==
  ASSUME NEW r, Shape(r), NEW pc,
         \/ r.pc = "find" /\ pc = "create"
         \/ r.pc = "create" /\ pc = "tokens"
         \/ r.pc = "tokens" /\ pc = "log"
         \/ r.pc = "clear" /\ pc = "log"
         \/ r.pc = "before" /\ pc = "write"
         \/ r.pc = "write" /\ pc = "record"
  PROVE  /\ Shape([r EXCEPT !.pc = pc])
         /\ \A rows : Placed([r EXCEPT !.pc = pc], rows) <=>
              /\ pc # "create" => rows[r.user].known
              /\ r.pc \in {"create", "tokens"} => rows[r.user].password = r.password
BY DEF Shape, Placed, Sends, Request, Sessions, Changes

\* Session actions keep the invariant.
LEMMA SessionKeeps ==
  ASSUME Inv, NEW w \in Workers, Session(w)
  PROVE  Inv'
<1> DEFINE r == req[w]
           e == r.user
<1>0. /\ Shape(r) /\ r \in Request /\ Placed(r, users)
      /\ users \in [Emails -> UserRow] /\ req \in [Workers -> Request]
      /\ latest \in [Emails -> {Nil, "in", "out"}] /\ log \subseteq Grant
      /\ held \subseteq Emails \X Passwords
  BY DEF Inv, TypeInv, RowInv, TypeOK
<1>1. ASSUME NEW f \in Emails, NEW p \in Passwords, Register(w, f, p)  PROVE Inv'
  <2> DEFINE q == [pc |-> "create", ask |-> "register", user |-> f, actor |-> f,
                   password |-> p, role |-> "REQUESTER"]
  <2>1. Shape(q)
    BY ArrivalShape DEF Handler, Sessions, UserRole
  <2>2. Placed(q, users)
    BY DEF Placed, Sends
  <2> QED  BY <1>0, <1>1, <2>1, <2>2, RequestMoves DEF Register, Arrive, Unchanged
<1>2. ASSUME NEW f \in Emails, NEW p \in Passwords, Bootstrap(w, f, p)  PROVE Inv'
  <2> DEFINE q == [pc |-> "find", ask |-> "bootstrap", user |-> f, actor |-> f,
                   password |-> p, role |-> "ADMIN"]
  <2>1. Shape(q)
    BY ArrivalShape DEF Handler, Sessions, UserRole
  <2>2. Placed(q, users)
    BY DEF Placed, Sends
  <2> QED  BY <1>0, <1>2, <2>1, <2>2, RequestMoves DEF Bootstrap, Arrive, Unchanged
<1>3. ASSUME NEW f \in Emails, NEW p \in Passwords, Login(w, f, p)  PROVE Inv'
  <2> DEFINE q == [pc |-> "tokens", ask |-> "login", user |-> f, actor |-> f,
                   password |-> p, role |-> "REQUESTER"]
  <2>1. Shape(q)
    BY ArrivalShape DEF Handler, Sessions, UserRole
  <2>2. Placed(q, users)
    BY <1>3 DEF Placed, Sends, Login
  <2> QED  BY <1>0, <1>3, <2>1, <2>2, RequestMoves DEF Login, Arrive, Unchanged
<1>4. ASSUME NEW f \in Emails, NEW p \in Passwords, Refresh(w, f, p)  PROVE Inv'
  <2> DEFINE q == [pc |-> "tokens", ask |-> "refresh", user |-> f, actor |-> f,
                   password |-> p, role |-> "REQUESTER"]
  <2>1. Shape(q)
    BY ArrivalShape DEF Handler, Sessions, UserRole
  <2>2. users[f].password = p /\ users[f].known
    BY <1>4, NilAssumption DEF Refresh, Inv, OnlyOwnersHold, RowInv, NoUser
  <2>3. Placed(q, users)
    BY <2>2 DEF Placed, Sends
  <2> QED  BY <1>0, <1>4, <2>1, <2>3, RequestMoves DEF Refresh, Arrive, Unchanged
<1>5. ASSUME NEW f \in Emails, Logout(w, f)  PROVE Inv'
  <2> DEFINE q == [pc |-> "clear", ask |-> "logout", user |-> f, actor |-> f,
                   password |-> Nil, role |-> "REQUESTER"]
  <2>1. Shape(q)
    BY ArrivalShape DEF Handler, UserRole
  <2>2. users[f].known
    BY <1>5, NilAssumption DEF Logout, Authenticated, Inv, OnlyOwnersHold, RowInv, NoUser
  <2>3. Placed(q, users)
    BY <2>2 DEF Placed, Sends
  <2> QED  BY <1>0, <1>5, <2>1, <2>3, RequestMoves DEF Logout, Arrive, Unchanged
<1>6. CASE FindEmail(w)
  <2>1. CASE users[e].known
    BY <1>0, <1>6, <2>1, IdleShape, RequestMoves DEF FindEmail, Finish, Unchanged
  <2>2. CASE ~users[e].known
    <3>1. Shape([r EXCEPT !.pc = "create"]) /\ Placed([r EXCEPT !.pc = "create"], users)
      BY <1>0, <1>6, NextShape DEF FindEmail, At
    <3> QED  BY <1>0, <1>6, <2>2, <3>1, RequestMoves DEF FindEmail, Goto, Unchanged
  <2> QED  BY <2>1, <2>2
<1>7. CASE CreateUser(w)
  <2>1. CASE users[e].known
    BY <1>0, <1>7, <2>1, IdleShape, RequestMoves DEF CreateUser, Finish
  <2>2. CASE ~users[e].known
    <3> DEFINE row == [NoUser EXCEPT !.known = TRUE, !.password = r.password, !.role = r.role]
    <3>1. r.pc = "create" /\ e \in Emails /\ r.password \in Passwords /\ r.role \in UserRole
      BY <1>0, <1>7 DEF CreateUser, At, Shape, Request
    <3>2. /\ row \in UserRow /\ row.known /\ ~row.session
          /\ row.password = r.password /\ row.role = r.role
      BY <3>1 DEF NoUser, UserRow
    <3>3. users' = [users EXCEPT ![e] = row] /\ UNCHANGED <<held, latest, log>>
      BY <1>7, <2>2 DEF CreateUser, Goto
    <3> DEFINE q == [r EXCEPT !.pc = "tokens"]
    <3> HIDE DEF row
    <3>4. Shape([r EXCEPT !.pc = "tokens"]) /\ Placed([r EXCEPT !.pc = "tokens"], users')
      <4>1. users'[e].known /\ users'[e].password = r.password
        BY <1>0, <3>1, <3>2, <3>3
      <4> QED  BY <1>0, <3>1, <4>1, NextShape
    <3>5. Shape(q) /\ Placed(q, users') /\ req' = [req EXCEPT ![w] = q]
      BY <1>7, <2>2, <3>4 DEF CreateUser, Goto
    <3> HIDE DEF q
    <3> QED  BY <2>2, <3>1, <3>2, <3>3, <3>5, RowIsWritten
  <2> QED  BY <2>1, <2>2
<1>8. CASE SaveRefreshTokenHash(w)
  <2> DEFINE row == [users[e] EXCEPT !.session = TRUE]
  <2>1. r.pc = "tokens" /\ e \in Emails /\ r.password \in Passwords
    BY <1>0, <1>8 DEF SaveRefreshTokenHash, At, Shape
  <2>2. users[e].known /\ users[e].password = r.password
    BY <1>0, <2>1 DEF Placed, Sends
  <2>3. row \in UserRow /\ row.known /\ row.password = r.password
    BY <1>0, <2>1, <2>2 DEF UserRow
  <2>4. users' = [users EXCEPT ![e] = row] /\ UNCHANGED <<held, latest, log>>
    BY <1>8 DEF SaveRefreshTokenHash, Goto
  <2> DEFINE q == [r EXCEPT !.pc = "log"]
  <2> HIDE DEF row
  <2>5. Shape([r EXCEPT !.pc = "log"]) /\ Placed([r EXCEPT !.pc = "log"], users')
    <3>1. users'[e].known /\ users'[e].password = r.password
      BY <1>0, <2>1, <2>2, <2>3, <2>4
    <3> QED  BY <1>0, <2>1, <3>1, NextShape
  <2>6. Shape(q) /\ Placed(q, users') /\ req' = [req EXCEPT ![w] = q]
    BY <1>8, <2>5 DEF SaveRefreshTokenHash, Goto
  <2>7. r.password # Nil
    BY <2>1, NilAssumption
  <2> HIDE DEF q
  <2> QED  BY <2>1, <2>2, <2>3, <2>4, <2>6, <2>7, RowIsWritten
<1>9. CASE ClearSession(w)
  <2> DEFINE row == [users[e] EXCEPT !.session = FALSE]
  <2>1. r.pc = "clear" /\ e \in Emails /\ users[e].known
    BY <1>0, <1>9 DEF ClearSession, At, Shape, Placed
  <2>2. row \in UserRow /\ row.known /\ row.password = users[e].password /\ ~row.session
    BY <1>0, <2>1 DEF UserRow
  <2>3. users' = [users EXCEPT ![e] = row] /\ UNCHANGED <<held, latest, log>>
    BY <1>9 DEF ClearSession, Goto
  <2> DEFINE q == [r EXCEPT !.pc = "log"]
  <2> HIDE DEF row
  <2>4. Shape([r EXCEPT !.pc = "log"]) /\ Placed([r EXCEPT !.pc = "log"], users')
    <3>1. users'[e].known
      BY <1>0, <2>1, <2>2, <2>3
    <3> QED  BY <1>0, <2>1, <3>1, NextShape
  <2>5. Shape(q) /\ Placed(q, users') /\ req' = [req EXCEPT ![w] = q]
    BY <1>9, <2>4 DEF ClearSession, Goto
  <2> HIDE DEF q
  <2> QED  BY <2>1, <2>2, <2>3, <2>5, RowIsWritten
<1>10. CASE LogSession(w)
  <2>1. r.pc = "log" /\ e \in Emails /\ users[e].known
    BY <1>0, <1>10 DEF LogSession, At, Shape, Placed
  <2>2. /\ req' = [req EXCEPT ![w] = Idle] /\ users' = users
        /\ latest' \in [Emails -> {Nil, "in", "out"}] /\ log' \subseteq Grant
    BY <1>0, <1>10, <2>1 DEF LogSession, Finish, Grant
  <2>3. CASE r.ask = "logout"
    BY <1>10, <2>2, <2>3, IdleShape, RequestMoves DEF LogSession
  <2>4. CASE r.ask # "logout"
    <3>1. r.password \in Passwords /\ users[e].password = r.password
      BY <1>0, <2>1, <2>4 DEF Shape, Placed, Sends
    <3>2. held' = held \cup {<<e, r.password>>}
      BY <1>10, <2>4 DEF LogSession
    <3>3. OnlyOwnersHold'
      BY <2>2, <3>1, <3>2 DEF Inv, OnlyOwnersHold
    <3>4. \A v \in Workers : req'[v] = req[v] \/ req'[v] = Idle
      BY <1>0, <2>2
    <3>5. TypeOK'
      BY <1>0, <2>1, <2>2, <3>1, <3>2, IdleShape DEF TypeOK, Shape
    <3>6. TypeInv' /\ RowInv'
      BY <2>2, <3>4, <3>5, IdleShape DEF Inv, TypeInv, RowInv
    <3> QED  BY <3>3, <3>6 DEF Inv
  <2> QED  BY <2>3, <2>4
<1> QED
  BY <1>1, <1>2, <1>3, <1>4, <1>5, <1>6, <1>7, <1>8, <1>9, <1>10 DEF Session

\* Account actions keep the invariant.
LEMMA AccountKeeps ==
  ASSUME Inv, NEW w \in Workers, Account(w)
  PROVE  Inv'
<1> DEFINE r == req[w]
           e == r.user
<1>0. /\ Shape(r) /\ r \in Request /\ Placed(r, users)
      /\ users \in [Emails -> UserRow] /\ req \in [Workers -> Request]
      /\ latest \in [Emails -> {Nil, "in", "out"}] /\ log \subseteq Grant
  BY DEF Inv, TypeInv, RowInv, TypeOK
<1>1. ASSUME NEW actor \in Emails, NEW f \in Emails, OpenTicket(w, actor, f)  PROVE Inv'
  <2> DEFINE q == [pc |-> "upsert", ask |-> "ticket", user |-> f, actor |-> Nil,
                   password |-> Nil, role |-> "REQUESTER"]
  <2>1. Shape(q)
    BY ArrivalShape DEF Handler, UserRole
  <2>2. Placed(q, users)
    BY DEF Placed, Sends
  <2> QED  BY <1>0, <1>1, <2>1, <2>2, RequestMoves DEF OpenTicket, Arrive, Unchanged
<1>2. ASSUME NEW ask \in Changes, NEW actor \in Emails, NEW f \in Emails,
             NEW role \in UserRole, ChangeUser(w, ask, actor, f, role)
      PROVE  Inv'
  <2> DEFINE q == [pc |-> "before", ask |-> ask, user |-> f, actor |-> actor,
                   password |-> Nil, role |-> role]
  <2>1. Shape(q)
    BY ArrivalShape DEF Handler
  <2>2. Placed(q, users)
    BY DEF Placed, Sends
  <2> QED  BY <1>0, <1>2, <2>1, <2>2, RequestMoves DEF ChangeUser, Arrive, Unchanged
<1>3. CASE UpsertRequester(w)
  <2> DEFINE row == [users[e] EXCEPT !.known = TRUE]
  <2>1. r.pc = "upsert" /\ e \in Emails
    BY <1>0, <1>3 DEF UpsertRequester, At, Shape
  <2>2. /\ row \in UserRow /\ row.known
        /\ row.password = users[e].password /\ row.session = users[e].session
    BY <1>0, <2>1 DEF UserRow
  <2>3. /\ users' = [users EXCEPT ![e] = row] /\ UNCHANGED <<held, latest, log>>
        /\ req' = [req EXCEPT ![w] = Idle]
    BY <1>3 DEF UpsertRequester, Finish
  <2>4. users[e].session => users[e].password # Nil
    BY <2>1 DEF Inv, OnlyOwnersHold
  <2> HIDE DEF row
  <2> QED  BY <2>1, <2>2, <2>3, <2>4, IdleShape, RowIsWritten
<1>4. CASE FindUser(w)
  <2>1. CASE users[e].known
    <3>1. Shape([r EXCEPT !.pc = "write"]) /\ Placed([r EXCEPT !.pc = "write"], users)
      BY <1>0, <1>4, <2>1, NextShape DEF FindUser, At
    <3> QED  BY <1>0, <1>4, <2>1, <3>1, RequestMoves DEF FindUser, Goto, Unchanged
  <2>2. CASE ~users[e].known
    BY <1>0, <1>4, <2>2, IdleShape, RequestMoves DEF FindUser, Finish, Unchanged
  <2> QED  BY <2>1, <2>2
<1>5. CASE WriteUser(w)
  <2>1. r.pc = "write" /\ e \in Emails /\ users[e].known /\ r.ask \in Changes
        /\ r.role \in UserRole
    BY <1>0, <1>5 DEF WriteUser, At, Shape, Placed, Request
  <2>2. PICK row \in UserRow :
          /\ users' = [users EXCEPT ![e] = row] /\ row.known
          /\ row.password = users[e].password /\ row.session = users[e].session
    <3> DEFINE Row == {[users[e] EXCEPT !.role = r.role], [users[e] EXCEPT !.isActive = TRUE],
                       [users[e] EXCEPT !.isActive = FALSE]}
    <3>1. \A row \in Row :
            /\ row \in UserRow /\ row.known
            /\ row.password = users[e].password /\ row.session = users[e].session
      BY ZenonT(60), <1>0, <2>1 DEF UserRow
    <3>2. \E row \in Row : users' = [users EXCEPT ![e] = row]
      BY <1>5, <2>1 DEF WriteUser, Changes
    <3> QED  BY <3>1, <3>2
  <2> DEFINE q == [r EXCEPT !.pc = "record"]
  <2>3. users'[e].known
    BY <1>0, <2>1, <2>2
  <2>4. Shape([r EXCEPT !.pc = "record"]) /\ Placed([r EXCEPT !.pc = "record"], users')
    BY <1>0, <2>1, <2>3, NextShape
  <2>5. Shape(q) /\ Placed(q, users') /\ req' = [req EXCEPT ![w] = q]
        /\ UNCHANGED <<held, latest, log>>
    BY <1>5, <2>4 DEF WriteUser, Goto
  <2>6. users[e].session => users[e].password # Nil
    BY <2>1 DEF Inv, OnlyOwnersHold
  <2> HIDE DEF q
  <2> QED  BY <2>1, <2>2, <2>5, <2>6, RowIsWritten
<1>6. CASE RecordChange(w)
  <2>1. r.pc = "record" /\ e \in Emails /\ r.actor \in Emails
    BY <1>0, <1>6 DEF RecordChange, At, Shape
  <2>2. /\ req' = [req EXCEPT ![w] = Idle] /\ UNCHANGED <<users, held, latest>>
        /\ log' \subseteq Grant
    BY <1>0, <1>6, <2>1 DEF RecordChange, Finish, Grant
  <2> QED  BY <1>0, <2>2, IdleShape, RequestMoves
<1>7. Asked \subseteq UserRole /\ "REQUESTER" \in UserRole
      /\ {"role", "enable", "disable"} \subseteq Changes
  BY AskedAssumption DEF UserRole, Changes
<1> QED
  BY <1>1, <1>2, <1>3, <1>4, <1>5, <1>6, <1>7 DEF Account

\* The inductive invariant holds in every reachable state: what a request sends
\* is the row's at that moment, however the requests interleave.
THEOREM Invariant == Spec => []Inv
<1>1. Init => Inv
  <2> SUFFICES ASSUME Init PROVE Inv
    OBVIOUS
  <2>1. NoUser \in UserRow /\ ~NoUser.session /\ Shape(Idle) /\ Idle \in Request
    BY IdleShape DEF NoUser, UserRow, UserRole, Shape
  <2> QED  BY <2>1, IdleShape DEF Init, Inv, TypeInv, TypeOK, RowInv, OnlyOwnersHold
<1>2. Inv /\ [Next]_vars => Inv'
  <2> SUFFICES ASSUME Inv, [Next]_vars PROVE Inv'
    OBVIOUS
  <2>1. CASE Next
    BY <2>1, SessionKeeps, AccountKeeps DEF Next
  <2>2. CASE UNCHANGED vars
    BY <2>2 DEF vars, Inv, TypeInv, TypeOK, RowInv, OnlyOwnersHold, Placed, Sends
  <2> QED  BY <2>1, <2>2
<1> QED  BY <1>1, <1>2, PTL DEF Spec

\* Rows, records and requests keep to their types.
THEOREM TypeCorrect == Spec => []TypeOK
<1>1. Inv => TypeOK
  BY DEF Inv, TypeInv
<1> QED  BY <1>1, Invariant, PTL

\* Tokens are sent only to who gave the account's password, and an account
\* without a password never has a session, under every interleaving of
\* registrations, tickets, logins, refreshes and logouts.
THEOREM OwnersHoldTheirTokens == Spec => []OnlyOwnersHold
<1>1. Inv => OnlyOwnersHold
  BY DEF Inv
<1> QED  BY <1>1, Invariant, PTL

-----------------------------------------------------------------------------
(* Where authority comes from. *)

Bootstraps(r) == r.ask = "bootstrap" /\ r.pc \in {"tokens", "log"}
Booted ==
  \/ \E g \in log : g.action = "AUTH_BOOTSTRAP_ADMIN"
  \/ \E w \in Workers : Bootstraps(req[w])

\* What a step does to authority: nothing that vouches for an account is lost, and
\* an account that begins to rule is vouched for, by a bootstrap or a ruler.
AuthorityKept ==
  /\ \A f \in Emails : Vouched(f) => Vouched(f)'
  /\ Booted => Booted'
  /\ \A f \in Emails : Rules(f)' =>
       Rules(f) \/ (Vouched(f)' /\ (Booted' \/ \E a \in Emails : Rules(a)))

\* A step that makes no administrator and records nothing.
LEMMA QuietStep ==
  ASSUME Inv, NEW w \in Workers, NEW q, req' = [req EXCEPT ![w] = q], log' = log,
         Admins' \subseteq Admins,
         q.ask \in Changes => Rules(q.actor),
         \/ req[w].pc \notin {"tokens", "log", "record"}
         \/ req[w].pc = "log" /\ req[w].ask # "bootstrap"
         \/ req[w].pc = "tokens" /\ q.pc = "log" /\ q.ask = req[w].ask /\ q.user = req[w].user
  PROVE  AuthorityKept
<1>1. \A v \in Workers : req'[v] = IF v = w THEN q ELSE req[v]
  BY DEF Inv, TypeInv, TypeOK
<1>2. req[w].pc \in {"tokens", "log"} => req[w].ask \notin Changes
  BY DEF Inv, TypeInv, Shape, Sessions, Changes
<1>3. \A f \in Emails : Vouched(f) => Vouched(f)'
  <2> SUFFICES ASSUME NEW f \in Emails, NEW v \in Workers, Owes(v, f)
               PROVE  \E u \in Workers : Owes(u, f)'
    BY DEF Vouched
  <2>1. Owes(v, f)'
    BY <1>1, <1>2 DEF Owes, Changes
  <2> QED  BY <2>1
<1>4. Booted => Booted'
  <2> SUFFICES ASSUME NEW v \in Workers, Bootstraps(req[v])
               PROVE  Bootstraps(req'[v])
    BY DEF Booted
  <2> QED  BY <1>1 DEF Bootstraps
<1>5. \A f \in Emails : Rules(f)' => Rules(f)
  BY <1>1 DEF Rules
<1> QED  BY <1>3, <1>4, <1>5 DEF AuthorityKept

\* Steps of sessions: a bootstrap makes an administrator and records it.
LEMMA SessionAuthority ==
  ASSUME Inv, NEW w \in Workers, Session(w)
  PROVE  AuthorityKept
<1> DEFINE r == req[w]
           e == r.user
<1>0. /\ Shape(r) /\ r \in Request /\ Placed(r, users)
      /\ users \in [Emails -> UserRow] /\ req \in [Workers -> Request]
  BY DEF Inv, TypeInv, RowInv, TypeOK
<1>1. Nil \notin Changes /\ \A a \in Sessions \cup {"logout"} : a \notin Changes
  BY NilAssumption DEF Changes, Handler, Sessions
<1>2. ASSUME NEW pc, NEW ask \in Sessions \cup {"logout"}, NEW f, NEW p, NEW role,
             Arrive(w, ask, pc, f, f, p, role), Unchanged
      PROVE  AuthorityKept
  <2> DEFINE q == [pc |-> pc, ask |-> ask, user |-> f, actor |-> f,
                   password |-> p, role |-> role]
  <2>1. /\ req' = [req EXCEPT ![w] = q] /\ log' = log /\ Admins' = Admins
        /\ r.pc = "idle" /\ q.ask \notin Changes
    BY <1>1, <1>2 DEF Arrive, At, Unchanged, Admins
  <2> HIDE DEF q
  <2> QED  BY <2>1, QuietStep
<1>3. ASSUME NEW f \in Emails, NEW p \in Passwords,
             Register(w, f, p) \/ Bootstrap(w, f, p) \/ Login(w, f, p) \/ Refresh(w, f, p)
      PROVE  AuthorityKept
  BY <1>2, <1>3 DEF Register, Bootstrap, Login, Refresh, Sessions
<1>4. ASSUME NEW f \in Emails, Logout(w, f)  PROVE AuthorityKept
  BY <1>2, <1>4 DEF Logout
<1>5. Idle.ask \notin Changes
  BY <1>1 DEF Idle
<1>6. CASE FindEmail(w)
  <2>1. r.pc = "find" /\ log' = log /\ Admins' = Admins
    BY <1>6 DEF FindEmail, At, Unchanged, Admins
  <2>2. CASE users[e].known
    BY <1>5, <1>6, <2>1, <2>2, QuietStep DEF FindEmail, Finish
  <2>3. CASE ~users[e].known
    <3> DEFINE q == [r EXCEPT !.pc = "create"]
    <3>1. req' = [req EXCEPT ![w] = q]
      BY <1>6, <2>3 DEF FindEmail, Goto
    <3>2. q.ask = r.ask
      BY <1>0 DEF Request
    <3>3. q.ask \notin Changes
      BY <1>0, <1>1, <2>1, <3>2 DEF Shape
    <3> HIDE DEF q
    <3> QED  BY <2>1, <3>1, <3>3, QuietStep
  <2> QED  BY <2>2, <2>3
<1>7. CASE CreateUser(w)
  <2>1. r.pc = "create" /\ log' = log /\ e \in Emails /\ r.ask \in Sessions
    BY <1>0, <1>7 DEF CreateUser, At, Shape
  <2>2. CASE users[e].known
    <3>1. Admins' = Admins
      BY <1>7, <2>2 DEF CreateUser, Admins
    <3> QED  BY <1>5, <1>7, <2>1, <2>2, <3>1, QuietStep DEF CreateUser, Finish
  <2>3. CASE ~users[e].known
    <3> DEFINE q == [r EXCEPT !.pc = "tokens"]
    <3>1. req' = [req EXCEPT ![w] = q]
      BY <1>7, <2>3 DEF CreateUser, Goto
    <3>2. q.ask = r.ask /\ q.user = e /\ q.pc = "tokens"
      BY <1>0 DEF Request
    <3> HIDE DEF q
    <3>3. \A v \in Workers : req'[v] = IF v = w THEN q ELSE req[v]
      BY <1>0, <3>1
    <3>4. Admins' \subseteq Admins \cup (IF r.role = "ADMIN" THEN {e} ELSE {})
      BY <1>0, <1>7, <2>1, <2>3 DEF CreateUser, Admins, NoUser
    <3>5. CASE r.role # "ADMIN"
      <4>1. q.ask \notin Changes /\ Admins' \subseteq Admins
        BY <1>1, <2>1, <3>2, <3>4, <3>5
      <4> QED  BY <2>1, <3>1, <4>1, QuietStep
    <3>6. CASE r.role = "ADMIN"
      <4>1. r.ask = "bootstrap"
        BY <1>0, <2>1, <3>6 DEF Shape
      <4>2. Bootstraps(req'[w]) /\ \A f \in Emails : f = e => Owes(w, f)'
        BY <3>2, <3>3, <4>1 DEF Bootstraps, Owes
      <4>3. Booted' /\ \A f \in Emails : f = e => Vouched(f)'
        BY <4>2 DEF Booted, Vouched
      <4>4. \A f \in Emails : Vouched(f) => Vouched(f)'
        <5>1. \A f \in Emails, v \in Workers : Owes(v, f) => Owes(v, f)'
          BY <2>1, <3>3 DEF Owes
        <5> QED  BY <2>1, <5>1 DEF Vouched
      <4>5. \A f \in Emails : Rules(f)' => Rules(f) \/ f = e
        BY <1>1, <2>1, <3>2, <3>3, <3>4 DEF Rules
      <4> QED  BY <4>3, <4>4, <4>5 DEF AuthorityKept
    <3> QED  BY <3>5, <3>6
  <2> QED  BY <2>2, <2>3
<1>8. CASE SaveRefreshTokenHash(w) \/ ClearSession(w)
  <2> DEFINE q == [r EXCEPT !.pc = "log"]
  <2>1. req' = [req EXCEPT ![w] = q] /\ log' = log /\ r.pc \in {"tokens", "clear"}
    BY <1>8 DEF SaveRefreshTokenHash, ClearSession, Goto, At
  <2>2. q.ask = r.ask /\ q.user = e /\ q.pc = "log"
    BY <1>0 DEF Request
  <2>3. q.ask \notin Changes
    BY <1>0, <1>1, <2>1, <2>2 DEF Shape
  <2>4. \A f \in Emails : users'[f].role = users[f].role
    BY <1>0, <1>8 DEF SaveRefreshTokenHash, ClearSession, UserRow
  <2>5. Admins' = Admins
    BY <2>4 DEF Admins
  <2> HIDE DEF q
  <2> QED  BY <2>1, <2>2, <2>3, <2>5, QuietStep
<1>9. CASE LogSession(w)
  <2>1. r.pc = "log" /\ req' = [req EXCEPT ![w] = Idle] /\ Admins' = Admins /\ e \in Emails
    BY <1>0, <1>9 DEF LogSession, At, Finish, Admins, Shape
  <2>2. CASE r.ask # "bootstrap"
    BY <1>5, <1>9, <2>1, <2>2, QuietStep DEF LogSession
  <2>3. CASE r.ask = "bootstrap"
    <3> DEFINE g == [by |-> e, to |-> e, action |-> "AUTH_BOOTSTRAP_ADMIN"]
    <3>1. log' = log \cup {g} /\ g.by = e /\ g.to = e /\ g.action = "AUTH_BOOTSTRAP_ADMIN"
      BY <1>9, <2>3 DEF LogSession
    <3> HIDE DEF g
    <3>2. \A v \in Workers : req'[v] = IF v = w THEN Idle ELSE req[v]
      BY <1>0, <2>1
    <3>3. Booted' /\ \A f \in Emails : f = e => Vouched(f)'
      BY <3>1 DEF Booted, Vouched
    <3>4. \A f \in Emails : Vouched(f) => Vouched(f)'
      <4>1. \A f \in Emails, v \in Workers : Owes(v, f) => f = e \/ Owes(v, f)'
        BY <3>2 DEF Owes
      <4> QED  BY <3>1, <3>3, <4>1 DEF Vouched
    <3>5. \A f \in Emails : Rules(f)' => Rules(f) \/ f = e
      BY <1>5, <2>1, <3>1, <3>2 DEF Rules
    <3> QED  BY <3>3, <3>4, <3>5 DEF AuthorityKept
  <2> QED  BY <2>2, <2>3
<1> QED  BY <1>3, <1>4, <1>6, <1>7, <1>8, <1>9 DEF Session

\* Steps on accounts: who changes a role rules, and the record vouches for both.
LEMMA AccountAuthority ==
  ASSUME Inv, NEW w \in Workers, Account(w)
  PROVE  AuthorityKept
<1> DEFINE r == req[w]
           e == r.user
<1>0. /\ Shape(r) /\ r \in Request /\ Placed(r, users)
      /\ users \in [Emails -> UserRow] /\ req \in [Workers -> Request]
  BY DEF Inv, TypeInv, RowInv, TypeOK
<1>1. Idle.ask \notin Changes /\ "ticket" \notin Changes
  BY NilAssumption DEF Changes, Handler, Idle
<1>2. ASSUME NEW actor \in Emails, NEW f \in Emails, OpenTicket(w, actor, f)
      PROVE  AuthorityKept
  <2> DEFINE q == [pc |-> "upsert", ask |-> "ticket", user |-> f, actor |-> Nil,
                   password |-> Nil, role |-> "REQUESTER"]
  <2>1. /\ req' = [req EXCEPT ![w] = q] /\ log' = log /\ Admins' = Admins
        /\ r.pc = "idle" /\ q.ask \notin Changes
    BY <1>1, <1>2 DEF OpenTicket, Arrive, At, Unchanged, Admins
  <2> HIDE DEF q
  <2> QED  BY <2>1, QuietStep
<1>3. ASSUME NEW ask, NEW actor \in Emails, NEW f \in Emails, NEW role,
             ChangeUser(w, ask, actor, f, role)
      PROVE  AuthorityKept
  <2> DEFINE q == [pc |-> "before", ask |-> ask, user |-> f, actor |-> actor,
                   password |-> Nil, role |-> role]
  <2>1. /\ req' = [req EXCEPT ![w] = q] /\ log' = log /\ Admins' = Admins
        /\ r.pc = "idle" /\ q.actor \in Admins
    BY <1>3 DEF ChangeUser, Arrive, At, Unchanged, Admins
  <2>2. Rules(q.actor)
    BY <2>1 DEF Rules
  <2> HIDE DEF q
  <2> QED  BY <2>1, <2>2, QuietStep
<1>4. CASE UpsertRequester(w)
  <2>1. r.pc = "upsert" /\ req' = [req EXCEPT ![w] = Idle] /\ log' = log
    BY <1>4 DEF UpsertRequester, At, Finish
  <2>2. \A f \in Emails : users'[f].role = users[f].role
    BY <1>0, <1>4 DEF UpsertRequester, UserRow
  <2>3. Admins' = Admins
    BY <2>2 DEF Admins
  <2> QED  BY <1>1, <2>1, <2>3, QuietStep
<1>5. r.pc \in {"before", "write", "record"} =>
        r.ask \in Changes /\ e \in Emails /\ r.actor \in Emails /\ Rules(r.actor)
  BY <1>0 DEF Shape, Rules
<1>6. CASE FindUser(w)
  <2>1. r.pc = "before" /\ log' = log /\ Admins' = Admins
    BY <1>6 DEF FindUser, At, Unchanged, Admins
  <2>2. CASE users[e].known
    <3> DEFINE q == [r EXCEPT !.pc = "write"]
    <3>1. req' = [req EXCEPT ![w] = q]
      BY <1>6, <2>2 DEF FindUser, Goto
    <3>2. q.actor = r.actor
      BY <1>0 DEF Request
    <3>3. Rules(q.actor)
      BY <1>5, <2>1, <3>2
    <3> HIDE DEF q
    <3> QED  BY <2>1, <3>1, <3>3, QuietStep
  <2>3. CASE ~users[e].known
    BY <1>1, <1>6, <2>1, <2>3, QuietStep DEF FindUser, Finish
  <2> QED  BY <2>2, <2>3
<1>7. CASE WriteUser(w)
  <2> DEFINE q == [r EXCEPT !.pc = "record"]
  <2>1. r.pc = "write" /\ log' = log /\ req' = [req EXCEPT ![w] = q]
    BY <1>7 DEF WriteUser, At, Goto
  <2>2. q.actor = r.actor /\ q.ask = r.ask /\ q.role = r.role /\ q.user = e /\ q.pc = "record"
    BY <1>0 DEF Request
  <2> HIDE DEF q
  <2>3. \A v \in Workers : req'[v] = IF v = w THEN q ELSE req[v]
    BY <1>0, <2>1
  <2>4. \A f \in Emails : users'[f].role =
          IF r.ask = "role" /\ f = e THEN r.role ELSE users[f].role
    BY <1>0, <1>5, <1>7, <2>1 DEF WriteUser, Changes, UserRow
  <2>5. Rules(r.actor) /\ Rules(q.actor)
    BY <1>5, <2>1, <2>2
  <2>6. CASE ~(r.ask = "role" /\ r.role = "ADMIN")
    <3>1. Admins' \subseteq Admins
      BY <2>4, <2>6 DEF Admins
    <3> QED  BY <2>1, <2>5, <3>1, QuietStep
  <2>7. CASE r.ask = "role" /\ r.role = "ADMIN"
    <3>1. \A f \in Emails : f = e => Owes(w, f)'
      BY <2>2, <2>3, <2>7 DEF Owes
    <3>2. \A f \in Emails : f = e => Vouched(f)'
      BY <3>1 DEF Vouched
    <3>3. \A f \in Emails, v \in Workers : Owes(v, f) => Owes(v, f)'
      BY <1>5, <2>1, <2>3 DEF Owes, Changes
    <3>4. \A f \in Emails : Vouched(f) => Vouched(f)'
      BY <2>1, <3>3 DEF Vouched
    <3>5. \A v \in Workers : Bootstraps(req[v]) => Bootstraps(req'[v])
      BY <1>5, <2>1, <2>3 DEF Bootstraps, Changes
    <3>6. Booted => Booted'
      BY <2>1, <3>5 DEF Booted
    <3>7. \A f \in Emails : Rules(f)' => Rules(f) \/ f = e
      BY <1>5, <2>1, <2>2, <2>3, <2>4 DEF Rules, Admins
    <3> QED  BY <1>5, <2>1, <2>5, <3>2, <3>4, <3>6, <3>7 DEF AuthorityKept
  <2> QED  BY <2>6, <2>7
<1>8. CASE RecordChange(w)
  <2>1. r.pc = "record" /\ req' = [req EXCEPT ![w] = Idle] /\ users' = users
    BY <1>8 DEF RecordChange, At, Finish
  <2>2. Admins' = Admins
    BY <2>1 DEF Admins
  <2>3. \A v \in Workers : req'[v] = IF v = w THEN Idle ELSE req[v]
    BY <1>0, <2>1
  <2>4. log \subseteq log' /\ \A g \in log' : g \in log \/ g.by = r.actor
    BY <1>8 DEF RecordChange
  <2>5. r.ask = "role" /\ r.role = "ADMIN" => \E g \in log' : g.to = e
    <3> DEFINE g == [by |-> r.actor, to |-> e, action |-> "USER_ROLE_CHANGED"]
    <3>1. r.ask = "role" /\ r.role = "ADMIN" => g \in log'
      BY <1>8 DEF RecordChange
    <3>2. g.to = e
      OBVIOUS
    <3> QED  BY <3>1, <3>2
  <2>6. \A f \in Emails, v \in Workers :
          Owes(v, f) => Owes(v, f)' \/ \E g \in log' : g.to = f
    BY <1>5, <2>1, <2>3, <2>5 DEF Owes, Changes
  <2>7. \A f \in Emails : Vouched(f) => Vouched(f)'
    BY <2>4, <2>6 DEF Vouched
  <2>8. \A v \in Workers : Bootstraps(req[v]) => Bootstraps(req'[v])
    BY <1>5, <2>1, <2>3 DEF Bootstraps, Changes
  <2>9. Booted => Booted'
    BY <2>4, <2>8 DEF Booted
  <2>10. \A f \in Emails : Rules(f)' => Rules(f)
    BY <1>1, <1>5, <2>1, <2>2, <2>3, <2>4 DEF Rules
  <2> QED  BY <2>7, <2>9, <2>10 DEF AuthorityKept
<1> QED  BY <1>2, <1>3, <1>4, <1>6, <1>7, <1>8 DEF Account

\* Whoever is or acts as an administrator was made one by a recorded act, and the
\* first such act was a bootstrap, whatever roles are taken away meanwhile.
THEOREM AuthorityIsTraced == Spec => []AuthorityTraced
<1>1. Init => AuthorityTraced
  <2> SUFFICES ASSUME Init PROVE \A e \in Emails : ~Rules(e)
    BY DEF AuthorityTraced
  <2> QED  BY NilAssumption DEF Init, Rules, Admins, NoUser, Idle, Changes, Handler
<1>2. AuthorityTraced <=>
        /\ \A e \in Emails : Rules(e) => Vouched(e)
        /\ (\E e \in Emails : Rules(e)) => Booted
  BY DEF AuthorityTraced, Booted, Bootstraps
<1>3. Inv /\ AuthorityTraced /\ [Next]_vars => AuthorityTraced'
  <2> SUFFICES ASSUME Inv, AuthorityTraced, [Next]_vars PROVE AuthorityTraced'
    OBVIOUS
  <2>1. CASE Next
    <3>1. AuthorityKept
      BY <2>1, SessionAuthority, AccountAuthority DEF Next
    <3>2. \A e \in Emails : Rules(e)' => Vouched(e)'
      BY <1>2, <3>1 DEF AuthorityKept
    <3>3. (\E e \in Emails : Rules(e)') => Booted'
      BY <1>2, <3>1 DEF AuthorityKept
    <3> QED  BY <3>2, <3>3 DEF AuthorityTraced, Booted, Bootstraps
  <2>2. CASE UNCHANGED vars
    BY <2>2 DEF vars, AuthorityTraced, Rules, Vouched, Owes, Admins
  <2> QED  BY <2>1, <2>2
<1> QED  BY <1>1, <1>3, Invariant, PTL DEF Spec

-----------------------------------------------------------------------------
(* A service without an active administrator. *)

\* Requests after which no administrator is made or enabled.
Harmless(r) ==
  /\ r.pc \notin {"before", "write"}
  /\ ~(r.ask = "bootstrap" /\ r.pc \in {"find", "create"})

\* A harmless request leaves a service that has no active administrator without one.
LEMMA HarmlessStep ==
  ASSUME Inv, LockedOut, NEW w \in Workers, NEW q,
         req' = [req EXCEPT ![w] = q], Harmless(q), Admins' = Admins,
         \A a \in Admins : users'[a].isActive = users[a].isActive
  PROVE  LockedOut'
<1>1. \A v \in Workers : req'[v] = IF v = w THEN q ELSE req[v]
  BY DEF Inv, TypeInv, TypeOK
<1> QED  BY <1>1 DEF LockedOut, Harmless

\* No step brings an active administrator back.
LEMMA LockoutStep ==
  ASSUME Inv, Next, LockedOut
  PROVE  LockedOut'
<1> PICK w \in Workers : Session(w) \/ Account(w)
  BY DEF Next
<1> DEFINE r == req[w]
           e == r.user
<1>0. /\ Shape(r) /\ r \in Request /\ Placed(r, users)
      /\ users \in [Emails -> UserRow] /\ req \in [Workers -> Request]
      /\ Admins \subseteq Emails /\ Harmless(r)
  BY DEF Inv, TypeInv, RowInv, TypeOK, Admins, LockedOut, Harmless
<1>1. \A f \in Emails : ~users[f].known \/ Authenticated(f) => f \notin Admins
  BY DEF Inv, RowInv, NoUser, Admins, LockedOut, Authenticated
<1>2. Harmless(Idle)
  BY DEF Harmless, Idle
<1>3. ASSUME NEW pc \in {"create", "tokens", "clear", "upsert"},
             NEW ask \in {"register", "login", "refresh", "logout", "ticket"},
             NEW f, NEW actor, NEW p, NEW role,
             Arrive(w, ask, pc, f, actor, p, role), Unchanged
      PROVE  LockedOut'
  <2> DEFINE q == [pc |-> pc, ask |-> ask, user |-> f, actor |-> actor,
                   password |-> p, role |-> role]
  <2>1. /\ req' = [req EXCEPT ![w] = q] /\ Harmless(q) /\ Admins' = Admins
        /\ \A a \in Admins : users'[a].isActive = users[a].isActive
    BY <1>3 DEF Arrive, Unchanged, Harmless, Admins
  <2> HIDE DEF q
  <2> QED  BY <2>1, HarmlessStep
<1>4. ASSUME NEW f \in Emails, NEW p \in Passwords,
             Register(w, f, p) \/ Login(w, f, p) \/ Refresh(w, f, p)
      PROVE  LockedOut'
  BY <1>3, <1>4 DEF Register, Login, Refresh
<1>5. ASSUME NEW f \in Emails, NEW actor \in Emails, Logout(w, f) \/ OpenTicket(w, actor, f)
      PROVE  LockedOut'
  BY <1>3, <1>5 DEF Logout, OpenTicket
<1>6. ASSUME NEW f \in Emails, NEW p \in Passwords, Bootstrap(w, f, p)  PROVE FALSE
  BY <1>6 DEF Bootstrap, LockedOut
<1>7. ASSUME NEW ask, NEW actor \in Emails, NEW f \in Emails, NEW role,
             ChangeUser(w, ask, actor, f, role)
      PROVE  FALSE
  BY <1>1, <1>7 DEF ChangeUser
<1>8. ~FindUser(w) /\ ~WriteUser(w)
  <2>1. (FindUser(w) => r.pc = "before") /\ (WriteUser(w) => r.pc = "write")
    BY Zenon DEF FindUser, WriteUser, At
  <2> QED  BY <1>0, <2>1 DEF Harmless
<1>9. CASE FindEmail(w)
  <2>1. UNCHANGED users /\ Admins' = Admins /\ r.ask # "bootstrap"
    BY <1>0, <1>9 DEF FindEmail, At, Unchanged, Admins, Harmless
  <2>2. CASE users[e].known
    BY <1>2, <1>9, <2>1, <2>2, HarmlessStep DEF FindEmail, Finish
  <2>3. CASE ~users[e].known
    <3> DEFINE q == [r EXCEPT !.pc = "create"]
    <3>1. req' = [req EXCEPT ![w] = q]
      BY <1>9, <2>3 DEF FindEmail, Goto
    <3>2. Harmless(q)
      BY <1>0, <2>1 DEF Harmless, Request
    <3> HIDE DEF q
    <3> QED  BY <2>1, <3>1, <3>2, HarmlessStep
  <2> QED  BY <2>2, <2>3
<1>10. CASE CreateUser(w)
  <2>1. r.pc = "create" /\ e \in Emails /\ r.role = "REQUESTER"
    BY <1>0, <1>10 DEF CreateUser, At, Shape, Harmless
  <2>2. CASE users[e].known
    <3>1. UNCHANGED users /\ Admins' = Admins
      BY <1>10, <2>2 DEF CreateUser, Admins
    <3> QED  BY <1>2, <1>10, <2>2, <3>1, HarmlessStep DEF CreateUser, Finish
  <2>3. CASE ~users[e].known
    <3> DEFINE q == [r EXCEPT !.pc = "tokens"]
    <3>1. req' = [req EXCEPT ![w] = q]
      BY <1>10, <2>3 DEF CreateUser, Goto
    <3>2. Harmless(q)
      BY <1>0 DEF Harmless, Request
    <3> HIDE DEF q
    <3>3. /\ \A f \in Emails : f # e => users'[f] = users[f]
          /\ users'[e].role = "REQUESTER"
      BY <1>0, <1>10, <2>1, <2>3 DEF CreateUser, NoUser
    <3>4. e \notin Admins
      BY <1>1, <2>1, <2>3
    <3>5. Admins' = Admins /\ \A a \in Admins : users'[a].isActive = users[a].isActive
      BY <1>0, <2>1, <3>3, <3>4 DEF Admins
    <3> QED  BY <3>1, <3>2, <3>5, HarmlessStep
  <2> QED  BY <2>2, <2>3
<1>11. CASE SaveRefreshTokenHash(w) \/ ClearSession(w)
  <2> DEFINE q == [r EXCEPT !.pc = "log"]
  <2>1. req' = [req EXCEPT ![w] = q]
    BY <1>11 DEF SaveRefreshTokenHash, ClearSession, Goto
  <2>2. Harmless(q)
    BY <1>0 DEF Harmless, Request
  <2> HIDE DEF q
  <2>3. \A f \in Emails : users'[f].role = users[f].role /\ users'[f].isActive = users[f].isActive
    BY <1>0, <1>11 DEF SaveRefreshTokenHash, ClearSession, UserRow
  <2>4. Admins' = Admins
    BY <2>3 DEF Admins
  <2> QED  BY <1>0, <2>1, <2>2, <2>3, <2>4, HarmlessStep
<1>12. CASE UpsertRequester(w)
  <2>1. \A f \in Emails : users'[f].role = users[f].role /\ users'[f].isActive = users[f].isActive
    BY <1>0, <1>12 DEF UpsertRequester, UserRow
  <2>2. Admins' = Admins
    BY <2>1 DEF Admins
  <2> QED  BY <1>0, <1>2, <1>12, <2>1, <2>2, HarmlessStep DEF UpsertRequester, Finish
<1>13. CASE LogSession(w) \/ RecordChange(w)
  <2>1. users' = users /\ Admins' = Admins /\ req' = [req EXCEPT ![w] = Idle]
    BY <1>13 DEF LogSession, RecordChange, Finish, Admins
  <2> QED  BY <1>2, <2>1, HarmlessStep
<1> QED
  BY <1>4, <1>5, <1>6, <1>7, <1>8, <1>9, <1>10, <1>11, <1>12, <1>13 DEF Session, Account

\* Once no administrator is active, and no change is under way, nothing that the
\* service offers brings one back.
THEOREM LockoutLasts == Spec => LockoutIsFinal
<1>1. Inv /\ [Next]_vars => [LockedOut => LockedOut']_vars
  BY LockoutStep
<1> QED  BY <1>1, Invariant, PTL DEF Spec, LockoutIsFinal

-----------------------------------------------------------------------------
(* What a logout ends, when one request is served at a time. *)

Solo == \A v, w \in Workers : ~At(v, "idle") /\ ~At(w, "idle") => v = w

\* Of an account that does not exist no session is recorded.
KnownSessions == \A e \in Emails : latest[e] \in {"in", "out"} => users[e].known

\* After a logout the row holds a hash only while a login is about to be recorded.
EndedSessions ==
  \A e \in Emails : latest[e] = "out" /\ users[e].session =>
    \E w \in Workers : At(w, "log") /\ req[w].user = e /\ req[w].ask = "login"

\* A request that is no login and about to send tokens is of a session that no logout
\* has ended; a logout about to be recorded has cleared the hash.
Continues(r) ==
  /\ r.pc \in {"tokens", "log"} /\ r.ask \in {"register", "bootstrap", "refresh"} =>
       latest[r.user] # "out"
  /\ r.pc = "log" /\ r.ask = "logout" => ~users[r.user].session

LogoutInv ==
  /\ KnownSessions
  /\ load = 1 => Solo /\ EndedSessions /\ \A w \in Workers : Continues(req[w])

\* What a step does to the requests: one of them moves, and others rest if it is
\* the only one served.
LEMMA OneMoves ==
  ASSUME Inv, Inv', load = 1, Solo, NEW w \in Workers, NEW r, req' = [req EXCEPT ![w] = r],
         Cardinality(Busy') =< load
  PROVE  /\ Solo'
         /\ r.pc # "idle" => \A v \in Workers \ {w} : At(v, "idle") /\ At(v, "idle")'
<1>1. req'[w] = r /\ \A v \in Workers \ {w} : req'[v] = req[v]
  BY DEF Inv, TypeInv, TypeOK
<1>2. IsFiniteSet(Busy')
  <2>1. \E v \in Workers : Busy' \subseteq {v, w}
    BY <1>1 DEF Busy, Solo, At
  <2>2. PICK v \in Workers : Busy' \subseteq {v, w}
    BY <2>1
  <2>3. IsFiniteSet({v}) /\ {v} \cup {w} = {v, w}
    BY FS_Singleton
  <2>4. IsFiniteSet({v, w})
    BY <2>3, FS_AddElement
  <2> QED
    BY <2>2, <2>4, FS_Subset
<1>3. ASSUME NEW u \in Busy', NEW v \in Busy', u # v PROVE FALSE
  <2>1. {u, v} \subseteq Busy' /\ IsFiniteSet({u, v}) /\ Cardinality({u, v}) = 2
    <3>1. IsFiniteSet({u}) /\ Cardinality({u}) = 1 /\ {u} \cup {v} = {u, v} /\ v \notin {u}
      BY <1>3, FS_Singleton
    <3>2. /\ IsFiniteSet({u} \cup {v})
          /\ Cardinality({u} \cup {v}) = Cardinality({u}) + 1
      BY <3>1, FS_AddElement
    <3> QED
      BY <3>1, <3>2
  <2>2. Cardinality({u, v}) =< Cardinality(Busy')
    BY <1>2, <2>1, FS_Subset
  <2>3. Cardinality(Busy') \in Nat
    BY <1>2, FS_CardinalityType
  <2> QED
    BY <2>1, <2>2, <2>3
<1>4. Solo'
  BY <1>3 DEF Solo, Busy, At
<1> QED
  BY <1>1, <1>4 DEF Solo, At

\* A step that neither begins nor ends nor records a session.
LEMMA SessionsRest ==
  ASSUME Inv, Inv', LogoutInv, UNCHANGED <<latest, load>>, Cardinality(Busy') =< load,
         NEW w \in Workers, NEW r, req' = [req EXCEPT ![w] = r], req[w].pc # "log",
         \A e \in Emails : /\ users[e].known => users'[e].known
                           /\ users'[e].session = users[e].session,
         load = 1 => Continues(r) \/ r.pc \notin {"tokens", "log"}
  PROVE  LogoutInv'
<1>1. req'[w] = r /\ \A v \in Workers \ {w} : req'[v] = req[v]
  BY DEF Inv, TypeInv, TypeOK
<1>2. KnownSessions'
  BY DEF LogoutInv, KnownSessions
<1>3. ASSUME load = 1 PROVE Solo'
  BY <1>3, OneMoves DEF LogoutInv
<1>4. ASSUME load = 1 PROVE EndedSessions'
  <2> SUFFICES ASSUME NEW e \in Emails, latest[e] = "out", users[e].session
               PROVE  \E v \in Workers : /\ req'[v].pc = "log" /\ req'[v].user = e
                                         /\ req'[v].ask = "login"
    BY DEF EndedSessions, At
  <2>1. PICK v \in Workers : At(v, "log") /\ req[v].user = e /\ req[v].ask = "login"
    BY <1>4 DEF LogoutInv, EndedSessions
  <2>2. v # w
    BY <2>1 DEF At
  <2> QED
    BY <1>1, <2>1, <2>2 DEF At
<1>5. ASSUME load = 1, NEW v \in Workers PROVE Continues(req[v])'
  <2>1. CASE v = w
    <3>1. Shape(r)
      BY <1>1 DEF Inv, TypeInv, Shape, Request, Changes, Sessions, Handler, UserRole
    <3> QED
      BY <1>1, <1>5, <2>1, <3>1 DEF Continues, Shape
  <2>2. CASE v # w
    <3>1. Continues(req[v]) /\ req'[v] = req[v]
      BY <1>1, <1>5, <2>2 DEF LogoutInv
    <3>2. Shape(req[v])
      BY DEF Inv, TypeInv
    <3> QED
      BY <3>1, <3>2 DEF Continues, Shape
  <2> QED
    BY <2>1, <2>2
<1> QED
  BY <1>2, <1>3, <1>4, <1>5 DEF LogoutInv

\* A refresh goes on with a session that no logout has ended.
LEMMA RefreshContinues ==
  ASSUME Inv, Inv', LogoutInv, load = 1, Cardinality(Busy') =< load,
         NEW w \in Workers, NEW e \in Emails, NEW r, r.pc = "tokens",
         req' = [req EXCEPT ![w] = r], At(w, "idle"), users[e].session
  PROVE  latest[e] # "out"
<1>1. \A v \in Workers : At(v, "idle")
  BY OneMoves DEF LogoutInv
<1> QED
  BY <1>1 DEF LogoutInv, EndedSessions, At

\* Session actions but those that write or record a session.
LEMMA SessionLogout ==
  ASSUME Inv, Inv', LogoutInv, UNCHANGED load, Cardinality(Busy') =< load,
         NEW w \in Workers, Session(w), ~SaveRefreshTokenHash(w), ~ClearSession(w),
         ~LogSession(w)
  PROVE  LogoutInv'
<1>1. /\ users \in [Emails -> UserRow] /\ req \in [Workers -> Request]
      /\ req[w] \in Request /\ Shape(req[w])
  BY DEF Inv, TypeInv, TypeOK
<1>2. ASSUME NEW r, req' = [req EXCEPT ![w] = r], UNCHANGED <<users, latest>>,
             req[w].pc # "log", load = 1 => Continues(r) \/ r.pc \notin {"tokens", "log"}
      PROVE  LogoutInv'
  BY <1>2, SessionsRest DEF Continues
<1>3. ASSUME NEW e \in Emails, NEW p \in Passwords, Register(w, e, p) \/ Bootstrap(w, e, p)
      PROVE  LogoutInv'
  <2>1. PICK ask, pc, role : /\ pc \in {"create", "find"}
          /\ req' = [req EXCEPT ![w] = [pc |-> pc, ask |-> ask, user |-> e, actor |-> e,
                                        password |-> p, role |-> role]]
          /\ At(w, "idle") /\ Unchanged
    BY <1>3 DEF Register, Bootstrap, Arrive
  <2> QED
    BY <1>2, <2>1 DEF Unchanged, At
<1>4. ASSUME NEW e \in Emails, NEW p \in Passwords, Login(w, e, p)
      PROVE  LogoutInv'
  <2> DEFINE r == [pc |-> "tokens", ask |-> "login", user |-> e, actor |-> e,
                   password |-> p, role |-> "REQUESTER"]
  <2>1. req' = [req EXCEPT ![w] = r] /\ At(w, "idle") /\ Unchanged
    BY <1>4 DEF Login, Arrive
  <2>2. Continues(r)
    BY DEF Continues
  <2> HIDE DEF r
  <2> QED
    BY <1>2, <2>1, <2>2 DEF Unchanged, At
<1>5. ASSUME NEW e \in Emails, NEW p \in Passwords, Refresh(w, e, p)
      PROVE  LogoutInv'
  <2> DEFINE r == [pc |-> "tokens", ask |-> "refresh", user |-> e, actor |-> e,
                   password |-> p, role |-> "REQUESTER"]
  <2>1. /\ req' = [req EXCEPT ![w] = r] /\ At(w, "idle") /\ Unchanged
        /\ users[e].session
    BY <1>5 DEF Refresh, Arrive
  <2>2. r.pc = "tokens" /\ r.user = e /\ r.ask = "refresh"
    OBVIOUS
  <2> HIDE DEF r
  <2>3. load = 1 => Continues(r)
    BY <2>1, <2>2, RefreshContinues DEF Continues
  <2> QED
    BY <1>2, <2>1, <2>3 DEF Unchanged, At
<1>6. ASSUME NEW e \in Emails, Logout(w, e)
      PROVE  LogoutInv'
  <2>1. /\ req' = [req EXCEPT ![w] = [pc |-> "clear", ask |-> "logout", user |-> e,
                              actor |-> e, password |-> Nil, role |-> "REQUESTER"]]
        /\ At(w, "idle") /\ Unchanged
    BY <1>6 DEF Logout, Arrive
  <2> QED
    BY <1>2, <2>1 DEF Unchanged, At
<1>7. CASE FindEmail(w)
  <2>1. \E r \in {Idle, [req[w] EXCEPT !.pc = "create"]} : req' = [req EXCEPT ![w] = r]
    BY <1>7 DEF FindEmail, Finish, Goto
  <2>2. \A r \in {Idle, [req[w] EXCEPT !.pc = "create"]} : r.pc \in {"idle", "create"}
    BY <1>1 DEF Idle, Request
  <2> QED
    BY <1>2, <1>7, <2>1, <2>2 DEF FindEmail, Unchanged, At
<1>8. CASE CreateUser(w)
  <2> DEFINE e == req[w].user
             r == [req[w] EXCEPT !.pc = "tokens"]
  <2>1. CASE users[e].known
    BY <1>2, <1>8, <2>1 DEF CreateUser, Finish, At, Idle
  <2>2. CASE ~users[e].known
    <3>1. /\ req' = [req EXCEPT ![w] = r] /\ req[w].pc = "create" /\ UNCHANGED latest
          /\ users' = [users EXCEPT ![e] = [NoUser EXCEPT !.known = TRUE,
                         !.password = req[w].password, !.role = req[w].role]]
      BY <1>8, <2>2 DEF CreateUser, Goto, At
    <3>2. e \in Emails /\ users[e] = NoUser /\ latest[e] \notin {"in", "out"}
      BY <1>1, <2>2, <3>1 DEF Shape, Inv, RowInv, LogoutInv, KnownSessions
    <3>3. /\ [NoUser EXCEPT !.known = TRUE, !.password = req[w].password,
                            !.role = req[w].role].known
          /\ [NoUser EXCEPT !.known = TRUE, !.password = req[w].password,
                            !.role = req[w].role].session = NoUser.session
      BY DEF NoUser
    <3>4. \A f \in Emails : /\ users[f].known => users'[f].known
                            /\ users'[f].session = users[f].session
      BY <1>1, <3>1, <3>2, <3>3
    <3>5. r.pc = "tokens" /\ r.user = e
      BY <1>1 DEF Request
    <3> HIDE DEF r
    <3>6. Continues(r)
      BY <3>1, <3>2, <3>5 DEF Continues
    <3> QED
      BY <3>1, <3>4, <3>6, SessionsRest
  <2> QED
    BY <2>1, <2>2
<1> QED
  BY <1>3, <1>4, <1>5, <1>6, <1>7, <1>8 DEF Session

\* Changes of accounts leave sessions alone.
LEMMA AccountLogout ==
  ASSUME Inv, Inv', LogoutInv, UNCHANGED load, Cardinality(Busy') =< load,
         NEW w \in Workers, Account(w)
  PROVE  LogoutInv'
<1>1. /\ users \in [Emails -> UserRow] /\ req \in [Workers -> Request]
      /\ req[w] \in Request /\ Shape(req[w])
  BY DEF Inv, TypeInv, TypeOK
<1>2. ASSUME NEW r, req' = [req EXCEPT ![w] = r], UNCHANGED latest, req[w].pc # "log",
             r.pc \notin {"tokens", "log"},
             NEW e, NEW row, users' = [users EXCEPT ![e] = row],
             e \in Emails => row.session = users[e].session /\ (users[e].known => row.known)
      PROVE  LogoutInv'
  <2>1. \A f \in Emails : /\ users[f].known => users'[f].known
                          /\ users'[f].session = users[f].session
    BY <1>1, <1>2
  <2> QED
    BY <1>2, <2>1, SessionsRest
<1>3. ASSUME NEW r, req' = [req EXCEPT ![w] = r], UNCHANGED <<users, latest>>,
             req[w].pc # "log", r.pc \notin {"tokens", "log"}
      PROVE  LogoutInv'
  BY <1>3, SessionsRest
<1>4. ASSUME NEW actor \in Emails, NEW e \in Emails, OpenTicket(w, actor, e)
      PROVE  LogoutInv'
  BY <1>3, <1>4 DEF OpenTicket, Arrive, Unchanged, At
<1>5. ASSUME NEW ask, NEW actor \in Emails, NEW e \in Emails, NEW role,
             ChangeUser(w, ask, actor, e, role)
      PROVE  LogoutInv'
  BY <1>3, <1>5 DEF ChangeUser, Arrive, Unchanged, At
<1>6. CASE UpsertRequester(w)
  <2> DEFINE e == req[w].user
             row == [users[e] EXCEPT !.known = TRUE]
  <2>1. e \in Emails => row.session = users[e].session /\ row.known
    BY <1>1 DEF UserRow
  <2>2. users' = [users EXCEPT ![e] = row] /\ req' = [req EXCEPT ![w] = Idle]
    BY <1>6 DEF UpsertRequester, Finish
  <2> HIDE DEF row
  <2> QED
    BY <1>2, <1>6, <2>1, <2>2 DEF UpsertRequester, At, Idle
<1>7. CASE FindUser(w)
  <2>1. \E r \in {Idle, [req[w] EXCEPT !.pc = "write"]} : req' = [req EXCEPT ![w] = r]
    BY <1>7 DEF FindUser, Finish, Goto
  <2>2. \A r \in {Idle, [req[w] EXCEPT !.pc = "write"]} : r.pc \in {"idle", "write"}
    BY <1>1 DEF Idle, Request
  <2> QED
    BY <1>3, <1>7, <2>1, <2>2 DEF FindUser, Unchanged, At
<1>8. CASE WriteUser(w)
  <2> DEFINE e == req[w].user
             r == [req[w] EXCEPT !.pc = "record"]
             Rows == {[users[e] EXCEPT !.role = req[w].role],
                      [users[e] EXCEPT !.isActive = TRUE],
                      [users[e] EXCEPT !.isActive = FALSE]}
  <2>1. \A row \in Rows :
          e \in Emails => row.session = users[e].session /\ row.known = users[e].known
    BY <1>1 DEF UserRow
  <2>2. \E row \in Rows : users' = [users EXCEPT ![e] = row]
    BY <1>1, <1>8 DEF WriteUser, At, Shape, Changes
  <2>3. req' = [req EXCEPT ![w] = r] /\ r.pc = "record"
    BY <1>1, <1>8 DEF WriteUser, Goto, Request
  <2>4. req[w].pc = "write" /\ UNCHANGED latest
    BY <1>8 DEF WriteUser, At
  <2> HIDE DEF Rows, r, e
  <2>5. PICK row \in Rows : users' = [users EXCEPT ![e] = row]
    BY <2>2
  <2>6. e \in Emails => row.session = users[e].session /\ (users[e].known => row.known)
    BY <2>1, <2>5
  <2> QED
    BY <1>2, <2>3, <2>4, <2>5, <2>6
<1>9. CASE RecordChange(w)
  BY <1>3, <1>9 DEF RecordChange, Finish, At, Idle
<1> QED
  BY <1>4, <1>5, <1>6, <1>7, <1>8, <1>9 DEF Account

\* A login, a refresh or a registration writes the hash.
LEMMA SaveKeepsLogout ==
  ASSUME Inv, Inv', LogoutInv, UNCHANGED load, Cardinality(Busy') =< load,
         NEW w \in Workers, SaveRefreshTokenHash(w)
  PROVE  LogoutInv'
<1> DEFINE e == req[w].user
           r == [req[w] EXCEPT !.pc = "log"]
           row == [users[e] EXCEPT !.session = TRUE]
<1>1. /\ users \in [Emails -> UserRow] /\ req \in [Workers -> Request]
      /\ req[w] \in Request /\ Shape(req[w]) /\ req[w].pc = "tokens"
      /\ req' = [req EXCEPT ![w] = r] /\ users' = [users EXCEPT ![e] = row]
      /\ UNCHANGED latest
  BY DEF Inv, TypeInv, TypeOK, SaveRefreshTokenHash, At, Goto
<1>2. e \in Emails /\ row.known = users[e].known /\ req[w].ask \in Sessions
  BY <1>1 DEF Shape, UserRow
<1>3. r.pc = "log" /\ r.user = e /\ r.ask = req[w].ask
  BY <1>1 DEF Request
<1> HIDE DEF r, row, e
<1>4. \A f \in Emails \ {e} : users'[f] = users[f]
  BY <1>1
<1>5. KnownSessions'
  BY <1>1, <1>2, <1>4 DEF LogoutInv, KnownSessions
<1>6. ASSUME load = 1 PROVE Solo' /\ \A v \in Workers \ {w} : req'[v].pc = "idle"
  BY <1>1, <1>3, <1>6, OneMoves DEF LogoutInv, At
<1>7. ASSUME load = 1 PROVE Continues(req[w]) /\ \A v \in Workers : req[v].pc # "log"
  BY <1>1, <1>7 DEF LogoutInv, Solo, At
<1>8. req'[w] = r
  BY <1>1
<1>9. ASSUME load = 1 PROVE EndedSessions'
  <2> SUFFICES ASSUME NEW f \in Emails, latest'[f] = "out", users'[f].session
               PROVE  \E v \in Workers : /\ req'[v].pc = "log" /\ req'[v].user = f
                                         /\ req'[v].ask = "login"
    BY DEF EndedSessions, At
  <2>1. f = e
    BY <1>1, <1>4, <1>7, <1>9 DEF LogoutInv, EndedSessions, At
  <2>2. req[w].ask = "login"
    BY <1>1, <1>2, <1>7, <1>9, <2>1 DEF Continues, Sessions, e
  <2> QED
    BY <1>3, <1>8, <2>1, <2>2
<1>10. ASSUME load = 1, NEW v \in Workers PROVE Continues(req[v])'
  <2>1. CASE v = w
    BY <1>1, <1>2, <1>3, <1>7, <1>8, <1>10, <2>1 DEF Continues, Sessions, e
  <2>2. CASE v # w
    BY <1>6, <1>10, <2>2 DEF Continues
  <2> QED
    BY <2>1, <2>2
<1> QED
  BY <1>5, <1>6, <1>9, <1>10 DEF LogoutInv

\* A logout clears it.
LEMMA ClearKeepsLogout ==
  ASSUME Inv, Inv', LogoutInv, UNCHANGED load, Cardinality(Busy') =< load,
         NEW w \in Workers, ClearSession(w)
  PROVE  LogoutInv'
<1> DEFINE e == req[w].user
           r == [req[w] EXCEPT !.pc = "log"]
           row == [users[e] EXCEPT !.session = FALSE]
<1>1. /\ users \in [Emails -> UserRow] /\ req \in [Workers -> Request]
      /\ req[w] \in Request /\ Shape(req[w]) /\ req[w].pc = "clear"
      /\ req' = [req EXCEPT ![w] = r] /\ users' = [users EXCEPT ![e] = row]
      /\ UNCHANGED latest
  BY DEF Inv, TypeInv, TypeOK, ClearSession, At, Goto
<1>2. /\ e \in Emails /\ row.known = users[e].known /\ ~row.session
      /\ req[w].ask = "logout"
  BY <1>1 DEF Shape, UserRow
<1>3. r.pc = "log" /\ r.user = e /\ r.ask = req[w].ask
  BY <1>1 DEF Request
<1> HIDE DEF r, row, e
<1>4. users'[e] = row /\ \A f \in Emails \ {e} : users'[f] = users[f]
  BY <1>1, <1>2
<1>5. KnownSessions'
  BY <1>1, <1>2, <1>4 DEF LogoutInv, KnownSessions
<1>6. ASSUME load = 1 PROVE Solo' /\ \A v \in Workers \ {w} : req'[v].pc = "idle"
  BY <1>1, <1>3, <1>6, OneMoves DEF LogoutInv, At
<1>7. ASSUME load = 1 PROVE \A v \in Workers : req[v].pc # "log"
  BY <1>1, <1>7 DEF LogoutInv, Solo, At
<1>8. req'[w] = r
  BY <1>1
<1>9. ASSUME load = 1 PROVE EndedSessions'
  BY <1>1, <1>2, <1>4, <1>7, <1>9 DEF LogoutInv, EndedSessions, At
<1>10. ASSUME load = 1, NEW v \in Workers PROVE Continues(req[v])'
  <2>1. CASE v = w
    BY <1>2, <1>3, <1>4, <1>8, <2>1 DEF Continues
  <2>2. CASE v # w
    BY <1>6, <1>10, <2>2 DEF Continues
  <2> QED
    BY <2>1, <2>2
<1> QED
  BY <1>5, <1>6, <1>9, <1>10 DEF LogoutInv

\* The record says so.
LEMMA LogKeepsLogout ==
  ASSUME Inv, Inv', LogoutInv, UNCHANGED load, Cardinality(Busy') =< load,
         NEW w \in Workers, LogSession(w)
  PROVE  /\ LogoutInv'
         /\ load = 1 => \A e \in Emails, v \in Workers :
              latest[e] = "out" /\ latest'[e] = "in" /\ At(v, "log") => req[v].ask = "login"
<1> DEFINE e == req[w].user
<1>1. /\ req \in [Workers -> Request] /\ Shape(req[w]) /\ req[w].pc = "log"
      /\ latest \in [Emails -> {Nil, "in", "out"}]
      /\ req' = [req EXCEPT ![w] = Idle] /\ UNCHANGED users
      /\ latest' = [latest EXCEPT ![e] = IF req[w].ask = "logout" THEN "out" ELSE "in"]
  BY DEF Inv, TypeInv, TypeOK, LogSession, At, Finish
<1>2. e \in Emails /\ users[e].known /\ (req[w].ask = "logout" \/ req[w].ask \in Sessions)
  BY <1>1 DEF Shape, Inv, RowInv, Placed
<1> HIDE DEF e
<1>3. /\ latest'[e] = IF req[w].ask = "logout" THEN "out" ELSE "in"
      /\ \A f \in Emails \ {e} : latest'[f] = latest[f]
  BY <1>1, <1>2
<1>4. KnownSessions'
  BY <1>1, <1>2, <1>3 DEF LogoutInv, KnownSessions
<1>5. ASSUME load = 1 PROVE Solo'
  BY <1>1, <1>5, OneMoves DEF LogoutInv
<1>6. ASSUME load = 1
      PROVE  Continues(req[w]) /\ \A v \in Workers : ~At(v, "idle") => v = w
  BY <1>1, <1>6 DEF LogoutInv, Solo, At
<1>7. ASSUME load = 1, NEW v \in Workers PROVE req'[v].pc = "idle"
  BY <1>1, <1>6, <1>7 DEF At, Idle
<1>8. ASSUME load = 1 PROVE EndedSessions'
  <2> SUFFICES ASSUME NEW f \in Emails, latest'[f] = "out", users'[f].session
               PROVE  FALSE
    BY DEF EndedSessions
  <2>1. CASE f = e
    BY <1>1, <1>3, <1>6, <1>8, <2>1 DEF Continues, e
  <2>2. CASE f # e
    <3>1. PICK v \in Workers : At(v, "log") /\ req[v].user = f
      BY <1>1, <1>3, <1>8, <2>2 DEF LogoutInv, EndedSessions
    <3> QED
      BY <1>6, <1>8, <2>2, <3>1 DEF At, e
  <2> QED
    BY <2>1, <2>2
<1>9. ASSUME load = 1, NEW v \in Workers PROVE Continues(req[v])'
  BY <1>7, <1>9 DEF Continues
<1>10. ASSUME load = 1, NEW f \in Emails, NEW v \in Workers, latest[f] = "out",
              latest'[f] = "in", At(v, "log")
       PROVE  req[v].ask = "login"
  <2>1. f = e
    BY <1>3, <1>10
  <2>2. v = w
    BY <1>6, <1>10 DEF At
  <2> QED
    BY <1>1, <1>2, <1>3, <1>6, <1>10, <2>1, <2>2 DEF Continues, Sessions, e
<1> QED
  BY <1>4, <1>5, <1>8, <1>9, <1>10 DEF LogoutInv

\* When one request is served at a time, a session that a logout has ended begins
\* again with a login only, for any number of accounts and passwords.
THEOREM LogoutsHold == MCSpec => LogoutHolds
<1>1. Init => LogoutInv
  BY NilAssumption DEF Init, LogoutInv, KnownSessions, Solo, EndedSessions, Continues, At,
     Idle, NoUser
<1>2. MCSpec => Spec
  <2>1. [MCNext]_<<vars, load>> => [Next]_vars
    BY DEF MCNext
  <2> QED
    BY <2>1, PTL DEF MCSpec, MCInit, Spec
<1>3. Inv /\ Inv' /\ LogoutInv /\ [MCNext]_<<vars, load>> => LogoutInv'
  <2> SUFFICES ASSUME Inv, Inv', LogoutInv, [MCNext]_<<vars, load>> PROVE LogoutInv'
    OBVIOUS
  <2>1. CASE UNCHANGED <<vars, load>>
    BY <2>1 DEF vars, LogoutInv, KnownSessions, Solo, EndedSessions, Continues, At
  <2>2. CASE MCNext
    <3>1. PICK w \in Workers : Session(w) \/ Account(w)
      BY <2>2 DEF MCNext, Next
    <3> QED
      BY <2>2, <3>1, SessionLogout, AccountLogout, SaveKeepsLogout, ClearKeepsLogout,
         LogKeepsLogout DEF MCNext
  <2> QED
    BY <2>1, <2>2
<1>4. Inv /\ Inv' /\ LogoutInv /\ [MCNext]_<<vars, load>> =>
        [load = 1 => \A e \in Emails, w \in Workers :
           latest[e] = "out" /\ latest'[e] = "in" /\ At(w, "log") => req[w].ask = "login"]_vars
  <2> SUFFICES ASSUME Inv, Inv', LogoutInv, MCNext, load = 1, NEW e \in Emails,
                      NEW w \in Workers, latest[e] = "out", latest'[e] = "in", At(w, "log")
               PROVE  req[w].ask = "login"
    BY DEF vars
  <2>1. PICK v \in Workers : Session(v) \/ Account(v)
    BY DEF MCNext, Next
  <2>2. latest' # latest
    BY NilAssumption DEF Inv, TypeInv, TypeOK
  <2>3. LogSession(v)
    BY <2>1, <2>2 DEF Session, Account, Register, Bootstrap, Login, Refresh, Logout, FindEmail,
       CreateUser, SaveRefreshTokenHash, ClearSession, OpenTicket, ChangeUser,
       UpsertRequester, FindUser, WriteUser, RecordChange, Unchanged
  <2> QED
    BY <2>3, LogKeepsLogout DEF MCNext
<1> QED
  BY <1>1, <1>2, <1>3, <1>4, Invariant, PTL DEF MCSpec, MCInit, LogoutHolds
=============================================================================
