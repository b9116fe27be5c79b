--------------------------- MODULE TicketsProofs ---------------------------
(***************************************************************************)
(* Proofs that the invariants of Tickets hold for every number of          *)
(* requests, tickets, approvals and users, and with or without crashes.    *)
(***************************************************************************)
EXTENDS Tickets, TLAPS

\* What a request holds at each point of its handler.
Shape(r) ==
  /\ r.op = Nil => r = Idle
  /\ r.op # Nil => r.tk \in Tickets /\ r.pc # "idle"
  /\ r.op = "create" =>
       r.pc \in {"workflow", "commit"} /\ r.lock = "update" /\ r.row.life = "live"
  /\ r.op \in {"update", "macro"} =>
       /\ r.pc \in {"read", "workflow", "audit", "commit"}
       /\ r.lock = IF r.pc = "read" THEN "none" ELSE "update"
  /\ r.op = "approve" =>
       /\ r.pc \in {"read", "reopen", "commit"} /\ r.ap \in Approvals
       /\ r.pc = "read" => r.lock = "none"
       /\ r.pc = "reopen" => r.lock = "share"
       /\ r.pc = "commit" => r.lock = "update"
  /\ r.op = "decide" =>
       /\ r.pc \in {"read", "count", "look", "apply", "audit", "notify", "commit"}
       /\ r.lock = "none" => r.pc \notin {"audit", "notify", "commit"}
       /\ r.lock # "delete"
  /\ r.op = "remove" =>
       /\ r.pc \in {"read", "cascade", "audit"}
       /\ r.lock = IF r.pc = "cascade" THEN "delete" ELSE "none"
  /\ r.op \in {"update", "macro", "remove"} => r.ap = Nil
  /\ r.row.life = "live" => r.lock = "update"
  /\ r.row.life # "deleted" /\ r.approval.life # "deleted"

\* What it will write of the approval table.
ApprovalShape(r) ==
  /\ r.approval.life = "live" =>
       /\ r.op \in {"create", "approve", "decide"}
       /\ r.ap \in Approvals /\ r.approval.ticket = r.tk
       /\ r.approval.status = "PENDING" \/ r.op = "decide"
       /\ r.op = "approve" => r.pc # "read"
  /\ r.op = "decide" =>
       r.ap \in Approvals /\ r.approval.life = "live" /\ r.approval.status \in Decision

\* How the request fits the committed rows: a locked ticket is in the table,
\* unless the request is inserting it; the approval of a decision under way
\* belongs to the ticket; one that is being requested has a fresh key.
NewApproval(r) == r.op \in {"create", "approve"} /\ r.ap # Nil

Fits(r) ==
  /\ r.lock # "none" /\ r.op # "create" => Live(r.tk)
  /\ r.op = "create" => tickets[r.tk].life = "unborn"
  /\ r.op \notin {"create", Nil} => tickets[r.tk].life # "unborn"
  /\ r.op = "decide" =>
       /\ approvals[r.ap].life # "unborn"
       /\ LiveApproval(r.ap) => approvals[r.ap].ticket = r.tk
       /\ r.pc # "read" => LiveApproval(r.ap)
  /\ NewApproval(r) => approvals[r.ap].life = "unborn"

\* Two requests hold no locks that exclude each other and insert no row under
\* a key the other one uses.
Clash(m, n) ==
  \/ m = "update" /\ n = "update"
  \/ m = "delete" /\ n # "none"
  \/ n = "delete" /\ m # "none"

Apart(r, s) ==
  /\ r.op # Nil /\ r.tk = s.tk => ~Clash(r.lock, s.lock)
  /\ r.op = "create" => r.tk # s.tk
  /\ NewApproval(r) => r.ap # s.ap

RequestsInv ==
  /\ \A w \in Workers : Shape(req[w]) /\ ApprovalShape(req[w]) /\ Fits(req[w])
  /\ \A v, w \in Workers : v # w => Apart(req[v], req[w])

\* The inductive invariant behind the theorems on rows and locks.
Inv == TypeOK /\ RequestsInv /\ NoOrphanApproval

StampInv ==
  /\ StampedStatus
  /\ \A w \in Workers : req[w].row.life = "live" => Stamps(req[w].row)

AuditInv ==
  /\ DecisionsAudited
  /\ \A w \in Workers : req[w].op = "decide" /\ req[w].pc \in {"notify", "commit"} =>
       Audit("TICKET_APPROVAL_DECIDED", req[w].ap, req[w].approval.status) \in auditLog

-----------------------------------------------------------------------------
(* What the operators of the handlers return.                              *)

\* Stamping a row keeps it a row of the same life.
LEMMA StampedRow ==
  ASSUME NEW row \in TicketRow, NEW ask \in Status \cup {Nil}, NEW next
  PROVE  Stamped(row, ask, next) \in TicketRow /\ Stamped(row, ask, next).life = row.life
<1> DEFINE status == IF ask = Nil THEN row.status ELSE ask
           resolvedAt == row.resolvedAt \/ next = "RESOLVED"
           closedAt == row.closedAt \/ next = "CLOSED"
<1>1. status \in Status \cup {Nil} /\ resolvedAt \in BOOLEAN /\ closedAt \in BOOLEAN
  BY DEF TicketRow
<1> HIDE DEF status, resolvedAt, closedAt
<1>2. [row EXCEPT !.status = status, !.resolvedAt = resolvedAt, !.closedAt = closedAt] \in TicketRow
  BY <1>1 DEF TicketRow
<1> QED BY <1>2 DEF Stamped, TicketRow, status, resolvedAt, closedAt

\* The history row of a change is a history row.
LEMMA EntryRow ==
  ASSUME NEW seen \in Status \cup {Nil}, NEW ask \in Status \cup {Nil}
  PROVE  EntryFor(seen, ask) \in HistoryRow
BY DEF EntryFor, HistoryRow, NoHistory

\* A decision cancels the ticket, opens it or leaves it alone.
LEMMA NextStatusRange ==
  ASSUME NEW decision, NEW quiet, NEW seen
  PROVE  NextStatus(decision, quiet, seen) \in {"CANCELLED", "OPEN", Nil}
BY Zenon DEF NextStatus

-----------------------------------------------------------------------------
\* The record r can become the request of w without disturbing the others.
Admissible(w, r) ==
  /\ r \in Request /\ Shape(r) /\ ApprovalShape(r) /\ Fits(r)
  /\ \A v \in Workers \ {w} : Apart(r, req[v]) /\ Apart(req[v], r)

\* A step that writes no table and gives w an admissible record keeps Inv.
LEMMA InMemory ==
  ASSUME Inv, NEW w \in Workers, NEW r, Admissible(w, r),
         req' = [req EXCEPT ![w] = r],
         UNCHANGED <<tickets, approvals, trail>>,
         auditLog' \subseteq AuditRow
  PROVE  Inv'
<1>1. /\ req \in [Workers -> Request] /\ req' \in [Workers -> Request]
      /\ req'[w] = r /\ \A v \in Workers \ {w} : req'[v] = req[v]
  BY DEF Inv, TypeOK, Admissible
<1>2. TypeOK'
  BY <1>1 DEF Inv, TypeOK
<1>3. \A q : Fits(q) = Fits(q)'
  BY DEF Fits, Live, LiveApproval
<1>4. \A v \in Workers : Shape(req[v])' /\ ApprovalShape(req[v])' /\ Fits(req[v])'
  <2> TAKE v \in Workers
  <2>1. CASE v = w
    BY <1>1, <2>1 DEF Admissible, Shape, ApprovalShape, Fits, Live, LiveApproval
  <2>2. CASE v # w
    BY <1>1, <2>2 DEF Inv, RequestsInv, Shape, ApprovalShape, Fits, Live, LiveApproval
  <2> QED BY <2>1, <2>2
<1>5. \A u, v \in Workers : u # v => Apart(req[u], req[v])'
  BY <1>1 DEF Inv, RequestsInv, Admissible, Apart, NewApproval
<1>6. NoOrphanApproval'
  BY DEF Inv, NoOrphanApproval, Live, LiveApproval
<1> QED BY <1>2, <1>4, <1>5, <1>6 DEF Inv, RequestsInv

-----------------------------------------------------------------------------
\* The handlers' steps, one lemma for each: what each leaves in memory is
\* admissible.

\* Every action that ends a request without a commit.
LEMMA FinishStep ==
  ASSUME Inv, NEW w \in Workers, Finish(w),
         UNCHANGED <<tickets, approvals, trail>>, auditLog' \subseteq AuditRow
  PROVE  Inv'
<1>1. /\ Idle \in Request /\ Shape(Idle) /\ ApprovalShape(Idle) /\ Fits(Idle)
  BY ConstantsOK DEF Idle, Request, Shape, ApprovalShape, Fits, NewApproval, TicketRow,
    ApprovalRow, HistoryRow, NoTicket, NoApproval, NoHistory, Handler, Life, Lock, Status
<1>2. \A v \in Workers \ {w} : Apart(Idle, req[v]) /\ Apart(req[v], Idle)
  <2> TAKE v \in Workers \ {w}
  <2>1. Apart(Idle, req[v])
    BY ConstantsOK DEF Apart, Idle, NewApproval, Handler
  <2>2. Apart(req[v], Idle)
    BY ConstantsOK DEF Apart, Idle, NewApproval, Handler, Inv, RequestsInv, Shape, Clash
  <2> QED BY <2>1, <2>2
<1>3. Admissible(w, Idle)
  BY <1>1, <1>2 DEF Admissible
<1> QED BY <1>3, InMemory DEF Finish

\* The record r goes on with the request of w: same keys, and the same lock
\* or one that has just been granted.
GoesOn(w, r) ==
  /\ r \in Request /\ Shape(r) /\ ApprovalShape(r) /\ Fits(r)
  /\ r.op = req[w].op /\ r.tk = req[w].tk /\ r.ap = req[w].ap
  /\ \/ r.lock = req[w].lock
     \/ CanLock(w, r.tk, r.lock) /\ r.op # "create"

\* A handler's next step inside its transaction keeps Inv.
LEMMA NextStatement ==
  ASSUME Inv, NEW w \in Workers, NEW r, GoesOn(w, r),
         req' = [req EXCEPT ![w] = r],
         UNCHANGED <<tickets, approvals, trail>>, auditLog' \subseteq AuditRow
  PROVE  Inv'
<1> SUFFICES ASSUME NEW v \in Workers \ {w}
             PROVE  Apart(r, req[v]) /\ Apart(req[v], r)
  BY InMemory DEF Admissible, GoesOn
<1>1. Apart(req[w], req[v]) /\ Apart(req[v], req[w])
  BY DEF Inv, RequestsInv
<1>2. r.tk = req[v].tk /\ r.op # Nil =>
        ~Clash(r.lock, req[v].lock) /\ ~Clash(req[v].lock, r.lock)
  <2>1. CASE r.lock = req[w].lock
    BY <1>1, <2>1 DEF GoesOn, Apart, Clash
  <2>2. CASE CanLock(w, r.tk, r.lock)
    BY <2>2 DEF GoesOn, CanLock, Compatible, Clash, Inv, TypeOK, Request, Lock
  <2> QED BY <2>1, <2>2 DEF GoesOn
<1> QED BY <1>1, <1>2 DEF GoesOn, Apart, NewApproval, Inv, RequestsInv, Shape

\* What the invariant says of one request.
LEMMA Current ==
  ASSUME Inv, NEW w \in Workers
  PROVE  /\ req[w] \in Request /\ Shape(req[w]) /\ ApprovalShape(req[w]) /\ Fits(req[w])
         /\ req[w].op # Nil => req[w].tk \in Tickets /\ tickets[req[w].tk] \in TicketRow
         /\ auditLog \subseteq AuditRow
BY DEF Inv, TypeOK, RequestsInv, Shape

-----------------------------------------------------------------------------
(* One lemma for each step of a handler.                                   *)

\* Running the workflow rules keeps Inv: it records and moves on.
LEMMA ApplyWorkflowRulesStep ==
  ASSUME Inv, NEW w \in Workers, ApplyWorkflowRules(w)
  PROVE  Inv'
<1> DEFINE pc == IF req[w].op = "create" THEN "commit" ELSE "audit"
           r == [req[w] EXCEPT !.pc = pc]
<1>1. req' = [req EXCEPT ![w] = r] /\ req[w].op \in Handler
  BY Current, ConstantsOK DEF ApplyWorkflowRules, Shape, Request, Idle
<1>2. /\ pc \in {"commit", "audit"}
      /\ req[w].op # "create" => pc = "audit"
      /\ req[w].op = "create" => pc = "commit"
  BY <1>1, Current, ConstantsOK DEF ApplyWorkflowRules, At, Request
<1>3. /\ r \in Request
      /\ r.op = req[w].op /\ r.pc = pc /\ r.tk = req[w].tk /\ r.ap = req[w].ap
      /\ r.lock = req[w].lock /\ r.row = req[w].row /\ r.approval = req[w].approval
  <2> HIDE DEF pc
  <2> QED BY <1>2, Current DEF Request, Lock
<1>4. GoesOn(w, r)
  <2> HIDE DEF r, pc
  <2> QED BY <1>1, <1>2, <1>3, Current, ConstantsOK
      DEF ApplyWorkflowRules, At, GoesOn, Shape, ApprovalShape,
        Fits, NewApproval, Live, Handler
<1>5. auditLog' \subseteq AuditRow
  BY <1>1, Current, ConstantsOK
      DEF ApplyWorkflowRules, Record, Audit, AuditRow, Shape, ApprovalShape,
    Request, Handler, At, Decision
<1> HIDE DEF r
<1> QED BY <1>1, <1>4, <1>5, NextStatement DEF ApplyWorkflowRules

\* The UPDATE of a PATCH keeps Inv: the row it writes is locked and live.
LEMMA UpdateTicketStep ==
  ASSUME Inv, NEW w \in Workers, UpdateTicket(w)
  PROVE  Inv'
<1> DEFINE row == Stamped(tickets[req[w].tk], req[w].ask,
                    IF req[w].ask = Nil THEN req[w].seen ELSE req[w].ask)
           entry == EntryFor(req[w].seen, req[w].ask)
           r == [req[w] EXCEPT !.pc = "workflow", !.lock = "update", !.row = row, !.entry = entry]
<1>1. req' = [req EXCEPT ![w] = r] /\ req[w].op \in Handler
  BY ConstantsOK DEF UpdateTicket, At, Handler
<1>2. row \in TicketRow /\ row.life = "live" /\ entry \in HistoryRow
  BY <1>1, Current, StampedRow, EntryRow, ConstantsOK DEF UpdateTicket, At, Live, Request
<1>3. /\ r \in Request
      /\ r.op = req[w].op /\ r.pc = "workflow" /\ r.tk = req[w].tk /\ r.ap = req[w].ap
      /\ r.lock = "update" /\ r.row = row /\ r.approval = req[w].approval
  <2> HIDE DEF row, entry
  <2> QED BY <1>2, Current DEF Request, Lock
<1>4. GoesOn(w, r)
  <2> HIDE DEF r, row, entry
  <2> QED BY <1>1, <1>2, <1>3, Current, ConstantsOK
      DEF UpdateTicket, At, GoesOn, Shape, ApprovalShape,
        Fits, NewApproval, Live, Handler
<1>5. auditLog' \subseteq AuditRow
  BY Current DEF UpdateTicket
<1> HIDE DEF r
<1> QED BY <1>1, <1>4, <1>5, NextStatement DEF UpdateTicket

\* Recording a PATCH keeps Inv: the record is a row of the audit log.
LEMMA AuditUpdateStep ==
  ASSUME Inv, NEW w \in Workers, AuditUpdate(w)
  PROVE  Inv'
<1> DEFINE r == [req[w] EXCEPT !.pc = "commit"]
<1>1. req' = [req EXCEPT ![w] = r] /\ req[w].op \in Handler
  BY ConstantsOK DEF AuditUpdate, At, Handler
<1>3. /\ r \in Request
      /\ r.op = req[w].op /\ r.pc = "commit" /\ r.tk = req[w].tk /\ r.ap = req[w].ap
      /\ r.lock = req[w].lock /\ r.row = req[w].row /\ r.approval = req[w].approval
  BY Current DEF Request, Lock
<1>4. GoesOn(w, r)
  <2> HIDE DEF r
  <2> QED BY <1>1, <1>3, Current, ConstantsOK DEF AuditUpdate, At, GoesOn, Shape, ApprovalShape,
        Fits, NewApproval, Live, Handler
<1>5. auditLog' \subseteq AuditRow
  BY <1>1, Current, ConstantsOK DEF AuditUpdate, Record, Audit, AuditRow, Shape, ApprovalShape,
    Request, Handler, At, Status, Decision
<1> HIDE DEF r
<1> QED BY <1>1, <1>4, <1>5, NextStatement DEF AuditUpdate

\* The UPDATE of a macro keeps Inv, as that of a PATCH does.
LEMMA ApplyMacroStep ==
  ASSUME Inv, NEW w \in Workers, ApplyMacro(w)
  PROVE  Inv'
<1> DEFINE row == Stamped(tickets[req[w].tk], req[w].ask, req[w].ask)
           entry == EntryFor(req[w].seen, req[w].ask)
           r == [req[w] EXCEPT !.pc = "commit", !.lock = "update", !.row = row, !.entry = entry]
<1>1. req' = [req EXCEPT ![w] = r] /\ req[w].op \in Handler
  BY ConstantsOK DEF ApplyMacro, At, Handler
<1>2. row \in TicketRow /\ row.life = "live" /\ entry \in HistoryRow
  BY <1>1, Current, StampedRow, EntryRow, ConstantsOK DEF ApplyMacro, At, Live, Request
<1>3. /\ r \in Request
      /\ r.op = req[w].op /\ r.pc = "commit" /\ r.tk = req[w].tk /\ r.ap = req[w].ap
      /\ r.lock = "update" /\ r.row = row /\ r.approval = req[w].approval
  <2> HIDE DEF row, entry
  <2> QED BY ZenonT(60), <1>2, Current DEF Request, Lock
<1>4. GoesOn(w, r)
  <2> HIDE DEF r, row, entry
  <2> QED BY <1>1, <1>2, <1>3, Current, ConstantsOK
      DEF ApplyMacro, At, GoesOn, Shape, ApprovalShape,
        Fits, NewApproval, Live, Handler
<1>5. auditLog' \subseteq AuditRow
  BY Current DEF ApplyMacro
<1> HIDE DEF r
<1> QED BY <1>1, <1>4, <1>5, NextStatement DEF ApplyMacro

\* Inserting an approval keeps Inv: its key is fresh, its ticket locked.
LEMMA InsertApprovalStep ==
  ASSUME Inv, NEW w \in Workers, InsertApproval(w)
  PROVE  Inv'
<1>0. PICK u \in Staff \cup {Nil} :
        req' = [req EXCEPT ![w] = [req[w] EXCEPT
          !.pc = "reopen", !.lock = "share",
          !.approval = [life |-> "live", ticket |-> req[w].tk,
                        status |-> "PENDING", approver |-> u]]]
  BY DEF InsertApproval
<1> DEFINE approval == [life |-> "live", ticket |-> req[w].tk,
                        status |-> "PENDING", approver |-> u]
           r == [req[w] EXCEPT !.pc = "reopen", !.lock = "share", !.approval = approval]
<1>1. req' = [req EXCEPT ![w] = r] /\ req[w].op \in Handler
  BY <1>0, ConstantsOK DEF InsertApproval, At, Handler
<1>2. approval \in ApprovalRow /\ approval.life = "live" /\ approval.ticket = req[w].tk
        /\ approval.status = "PENDING" /\ req[w].tk \in Tickets
  BY <1>1, <1>0, Current, ConstantsOK DEF InsertApproval, At, ApprovalRow, Life, Shape, Handler
<1>3. /\ r \in Request
      /\ r.op = req[w].op /\ r.pc = "reopen" /\ r.tk = req[w].tk /\ r.ap = req[w].ap
      /\ r.lock = "share" /\ r.row = req[w].row /\ r.approval = approval
  <2> HIDE DEF approval
  <2> QED BY ZenonT(60), <1>2, Current DEF Request, Lock
<1>4. GoesOn(w, r)
  <2> HIDE DEF r, approval
  <2> QED BY <1>1, <1>2, <1>3, Current, ConstantsOK
      DEF InsertApproval, At, GoesOn, Shape, ApprovalShape,
        Fits, NewApproval, Live, Handler
<1>5. auditLog' \subseteq AuditRow
  BY Current DEF InsertApproval
<1> HIDE DEF r
<1> QED BY <1>1, <1>4, <1>5, NextStatement DEF InsertApproval

\* Taking the ticket to PENDING keeps Inv: the share lock is upgraded.
LEMMA SetPendingStep ==
  ASSUME Inv, NEW w \in Workers, SetPending(w)
  PROVE  Inv'
<1> DEFINE row == [tickets[req[w].tk] EXCEPT !.status = "PENDING"]
           r == [req[w] EXCEPT !.pc = "commit", !.lock = "update", !.row = row]
<1>1. req' = [req EXCEPT ![w] = r] /\ req[w].op \in Handler
  BY ConstantsOK DEF SetPending, At, Handler
<1>2. row \in TicketRow /\ row.life = "live"
  BY <1>1, Current, ConstantsOK
      DEF SetPending, At, Live, TicketRow, Status, Shape, Fits, Handler
<1>3. /\ r \in Request
      /\ r.op = req[w].op /\ r.pc = "commit" /\ r.tk = req[w].tk /\ r.ap = req[w].ap
      /\ r.lock = "update" /\ r.row = row /\ r.approval = req[w].approval
  <2> HIDE DEF row
  <2> QED BY ZenonT(60), <1>2, Current DEF Request, Lock
<1>4. GoesOn(w, r)
  <2> HIDE DEF r, row
  <2> QED BY <1>1, <1>2, <1>3, Current, ConstantsOK
      DEF SetPending, At, GoesOn, Shape, ApprovalShape,
        Fits, NewApproval, Live, Handler
<1>5. auditLog' \subseteq AuditRow
  BY Current DEF SetPending
<1> HIDE DEF r
<1> QED BY <1>1, <1>4, <1>5, NextStatement DEF SetPending

\* A decision that updates its approval keeps Inv: the approval is there.
LEMMA UpdateApprovalStep ==
  ASSUME Inv, NEW w \in Workers, UpdateApproval(w)
  PROVE  Inv'
<1> DEFINE r == [req[w] EXCEPT !.pc = "count"]
<1>1. req' = [req EXCEPT ![w] = r] /\ req[w].op \in Handler
  BY ConstantsOK DEF UpdateApproval, At, Handler
<1>3. /\ r \in Request
      /\ r.op = req[w].op /\ r.pc = "count" /\ r.tk = req[w].tk /\ r.ap = req[w].ap
      /\ r.lock = req[w].lock /\ r.row = req[w].row /\ r.approval = req[w].approval
  BY Current DEF Request, Lock
<1>4. GoesOn(w, r)
  <2> HIDE DEF r
  <2> QED BY <1>1, <1>3, Current, ConstantsOK
      DEF UpdateApproval, At, GoesOn, Shape, ApprovalShape,
        Fits, NewApproval, Live, Handler
<1>5. auditLog' \subseteq AuditRow
  BY Current DEF UpdateApproval
<1> HIDE DEF r
<1> QED BY <1>1, <1>4, <1>5, NextStatement DEF UpdateApproval

\* Counting the pending approvals keeps Inv: it only reads.
LEMMA CountPendingStep ==
  ASSUME Inv, NEW w \in Workers, CountPending(w)
  PROVE  Inv'
<1> DEFINE quiet == PendingOf(req[w].tk) \ {req[w].ap} = {}
           r == [req[w] EXCEPT !.pc = "look", !.quiet = quiet]
<1>1. req' = [req EXCEPT ![w] = r] /\ req[w].op \in Handler
  BY ConstantsOK DEF CountPending, At, Handler
<1>2. quiet \in BOOLEAN
  BY <1>1, Current, ConstantsOK DEF CountPending, At, Request
<1>3. /\ r \in Request
      /\ r.op = req[w].op /\ r.pc = "look" /\ r.tk = req[w].tk /\ r.ap = req[w].ap
      /\ r.lock = req[w].lock /\ r.row = req[w].row /\ r.approval = req[w].approval
  <2> HIDE DEF quiet
  <2> QED BY ZenonT(60), <1>2, Current DEF Request, Lock
<1>4. GoesOn(w, r)
  <2> HIDE DEF r, quiet
  <2> QED BY <1>1, <1>2, <1>3, Current, ConstantsOK
      DEF CountPending, At, GoesOn, Shape, ApprovalShape,
        Fits, NewApproval, Live, Handler
<1>5. auditLog' \subseteq AuditRow
  BY Current DEF CountPending
<1> HIDE DEF r
<1> QED BY <1>1, <1>4, <1>5, NextStatement DEF CountPending

\* Reading the ticket's status again keeps Inv: it only reads.
LEMMA LookAtTicketStep ==
  ASSUME Inv, NEW w \in Workers, LookAtTicket(w)
  PROVE  Inv'
<1> DEFINE seen == tickets[req[w].tk].status
           r == [req[w] EXCEPT !.pc = "apply", !.seen = seen]
<1>1. req' = [req EXCEPT ![w] = r] /\ req[w].op \in Handler
  BY ConstantsOK DEF LookAtTicket, At, Handler
<1>2. seen \in Status \cup {Nil}
  BY <1>1, Current, ConstantsOK DEF LookAtTicket, At, TicketRow
<1>3. /\ r \in Request
      /\ r.op = req[w].op /\ r.pc = "apply" /\ r.tk = req[w].tk /\ r.ap = req[w].ap
      /\ r.lock = req[w].lock /\ r.row = req[w].row /\ r.approval = req[w].approval
  <2> HIDE DEF seen
  <2> QED BY ZenonT(60), <1>2, Current DEF Request, Lock
<1>4. GoesOn(w, r)
  <2> HIDE DEF r, seen
  <2> QED BY <1>1, <1>2, <1>3, Current, ConstantsOK
      DEF LookAtTicket, At, GoesOn, Shape, ApprovalShape,
        Fits, NewApproval, Live, Handler
<1>5. auditLog' \subseteq AuditRow
  BY Current DEF LookAtTicket
<1> HIDE DEF r
<1> QED BY <1>1, <1>4, <1>5, NextStatement DEF LookAtTicket

\* Applying a decision keeps Inv: the ticket is live and locked for it.
LEMMA ApplyDecisionStep ==
  ASSUME Inv, NEW w \in Workers, ApplyDecision(w)
  PROVE  Inv'
<1> DEFINE next == NextStatus(req[w].approval.status, req[w].quiet, req[w].seen)
           lock == IF next = Nil THEN "share" ELSE "update"
           row == IF next = Nil THEN NoTicket
                  ELSE [tickets[req[w].tk] EXCEPT !.status = next,
                          !.closedAt = (next = "CANCELLED")]
           entry == IF next = Nil THEN NoHistory ELSE [from |-> req[w].seen, to |-> next]
           r == [req[w] EXCEPT !.pc = "audit", !.lock = lock, !.row = row, !.entry = entry]
<1>1. req' = [req EXCEPT ![w] = r] /\ req[w].op \in Handler
  BY ConstantsOK DEF ApplyDecision, At, Handler
<1>2. /\ lock \in {"share", "update"} /\ CanLock(w, req[w].tk, lock)
      /\ row \in TicketRow /\ (row.life = "live" => lock = "update")
      /\ row.life # "deleted" /\ entry \in HistoryRow
  <2>1. next \in {"CANCELLED", "OPEN", Nil}
    BY NextStatusRange
  <2>2. /\ lock \in {"share", "update"} /\ CanLock(w, req[w].tk, lock)
        /\ Live(req[w].tk)
    BY DEF ApplyDecision
  <2> HIDE DEF next
  <2>3. /\ req[w].seen \in Status \cup {Nil} /\ next \in Status \cup {Nil}
        /\ tickets[req[w].tk] \in TicketRow
    BY <1>1, <2>1, Current, ConstantsOK DEF Request, Status, Handler
  <2>4. NoTicket \in TicketRow /\ NoTicket.life = "unborn" /\ NoHistory \in HistoryRow
    BY DEF NoTicket, NoHistory, TicketRow, HistoryRow, Life
  <2>5. CASE next = Nil
    BY <2>2, <2>4, <2>5
  <2>6. CASE next # Nil
    <3> DEFINE cancelled == next = "CANCELLED"
    <3>1. cancelled \in BOOLEAN
      OBVIOUS
    <3> HIDE DEF cancelled
    <3>2. [tickets[req[w].tk] EXCEPT !.status = next, !.closedAt = cancelled] \in TicketRow
      BY <2>3, <3>1 DEF TicketRow
    <3>3. [tickets[req[w].tk] EXCEPT !.status = next, !.closedAt = cancelled].life = "live"
      BY <2>2, <2>3 DEF TicketRow, Live
    <3>4. [from |-> req[w].seen, to |-> next] \in HistoryRow
      BY <2>3 DEF HistoryRow
    <3> QED BY <2>2, <2>6, <3>2, <3>3, <3>4 DEF cancelled
  <2> QED BY <2>5, <2>6
<1>3. /\ r \in Request
      /\ r.op = req[w].op /\ r.pc = "audit" /\ r.tk = req[w].tk /\ r.ap = req[w].ap
      /\ r.lock = lock /\ r.row = row /\ r.approval = req[w].approval
  <2> HIDE DEF next, lock, row, entry
  <2> QED BY ZenonT(60), <1>2, Current DEF Request, Lock
<1>4. GoesOn(w, r)
  <2> HIDE DEF r, next, lock, row, entry
  <2>1. /\ req[w].op = "decide" /\ req[w].pc = "apply" /\ req[w].op # Nil /\ Live(req[w].tk)
        /\ Shape(req[w]) /\ ApprovalShape(req[w]) /\ Fits(req[w])
    BY <1>1, Current, ConstantsOK DEF ApplyDecision, At, Handler
  <2>2. Shape(r)
    BY <1>2, <1>3, <2>1 DEF Shape
  <2>3. ApprovalShape(r)
    BY <1>3, <2>1 DEF ApprovalShape
  <2>4. Fits(r)
    BY <1>3, <2>1 DEF Fits, NewApproval, Live
  <2> QED BY <1>2, <1>3, <2>1, <2>2, <2>3, <2>4 DEF GoesOn
<1>5. auditLog' \subseteq AuditRow
  BY Current DEF ApplyDecision
<1> HIDE DEF r
<1> QED BY <1>1, <1>4, <1>5, NextStatement DEF ApplyDecision

\* Recording a decision keeps Inv: the record is a row of the audit log.
LEMMA AuditDecisionStep ==
  ASSUME Inv, NEW w \in Workers, AuditDecision(w)
  PROVE  Inv'
<1> DEFINE r == [req[w] EXCEPT !.pc = "notify"]
<1>1. req' = [req EXCEPT ![w] = r] /\ req[w].op \in Handler
  BY ConstantsOK DEF AuditDecision, At, Handler
<1>3. /\ r \in Request
      /\ r.op = req[w].op /\ r.pc = "notify" /\ r.tk = req[w].tk /\ r.ap = req[w].ap
      /\ r.lock = req[w].lock /\ r.row = req[w].row /\ r.approval = req[w].approval
  BY Current DEF Request, Lock
<1>4. GoesOn(w, r)
  <2> HIDE DEF r
  <2> QED BY <1>1, <1>3, Current, ConstantsOK
      DEF AuditDecision, At, GoesOn, Shape, ApprovalShape,
        Fits, NewApproval, Live, Handler
<1>5. auditLog' \subseteq AuditRow
  BY <1>1, Current, ConstantsOK
      DEF AuditDecision, Record, Audit, AuditRow, Shape, ApprovalShape,
    Request, Handler, At, Decision, Status
<1> HIDE DEF r
<1> QED BY <1>1, <1>4, <1>5, NextStatement DEF AuditDecision

\* Notifying a decision keeps Inv: what it writes is an audit row.
LEMMA NotifyDecisionStep ==
  ASSUME Inv, NEW w \in Workers, NotifyDecision(w)
  PROVE  Inv'
<1> DEFINE r == [req[w] EXCEPT !.pc = "commit"]
<1>1. req' = [req EXCEPT ![w] = r] /\ req[w].op \in Handler
  BY ConstantsOK DEF NotifyDecision, At, Handler
<1>3. /\ r \in Request
      /\ r.op = req[w].op /\ r.pc = "commit" /\ r.tk = req[w].tk /\ r.ap = req[w].ap
      /\ r.lock = req[w].lock /\ r.row = req[w].row /\ r.approval = req[w].approval
  BY Current DEF Request, Lock
<1>4. GoesOn(w, r)
  <2> HIDE DEF r
  <2> QED BY <1>1, <1>3, Current, ConstantsOK
      DEF NotifyDecision, At, GoesOn, Shape, ApprovalShape,
        Fits, NewApproval, Live, Handler
<1>5. auditLog' \subseteq AuditRow
  BY <1>1, Current, ConstantsOK
      DEF NotifyDecision, Record, Audit, AuditRow, Shape, ApprovalShape,
    Request, Handler, At, Decision, Status
<1> HIDE DEF r
<1> QED BY <1>1, <1>4, <1>5, NextStatement DEF NotifyDecision

\* Locking a ticket for its deletion keeps Inv: nobody else has a lock.
LEMMA LockForDeleteStep ==
  ASSUME Inv, NEW w \in Workers, LockForDelete(w)
  PROVE  Inv'
<1> DEFINE r == [req[w] EXCEPT !.pc = "cascade", !.lock = "delete"]
<1>1. req' = [req EXCEPT ![w] = r] /\ req[w].op \in Handler
  BY ConstantsOK DEF LockForDelete, At, Handler
<1>3. /\ r \in Request
      /\ r.op = req[w].op /\ r.pc = "cascade" /\ r.tk = req[w].tk /\ r.ap = req[w].ap
      /\ r.lock = "delete" /\ r.row = req[w].row /\ r.approval = req[w].approval
  BY ZenonT(60), Current DEF Request, Lock
<1>4. GoesOn(w, r)
  <2> HIDE DEF r
  <2> QED BY <1>1, <1>3, Current, ConstantsOK
      DEF LockForDelete, At, GoesOn, Shape, ApprovalShape,
        Fits, NewApproval, Live, Handler
<1>5. auditLog' \subseteq AuditRow
  BY Current DEF LockForDelete
<1> HIDE DEF r
<1> QED BY <1>1, <1>4, <1>5, NextStatement DEF LockForDelete

-----------------------------------------------------------------------------
(* Requests that arrive.                                                   *)

\* A fresh record, whose keys nobody else inserts, is admissible.
LEMMA Arrival ==
  ASSUME Inv, NEW w \in Workers, NEW r,
         r \in Request, Shape(r), ApprovalShape(r), Fits(r), r.op # Nil,
         r.lock # "none" => r.op = "create",
         r.op = "create" => \A v \in Workers : req[v].tk # r.tk,
         NewApproval(r) => \A v \in Workers : req[v].ap # r.ap
  PROVE  Admissible(w, r)
<1> SUFFICES ASSUME NEW v \in Workers \ {w}
             PROVE  Apart(r, req[v]) /\ Apart(req[v], r)
  BY DEF Admissible
<1>1. Shape(req[v]) /\ ApprovalShape(req[v]) /\ Fits(req[v]) /\ req[v] \in Request
  BY Current
<1>2. r.tk = req[v].tk => r.lock = "none"
  OBVIOUS
<1>3. Apart(r, req[v])
  BY <1>2 DEF Apart, Clash
<1>4. req[v].op # Nil /\ req[v].tk = r.tk => ~Clash(req[v].lock, r.lock)
  BY <1>2 DEF Clash
<1>5. req[v].op = "create" => req[v].tk # r.tk
  BY <1>1 DEF Fits
<1>6. NewApproval(req[v]) => req[v].ap # r.ap
  <2> SUFFICES ASSUME NewApproval(req[v]), req[v].ap = r.ap
               PROVE  FALSE
    OBVIOUS
  <2>1. approvals[r.ap].life = "unborn" /\ r.ap # Nil
    BY <1>1 DEF Fits, NewApproval
  <2>2. r.op # "decide" /\ ~NewApproval(r)
    BY <2>1 DEF Fits
  <2> QED BY <2>1, <2>2, ConstantsOK DEF NewApproval, Shape, Request, Handler
<1> QED BY <1>3, <1>4, <1>5, <1>6 DEF Apart

\* A creation keeps Inv: its ticket and its approval have fresh keys.
LEMMA CreateInsertStep ==
  ASSUME Inv, NEW w \in Workers, CreateInsert(w)
  PROVE  Inv'
<1> DEFINE Plain(t) == [Idle EXCEPT
             !.op = "create", !.pc = "workflow", !.tk = t, !.lock = "update",
             !.row = [NoTicket EXCEPT !.life = "live", !.status = "OPEN"],
             !.entry = [from |-> Nil, to |-> "OPEN"]]
           Gated(t, a, u) == [Idle EXCEPT
             !.op = "create", !.pc = "workflow", !.tk = t, !.ap = a,
             !.lock = "update",
             !.row = [NoTicket EXCEPT !.life = "live", !.status = "PENDING"],
             !.approval = [life |-> "live", ticket |-> t,
                           status |-> "PENDING", approver |-> u],
             !.entry = [from |-> Nil, to |-> "PENDING"]]
<1>1. PICK t \in FreshTickets :
        \/ req' = [req EXCEPT ![w] = Plain(t)]
        \/ \E a \in FreshApprovals, u \in Admins \cup {Nil} :
             req' = [req EXCEPT ![w] = Gated(t, a, u)]
  BY DEF CreateInsert
<1>2. t \in Tickets /\ tickets[t].life = "unborn" /\ \A v \in Workers : req[v].tk # t
  BY DEF FreshTickets
<1>3. auditLog' \subseteq AuditRow /\ UNCHANGED <<tickets, approvals, trail>>
  BY Current DEF CreateInsert
<1>4. CASE req' = [req EXCEPT ![w] = Plain(t)]
  <2>1. Admissible(w, Plain(t))
    <3>1. Plain(t) \in Request
      BY <1>2 DEF Request, Idle, NoTicket, NoApproval, NoHistory, TicketRow, ApprovalRow,
        HistoryRow, Handler, Life, Lock, Status
    <3>2. Shape(Plain(t)) /\ ApprovalShape(Plain(t)) /\ Fits(Plain(t)) /\ ~NewApproval(Plain(t))
      BY <1>2, ConstantsOK DEF Shape, ApprovalShape, Fits, NewApproval, Idle, NoTicket,
        NoApproval, Handler
    <3> QED BY <1>2, <3>1, <3>2, Arrival, ConstantsOK DEF Idle, Handler
  <2> HIDE DEF Plain
  <2> QED BY <1>3, <1>4, <2>1, InMemory
<1>5. ASSUME NEW a \in FreshApprovals, NEW u \in Admins \cup {Nil},
             req' = [req EXCEPT ![w] = Gated(t, a, u)]
      PROVE  Inv'
  <2>0. a \in Approvals /\ approvals[a].life = "unborn" /\ \A v \in Workers : req[v].ap # a
    BY DEF FreshApprovals
  <2>1. Admissible(w, Gated(t, a, u))
    <3>1. Gated(t, a, u) \in Request
      BY <1>2, <2>0, ConstantsOK DEF Request, Idle, NoTicket, NoApproval, NoHistory, TicketRow,
        ApprovalRow, HistoryRow, Handler, Life, Lock, Status
    <3>2. Shape(Gated(t, a, u)) /\ ApprovalShape(Gated(t, a, u)) /\ Fits(Gated(t, a, u))
      BY <1>2, <2>0, ConstantsOK DEF Shape, ApprovalShape, Fits, NewApproval, Idle, NoTicket,
        NoApproval, Handler
    <3> QED BY <1>2, <2>0, <3>1, <3>2, Arrival, ConstantsOK DEF Idle, Handler
  <2> HIDE DEF Gated
  <2> QED BY <1>3, <1>5, <2>1, InMemory
<1> HIDE DEF Plain, Gated
<1> QED BY <1>1, <1>4, <1>5

\* Reading a ticket, to change or delete it, keeps Inv.
LEMMA ReadTicketStep ==
  ASSUME Inv, NEW w \in Workers, ReadTicket(w)
  PROVE  Inv'
<1> DEFINE Reading(t, op, ask, a) == [Idle EXCEPT
             !.op = op, !.pc = "read", !.tk = t, !.ap = a, !.ask = ask,
             !.seen = tickets[t].status]
<1>1. PICK t \in Tickets, op \in Handlers \cap {"update", "macro", "approve", "remove"},
           ask \in Asked \cup {Nil}, a \in FreshApprovals \cup {Nil} :
        /\ Live(t)
        /\ op \notin {"update", "macro"} => ask = Nil
        /\ (op = "approve") = (a # Nil)
        /\ req' = [req EXCEPT ![w] = Reading(t, op, ask, a)]
  BY Zenon DEF ReadTicket
<1> DEFINE r == Reading(t, op, ask, a)
<1>2. a # Nil => /\ a \in Approvals /\ approvals[a].life = "unborn"
                 /\ \A v \in Workers : req[v].ap # a
  BY DEF FreshApprovals
<1>3. tickets[t] \in TicketRow
  BY DEF Inv, TypeOK
<1>4. /\ NoTicket \in TicketRow /\ NoTicket.life = "unborn"
      /\ NoApproval \in ApprovalRow /\ NoApproval.life = "unborn"
      /\ NoHistory \in HistoryRow
  BY DEF NoTicket, NoApproval, NoHistory, TicketRow, ApprovalRow, HistoryRow, Life
<1>5. /\ r.op = op /\ r.pc = "read" /\ r.tk = t /\ r.ap = a /\ r.lock = "none"
      /\ r.row = NoTicket /\ r.approval = NoApproval
  BY DEF Idle
<1>6. r \in Request
  BY ZenonT(60), <1>2, <1>3, <1>4, ConstantsOK DEF Request, Idle, Handler, Lock, TicketRow
<1>7. Shape(r) /\ ApprovalShape(r) /\ Fits(r)
  <2> HIDE DEF r
  <2> QED BY <1>1, <1>2, <1>4, <1>5, ConstantsOK DEF Shape, ApprovalShape, Fits, NewApproval,
        Handler, Live
<1>8. Admissible(w, r)
  <2> HIDE DEF r
  <2> QED BY <1>2, <1>5, <1>6, <1>7, Arrival, ConstantsOK DEF NewApproval, Handler
<1>9. auditLog' \subseteq AuditRow /\ UNCHANGED <<tickets, approvals, trail>>
  BY Current DEF ReadTicket
<1>10. req' = [req EXCEPT ![w] = r]
  BY <1>1
<1> HIDE DEF r
<1> QED BY <1>8, <1>9, <1>10, InMemory

\* Reading an approval, to decide it, keeps Inv: its ticket is there.
LEMMA ReadApprovalStep ==
  ASSUME Inv, NEW w \in Workers, ReadApproval(w)
  PROVE  Inv'
<1> DEFINE Read(a, decision, u) ==
             [approvals[a] EXCEPT !.status = decision, !.approver = IF @ = Nil THEN u ELSE @]
           Reading(a, decision, u) == [Idle EXCEPT
             !.op = "decide", !.pc = "read", !.ap = a, !.tk = approvals[a].ticket,
             !.approval = Read(a, decision, u)]
<1>1. PICK a \in Approvals, decision \in Decision, u \in Staff :
        LiveApproval(a) /\ req' = [req EXCEPT ![w] = Reading(a, decision, u)]
  BY ZenonT(60), SMTT(30) DEF ReadApproval
<1> DEFINE r == Reading(a, decision, u)
<1>2. /\ approvals[a] \in ApprovalRow /\ approvals[a].ticket \in Tickets
      /\ Live(approvals[a].ticket)
  BY <1>1 DEF Inv, TypeOK, NoOrphanApproval
<1>3. /\ Read(a, decision, u) \in ApprovalRow /\ Read(a, decision, u).life = "live"
      /\ Read(a, decision, u).ticket = approvals[a].ticket
      /\ Read(a, decision, u).status = decision
  BY <1>1, <1>2 DEF ApprovalRow, LiveApproval, Decision
<1>4. NoTicket \in TicketRow /\ NoTicket.life = "unborn" /\ NoHistory \in HistoryRow
  BY DEF NoTicket, NoHistory, TicketRow, HistoryRow, Life
<1> HIDE DEF Read
<1>5. /\ r.op = "decide" /\ r.pc = "read" /\ r.tk = approvals[a].ticket /\ r.ap = a
      /\ r.lock = "none" /\ r.row = NoTicket /\ r.approval = Read(a, decision, u)
  BY DEF Idle
<1>6. r \in Request
  BY <1>2, <1>3, <1>4 DEF Request, Idle, Handler, Lock
<1>7. Shape(r) /\ ApprovalShape(r) /\ Fits(r) /\ ~NewApproval(r)
  <2> HIDE DEF r
  <2> QED BY <1>1, <1>2, <1>3, <1>4, <1>5, ConstantsOK
      DEF Shape, ApprovalShape, Fits, NewApproval,
        Handler, Live, LiveApproval
<1>8. Admissible(w, r)
  <2> HIDE DEF r
  <2> QED BY <1>5, <1>6, <1>7, Arrival, ConstantsOK DEF Handler
<1>9. auditLog' \subseteq AuditRow /\ UNCHANGED <<tickets, approvals, trail>>
  BY Current DEF ReadApproval
<1>10. req' = [req EXCEPT ![w] = r]
  BY <1>1
<1> HIDE DEF r
<1> QED BY <1>8, <1>9, <1>10, InMemory

-----------------------------------------------------------------------------
\* A step that ends the request of w, or frees its lock for good, keeps Inv as
\* long as what the others rely on in the tables stays.
LEMMA OthersKeep ==
  ASSUME Inv, NEW w \in Workers, TypeOK', NoOrphanApproval',
         \A v \in Workers \ {w} : req'[v] = req[v] /\ Fits(req[v])',
         Shape(req[w])', ApprovalShape(req[w])', Fits(req[w])',
         \A v \in Workers \ {w} : Apart(req'[w], req[v]) /\ Apart(req[v], req'[w])
  PROVE  Inv'
<1>1. \A v \in Workers : Shape(req[v])' /\ ApprovalShape(req[v])' /\ Fits(req[v])'
  <2> TAKE v \in Workers
  <2>1. CASE v = w
    BY <2>1
  <2>2. CASE v # w
    BY <2>2 DEF Inv, RequestsInv, Shape, ApprovalShape
  <2> QED BY <2>1, <2>2
<1>2. \A u, v \in Workers : u # v => Apart(req[u], req[v])'
  <2> SUFFICES ASSUME NEW u \in Workers, NEW v \in Workers, u # v
               PROVE  Apart(req'[u], req'[v])
    BY DEF Apart, NewApproval, Clash
  <2> QED BY DEF Inv, RequestsInv
<1> QED BY <1>1, <1>2 DEF Inv, RequestsInv

\* The cascade takes the ticket only when nobody has a lock on it, and its
\* approvals only when no decision has updated one.
LEMMA DeleteCascadeStep ==
  ASSUME Inv, NEW w \in Workers, DeleteCascade(w)
  PROVE  Inv'
<1> DEFINE t == req[w].tk
           r == [req[w] EXCEPT !.pc = "audit", !.lock = "none"]
           gone == [NoTicket EXCEPT !.life = "deleted"]
           goneApproval == [NoApproval EXCEPT !.life = "deleted"]
<1>1. /\ req[w].op = "remove" /\ req[w].pc = "cascade" /\ req[w].lock = "delete"
      /\ t \in Tickets /\ Live(t) /\ req[w].ap = Nil
  BY Current, ConstantsOK DEF DeleteCascade, At, Shape, Fits, Handler
<1>2. /\ req' = [req EXCEPT ![w] = r]
      /\ tickets' = [tickets EXCEPT ![t] = gone]
      /\ approvals' = [a \in Approvals |->
           IF a \in ApprovalsOf(t) THEN goneApproval ELSE approvals[a]]
      /\ trail' = [trail EXCEPT ![t] = NoHistory]
      /\ auditLog' = auditLog
      /\ \A v \in Workers, a \in ApprovalsOf(t) : ~HoldsApproval(v, a)
  BY DEF DeleteCascade
<1>3. /\ gone \in TicketRow /\ gone.life = "deleted"
      /\ goneApproval \in ApprovalRow /\ goneApproval.life = "deleted"
      /\ NoHistory \in HistoryRow
  BY DEF NoTicket, NoApproval, NoHistory, TicketRow, ApprovalRow, HistoryRow, Life
<1>4. /\ r \in Request
      /\ r.op = "remove" /\ r.pc = "audit" /\ r.lock = "none" /\ r.tk = req[w].tk
      /\ r.ap = Nil /\ r.row = req[w].row /\ r.approval = req[w].approval
  <2>1. req[w] \in Request
    BY Current
  <2> QED BY <2>1, <1>1 DEF Request, Lock
<1> HIDE DEF gone, goneApproval, r
<1>5. TypeOK'
  BY <1>1, <1>2, <1>3, <1>4 DEF Inv, TypeOK
<1>6. /\ tickets'[t].life = "deleted" /\ \A x \in Tickets \ {t} : tickets'[x] = tickets[x]
      /\ \A a \in ApprovalsOf(t) : approvals'[a].life = "deleted"
      /\ \A a \in Approvals \ ApprovalsOf(t) : approvals'[a] = approvals[a]
      /\ req'[w] = r /\ \A v \in Workers \ {w} : req'[v] = req[v]
  BY <1>1, <1>2, <1>3 DEF Inv, TypeOK, ApprovalsOf
<1>7. NoOrphanApproval'
  BY <1>6 DEF Inv, NoOrphanApproval, Live, LiveApproval, ApprovalsOf
<1>8. \A v \in Workers \ {w} : Fits(req[v])'
  <2> TAKE v \in Workers \ {w}
  <2>1. req'[v] = req[v] /\ Fits(req[v]) /\ Shape(req[v]) /\ ApprovalShape(req[v])
    BY <1>6, Current
  <2>2. req[v].tk = t => req[v].lock = "none"
    BY <1>1, ConstantsOK DEF Inv, RequestsInv, Apart, Clash, Handler
  <2>3. req[v].op = "create" => req[v].tk # t
    BY <2>1, <1>1 DEF Fits, Live
  <2>4. req[v].op = "decide" /\ req[v].pc # "read" => req[v].ap \notin ApprovalsOf(t)
    BY <1>2 DEF HoldsApproval
  <2>5. NewApproval(req[v]) => req[v].ap \notin ApprovalsOf(t) /\ req[v].ap \in Approvals
    BY <2>1, Current DEF Fits, ApprovalsOf, LiveApproval, Shape, NewApproval, Request
  <2>6. req[v].op # Nil => req[v].tk \in Tickets
    BY <2>1 DEF Shape
  <2>7. req[v].op = "decide" => req[v].ap \in Approvals
    BY <2>1 DEF ApprovalShape
  <2>8. req[v].op = Nil => req[v].lock = "none"
    BY <2>1 DEF Shape, Idle
  <2>9. req[v].lock # "none" /\ req[v].op # "create" => Live(req[v].tk)'
    BY <2>1, <2>2, <2>6, <2>8, <1>6 DEF Fits, Live
  <2>10. req[v].op = "create" => tickets'[req[v].tk].life = "unborn"
    BY <2>1, <2>3, <2>6, <1>6, ConstantsOK DEF Fits, Handler
  <2>11. req[v].op \notin {"create", Nil} => tickets'[req[v].tk].life # "unborn"
    BY <2>1, <2>6, <1>6 DEF Fits
  <2>12. req[v].op = "decide" =>
           /\ approvals'[req[v].ap].life # "unborn"
           /\ LiveApproval(req[v].ap)' => approvals'[req[v].ap].ticket = req[v].tk
           /\ req[v].pc # "read" => LiveApproval(req[v].ap)'
    BY <2>1, <2>4, <2>7, <1>6 DEF Fits, LiveApproval
  <2>13. NewApproval(req[v]) => approvals'[req[v].ap].life = "unborn"
    BY <2>1, <2>5, <1>6 DEF Fits
  <2> QED BY <2>1, <2>9, <2>10, <2>11, <2>12, <2>13 DEF Fits, NewApproval, Live, LiveApproval
<1>9. Shape(req[w])' /\ ApprovalShape(req[w])' /\ Fits(req[w])'
  <2>1. Shape(r) /\ ApprovalShape(r)
    BY <1>1, <1>4, Current, ConstantsOK DEF Shape, ApprovalShape, Handler
  <2>2. Shape(req[w])' /\ ApprovalShape(req[w])'
    BY <2>1, <1>6 DEF Shape, ApprovalShape
  <2>3. Fits(req[w])'
    BY <1>4, <1>6, ConstantsOK DEF Fits, NewApproval, Handler
  <2> QED BY <2>2, <2>3
<1>10. \A v \in Workers \ {w} : Apart(r, req[v]) /\ Apart(req[v], r)
  BY <1>1, <1>4, Current, ConstantsOK
     DEF Inv, RequestsInv, Apart, Clash, NewApproval, Handler
<1> QED BY <1>5, <1>6, <1>7, <1>8, <1>9, <1>10, OthersKeep

\* A commit writes rows that are locked or under a key nobody else uses.
LEMMA CommitStep ==
  ASSUME Inv, NEW w \in Workers, Commit(w)
  PROVE  Inv'
<1> DEFINE t == req[w].tk
           b == req[w].ap
           writes == req[w].row.life = "live"
           decides == req[w].approval.life = "live"
<1>1. /\ req[w].op \in {"create", "update", "macro", "approve", "decide"}
      /\ req[w].pc = "commit" /\ t \in Tickets /\ req[w].lock \in {"share", "update"}
      /\ req[w].op = "create" => req[w].row.life = "live"
      /\ req[w] \in Request
  BY Current, ConstantsOK DEF Commit, Shape, Request, Handler, Lock, Idle
<1>2. /\ Idle \in Request /\ Idle.op = Nil /\ Idle.tk = Nil /\ Idle.lock = "none"
      /\ Shape(Idle) /\ ApprovalShape(Idle) /\ ~NewApproval(Idle)
  BY ConstantsOK DEF Idle, Request, Shape, ApprovalShape, NewApproval, TicketRow,
    ApprovalRow, HistoryRow, NoTicket, NoApproval, NoHistory, Handler, Life, Lock, Status
<1>3. /\ \A x \in Tickets : tickets'[x] = IF writes /\ x = t THEN req[w].row ELSE tickets[x]
      /\ \A a \in Approvals :
           approvals'[a] = IF decides /\ a = b THEN req[w].approval ELSE approvals[a]
      /\ req'[w] = Idle /\ \A v \in Workers \ {w} : req'[v] = req[v]
  BY DEF Commit, Finish, Inv, TypeOK
<1>4. TypeOK'
  BY <1>1, <1>2, Current DEF Inv, TypeOK, Commit, Finish, ApprovalShape, Request
<1>5. decides => /\ b \in Approvals /\ req[w].approval.ticket = t
                 /\ NewApproval(req[w]) \/ req[w].op = "decide"
  BY Current, ConstantsOK DEF ApprovalShape, NewApproval, Handler
<1>6. tickets'[t].life = "live"
  <2>1. CASE req[w].row.life = "live"
    BY <2>1, <1>1, <1>3 DEF Live
  <2>2. CASE req[w].row.life # "live"
    <3>1. Live(t)
      BY <2>2, <1>1, Current DEF Fits
    <3> QED BY <3>1, <2>2, <1>1, <1>3 DEF Live
  <2> QED BY <2>1, <2>2
<1>7. \A x \in Tickets : Live(x) => Live(x)'
  BY <1>3 DEF Live
<1>8. NoOrphanApproval'
  <2> SUFFICES ASSUME NEW a \in Approvals, LiveApproval(a)'
               PROVE  approvals'[a].ticket \in Tickets /\ Live(approvals[a].ticket)'
    BY DEF NoOrphanApproval
  <2>1. CASE decides /\ a = b
    <3>1. approvals'[a].ticket = t
      BY <2>1, <1>3, <1>5
    <3> QED BY <3>1, <1>1, <1>6 DEF Live
  <2>2. CASE ~(decides /\ a = b)
    BY <2>2, <1>3, <1>7 DEF Inv, NoOrphanApproval, LiveApproval, Live
  <2> QED BY <2>1, <2>2
<1>9. \A v \in Workers \ {w} : Fits(req[v])'
  <2> TAKE v \in Workers \ {w}
  <2>1. req'[v] = req[v] /\ Fits(req[v]) /\ Shape(req[v]) /\ ApprovalShape(req[v])
    BY <1>3, Current
  <2>2. Apart(req[v], req[w]) /\ Apart(req[w], req[v])
    BY DEF Inv, RequestsInv
  <2>3. req[v].op # Nil => req[v].tk \in Tickets
    BY <2>1 DEF Shape
  <2>4. req[v].op = Nil => req[v].lock = "none"
    BY <2>1 DEF Shape, Idle
  <2>5. req[v].lock # "none" /\ req[v].op # "create" => Live(req[v].tk)'
    BY <2>1, <2>3, <2>4, <1>7 DEF Fits
  <2>6. req[v].op = "create" => tickets'[req[v].tk].life = "unborn"
    BY <2>1, <2>2, <2>3, <1>3, ConstantsOK DEF Fits, Apart, Handler
  <2>7. req[v].op \notin {"create", Nil} => tickets'[req[v].tk].life # "unborn"
    BY <2>1, <2>3, <1>3 DEF Fits
  <2>8. ASSUME req[v].op = "decide"
        PROVE  /\ approvals'[req[v].ap].life # "unborn"
               /\ LiveApproval(req[v].ap)' => approvals'[req[v].ap].ticket = req[v].tk
               /\ req[v].pc # "read" => LiveApproval(req[v].ap)'
    <3>1. req[v].ap \in Approvals
      BY <2>1, <2>8 DEF ApprovalShape
    <3>2. CASE decides /\ req[v].ap = b
      <4>1. req[w].op = "decide"
        BY <3>2, <2>2, <1>5 DEF Apart
      <4>2. LiveApproval(b) /\ approvals[b].ticket = t
        <5>1. Fits(req[w])
          BY Current
        <5> QED BY <4>1, <5>1, <1>1 DEF Fits
      <4>3. req[v].tk = t
        BY <4>2, <3>2, <2>1, <2>8 DEF Fits
      <4> QED BY <4>3, <3>1, <3>2, <1>3, <1>5 DEF LiveApproval
    <3>3. CASE ~(decides /\ req[v].ap = b)
      BY <3>1, <3>3, <2>1, <2>8, <1>3 DEF Fits, LiveApproval
    <3> QED BY <3>2, <3>3
  <2>9. NewApproval(req[v]) => approvals'[req[v].ap].life = "unborn"
    BY <2>1, <2>2, <1>3, Current DEF Fits, Apart, NewApproval, Request
  <2> QED BY <2>1, <2>5, <2>6, <2>7, <2>8, <2>9 DEF Fits, NewApproval, Live, LiveApproval
<1>10. Shape(req[w])' /\ ApprovalShape(req[w])' /\ Fits(req[w])'
  <2>1. Shape(req[w])' /\ ApprovalShape(req[w])'
    BY <1>2, <1>3 DEF Shape, ApprovalShape
  <2>2. Fits(req[w])'
    BY <1>2, <1>3, ConstantsOK DEF Fits, NewApproval, Handler
  <2> QED BY <2>1, <2>2
<1>11. \A v \in Workers \ {w} : Apart(Idle, req[v]) /\ Apart(req[v], Idle)
  <2> TAKE v \in Workers \ {w}
  <2>1. Shape(req[v]) /\ req[v] \in Request
    BY Current
  <2>2. req[v].op # Nil => req[v].tk # Nil
    BY <2>1, ConstantsOK DEF Shape
  <2>3. NewApproval(req[v]) => req[v].ap # Idle.ap
    BY DEF NewApproval, Idle
  <2> QED BY <2>2, <2>3, <1>2, ConstantsOK DEF Apart, Clash, Handler
<1> QED BY <1>3, <1>4, <1>8, <1>9, <1>10, <1>11, OthersKeep

\* The record of a finished request is a row of the audit log.
LEMMA AuditDeleteStep ==
  ASSUME Inv, NEW w \in Workers, AuditDelete(w)
  PROVE  Inv'
<1>1. req[w].op # Nil
  BY ConstantsOK DEF AuditDelete, At, Handler
<1>2. Audit("TICKET_DELETED", req[w].tk, req[w].seen) \in AuditRow
  BY <1>1, Current DEF Audit, AuditRow, Request
<1> QED BY <1>2, Current, FinishStep DEF AuditDelete, Record

-----------------------------------------------------------------------------
(* The invariant on rows and locks, and the theorems that follow from it.  *)

\* Before the first request every table is empty and every worker idle.
LEMMA InitInv == Init => Inv
<1> SUFFICES ASSUME Init PROVE Inv
  OBVIOUS
<1>1. /\ Idle \in Request /\ Shape(Idle) /\ ApprovalShape(Idle) /\ Fits(Idle)
      /\ Apart(Idle, Idle)
      /\ NoTicket \in TicketRow /\ NoApproval \in ApprovalRow /\ NoHistory \in HistoryRow
      /\ NoApproval.life # "live"
  BY ConstantsOK DEF Idle, Request, Shape, ApprovalShape, Fits, Apart, NewApproval, TicketRow,
    ApprovalRow, HistoryRow, NoTicket, NoApproval, NoHistory, Handler, Life, Lock, Status
<1>2. TypeOK
  BY <1>1 DEF Init, TypeOK
<1>3. NoOrphanApproval
  BY <1>1 DEF Init, NoOrphanApproval, LiveApproval
<1>4. RequestsInv
  BY <1>1 DEF Init, RequestsInv
<1> QED BY <1>2, <1>3, <1>4 DEF Inv

\* Every step of every request keeps the invariant.
LEMMA NextInv == Inv /\ [Next]_vars => Inv'
<1> SUFFICES ASSUME Inv, [Next]_vars PROVE Inv'
  OBVIOUS
<1>1. CASE UNCHANGED vars
  BY <1>1 DEF vars, Inv, TypeOK, RequestsInv, NoOrphanApproval, Shape, ApprovalShape, Fits,
    Apart, NewApproval, Live, LiveApproval
<1>2. ASSUME NEW w \in Workers, Arrive(w) PROVE Inv'
  BY <1>2, CreateInsertStep, ReadTicketStep, ReadApprovalStep DEF Arrive
<1>3. ASSUME NEW w \in Workers, Proceed(w) PROVE Inv'
  <2>1. CASE RowGone(w)
    BY <2>1, Current, FinishStep DEF RowGone
  <2>2. CASE DeadlockVictim(w)
    BY <2>2, Current, FinishStep DEF DeadlockVictim
  <2> QED BY <1>3, <2>1, <2>2, ApplyWorkflowRulesStep, UpdateTicketStep, AuditUpdateStep,
       ApplyMacroStep, InsertApprovalStep, SetPendingStep, UpdateApprovalStep,
       CountPendingStep, LookAtTicketStep, ApplyDecisionStep, AuditDecisionStep,
       NotifyDecisionStep, LockForDeleteStep, DeleteCascadeStep, AuditDeleteStep,
       CommitStep DEF Proceed
<1>4. ASSUME NEW w \in Workers, Die(w) PROVE Inv'
  BY <1>4, Current, FinishStep DEF Die
<1> QED BY <1>1, <1>2, <1>3, <1>4 DEF Next

\* The inductive invariant holds in every state the ticket service reaches.
THEOREM Invariant == Spec => []Inv
<1> QED BY InitInv, NextInv, PTL DEF Spec

\* The tables and the requests keep to their types, for any number of each.
THEOREM TypeCorrect == Spec => []TypeOK
<1>1. Inv => TypeOK
  BY DEF Inv
<1> QED BY <1>1, Invariant, PTL

\* An approval never outlives its ticket: the share lock of an insertion and
\* the cascade of a deletion exclude each other.
THEOREM ApprovalsHaveTickets == Spec => []NoOrphanApproval
<1>1. Inv => NoOrphanApproval
  BY DEF Inv
<1> QED BY <1>1, Invariant, PTL

\* A decision that has updated its approval always finds its ticket, so the
\* handler's second "Ticket no encontrado" cannot be reached.
THEOREM DecisionsFindTheirTicket == Spec => []DecisionFindsTicket
<1>1. Inv => DecisionFindsTicket
  <2> SUFFICES ASSUME Inv, NEW w \in Workers, NEW a \in Approvals, HoldsApproval(w, a)
               PROVE  LiveApproval(a) /\ Live(req[w].tk)
    BY DEF DecisionFindsTicket
  <2>1. Fits(req[w])
    BY Current
  <2> QED BY <2>1 DEF HoldsApproval, Fits, Inv, NoOrphanApproval, LiveApproval
<1> QED BY <1>1, Invariant, PTL

\* No transaction writes back a ticket that was deleted after it was read.
THEOREM DeletedTicketsStay == Spec => NoResurrection
<1> DEFINE Stays(x) ==
      /\ tickets[x].life = "deleted" => tickets'[x] = tickets[x]
      /\ tickets[x].life = "live" => tickets'[x].life \in {"live", "deleted"}
<1>1. ASSUME Inv, [Next]_vars, NEW x \in Tickets PROVE Stays(x)
  <2>1. CASE tickets' = tickets
    BY <2>1
  <2>2. ASSUME NEW w \in Workers, DeleteCascade(w) PROVE Stays(x)
    <3>1. Live(req[w].tk)
      BY <2>2, <1>1, Current, ConstantsOK DEF DeleteCascade, At, Shape, Fits, Handler
    <3> QED BY <3>1, <2>2, <1>1 DEF DeleteCascade, Live, Inv, TypeOK, NoTicket
  <2>3. ASSUME NEW w \in Workers, Commit(w) PROVE Stays(x)
    <3>1. CASE req[w].row.life = "live" /\ req[w].tk = x
      <4>1. tickets'[x].life = "live"
        BY <3>1, <2>3, <1>1 DEF Commit, Inv, TypeOK
      <4>2. tickets[x].life # "deleted"
        <5>1. Shape(req[w]) /\ Fits(req[w])
          BY <1>1, Current
        <5> QED BY <5>1, <3>1 DEF Fits, Shape, Live
      <4> QED BY <4>1, <4>2
    <3>2. CASE ~(req[w].row.life = "live" /\ req[w].tk = x)
      BY <3>2, <2>3, <1>1 DEF Commit, Inv, TypeOK
    <3> QED BY <3>1, <3>2
  <2> QED BY ZenonT(60), <1>1, <2>1, <2>2, <2>3 DEF Next, Arrive, Proceed, vars, CreateInsert, ReadTicket,
       ReadApproval, ApplyWorkflowRules, UpdateTicket, AuditUpdate, ApplyMacro,
       InsertApproval, SetPending, UpdateApproval, CountPending, LookAtTicket,
       ApplyDecision, AuditDecision, NotifyDecision, LockForDelete, AuditDelete, RowGone,
       DeadlockVictim, Die
<1>2. Inv /\ [Next]_vars =>
        [\A t \in Tickets :
          /\ tickets[t].life = "deleted" => tickets'[t] = tickets[t]
          /\ tickets[t].life = "live" => tickets'[t].life \in {"live", "deleted"}]_vars
  BY <1>1
<1> QED BY <1>2, Invariant, PTL DEF Spec, NoResurrection

-----------------------------------------------------------------------------
(* Stamps.                                                                 *)

\* An UPDATE that sets the status stamps it; one that does not keeps it.
LEMMA StampedStamps ==
  ASSUME NEW row \in TicketRow, Stamps(row), NEW ask \in Status \cup {Nil}, NEW next,
         ask # Nil => next = ask
  PROVE  Stamps(Stamped(row, ask, next))
<1>1. CASE ask = Nil
  BY <1>1 DEF Stamps, Stamped, TicketRow
<1>2. CASE ask # Nil
  BY <1>2 DEF Stamps, Stamped, TicketRow
<1> QED BY <1>1, <1>2

\* What a step writes in memory and in the table keeps the stamps.
LEMMA NextStamps == Inv /\ StampInv /\ [Next]_vars => StampInv'
<1> SUFFICES ASSUME Inv, StampInv, [Next]_vars PROVE StampInv'
  OBVIOUS
<1> DEFINE Kept(v) == req'[v].row.life = "live" =>
                        Stamps(req'[v].row) \/ req'[v].row = req[v].row
<1>1. ASSUME tickets' = tickets, \A v \in Workers : Kept(v)
      PROVE  StampInv'
  BY <1>1 DEF StampInv, StampedStatus, Stamps, Live
<1>2. ASSUME NEW w \in Workers, NEW r, req' = [req EXCEPT ![w] = r], tickets' = tickets,
             r.row.life = "live" => Stamps(r.row) \/ r.row = req[w].row
      PROVE  StampInv'
  BY <1>1, <1>2 DEF Inv, TypeOK
<1>3. Idle.row.life # "live"
  BY DEF Idle, NoTicket
<1>4. CASE UNCHANGED vars
  BY <1>1, <1>4 DEF vars
<1>5. ASSUME NEW w \in Workers, Arrive(w) PROVE StampInv'
  <2>1. CASE CreateInsert(w)
    BY <1>2, <2>1 DEF CreateInsert, Idle, NoTicket, Stamps
  <2>2. CASE ReadTicket(w)
    BY ZenonT(60), <1>2, <2>2 DEF ReadTicket, Idle, NoTicket
  <2>3. CASE ReadApproval(w)
    BY <1>2, <2>3 DEF ReadApproval, Idle, NoTicket
  <2> QED BY <1>5, <2>1, <2>2, <2>3 DEF Arrive
<1>6. ASSUME NEW w \in Workers, Proceed(w) PROVE StampInv'
  <2>1. req[w].op # Nil /\ Live(req[w].tk) => Stamps(tickets[req[w].tk])
    BY Current DEF StampInv, StampedStatus
  <2>2. CASE UpdateTicket(w)
    <3> DEFINE next == IF req[w].ask = Nil THEN req[w].seen ELSE req[w].ask
               row == Stamped(tickets[req[w].tk], req[w].ask, next)
    <3>1. Stamps(row)
      BY <2>1, <2>2, Current, StampedStamps, ConstantsOK
         DEF UpdateTicket, At, Handler, Request
    <3> QED BY <2>2, <3>1, <1>2 DEF UpdateTicket, Inv, TypeOK, Request
  <2>3. CASE ApplyMacro(w)
    <3> DEFINE row == Stamped(tickets[req[w].tk], req[w].ask, req[w].ask)
    <3>1. Stamps(row)
      BY <2>1, <2>3, Current, StampedStamps, ConstantsOK
         DEF ApplyMacro, At, Handler, Request
    <3> QED BY <2>3, <3>1, <1>2 DEF ApplyMacro, Inv, TypeOK, Request
  <2>4. CASE SetPending(w)
    <3> DEFINE row == [tickets[req[w].tk] EXCEPT !.status = "PENDING"]
               r == [req[w] EXCEPT !.pc = "commit", !.lock = "update", !.row = row]
    <3>1. Stamps(row)
      BY <2>4, Current, ConstantsOK DEF SetPending, At, Handler, Stamps, TicketRow
    <3>2. r.row = row
      BY Current DEF Request
    <3>3. req' = [req EXCEPT ![w] = r] /\ tickets' = tickets
      BY <2>4 DEF SetPending
    <3> HIDE DEF r
    <3> QED BY <3>1, <3>2, <3>3, <1>2
  <2>5. CASE ApplyDecision(w)
    <3> DEFINE next == NextStatus(req[w].approval.status, req[w].quiet, req[w].seen)
               row == IF next = Nil THEN NoTicket
                      ELSE [tickets[req[w].tk] EXCEPT !.status = next,
                              !.closedAt = (next = "CANCELLED")]
               lock == IF next = Nil THEN "share" ELSE "update"
               entry == IF next = Nil THEN NoHistory
                        ELSE [from |-> req[w].seen, to |-> next]
               r == [req[w] EXCEPT !.pc = "audit", !.lock = lock, !.row = row, !.entry = entry]
    <3>1. next \in {"CANCELLED", "OPEN", Nil}
      BY NextStatusRange
    <3>2. row.life = "live" => Stamps(row)
      <4> HIDE DEF next
      <4> QED BY <3>1, <2>5, Current, ConstantsOK
           DEF ApplyDecision, At, Handler, Stamps, TicketRow, NoTicket
    <3>3. req' = [req EXCEPT ![w] = r] /\ tickets' = tickets
      BY <2>5 DEF ApplyDecision
    <3> HIDE DEF row, lock, entry, next
    <3>4. r.row = row
      BY Current DEF Request
    <3> HIDE DEF r
    <3> QED BY <3>2, <3>3, <3>4, <1>2
  <2>6. CASE Commit(w)
    BY <2>6, <1>3 DEF Commit, Finish, StampInv, StampedStatus, Live, Inv, TypeOK, Stamps
  <2>7. CASE DeleteCascade(w)
    BY <2>7 DEF DeleteCascade, StampInv, StampedStatus, Live, Inv, TypeOK, Request, Stamps,
       NoTicket
  <2>8. CASE \/ ApplyWorkflowRules(w) \/ AuditUpdate(w) \/ UpdateApproval(w)
             \/ AuditDecision(w) \/ NotifyDecision(w)
    <3> DEFINE pc == IF req[w].op = "create" THEN "commit" ELSE "audit"
    <3>1. /\ tickets' = tickets
          /\ \E p \in {pc, "commit", "count", "notify"} : req' = [req EXCEPT ![w].pc = p]
      BY <2>8 DEF ApplyWorkflowRules, AuditUpdate, UpdateApproval, AuditDecision, NotifyDecision
    <3> HIDE DEF pc
    <3> QED BY <3>1, <1>1 DEF Inv, TypeOK, Request
  <2>9. CASE InsertApproval(w) \/ CountPending(w) \/ LookAtTicket(w) \/ LockForDelete(w)
    <3>1. req[w] \in Request
      BY Current
    <3>2. tickets' = tickets /\ req'[w].row = req[w].row
      <4>1. CASE InsertApproval(w)
        BY <3>1, <4>1 DEF InsertApproval, Request, Inv, TypeOK
      <4>2. CASE CountPending(w)
        BY <3>1, <4>2 DEF CountPending, Request, Inv, TypeOK
      <4>3. CASE LookAtTicket(w)
        BY <3>1, <4>3 DEF LookAtTicket, Request, Inv, TypeOK
      <4>4. CASE LockForDelete(w)
        BY <3>1, <4>4 DEF LockForDelete, Request, Inv, TypeOK
      <4> QED BY <2>9, <4>1, <4>2, <4>3, <4>4
    <3>3. \A v \in Workers \ {w} : req'[v] = req[v]
      BY <2>9 DEF InsertApproval, CountPending, LookAtTicket, LockForDelete, Inv, TypeOK
    <3> QED BY <3>2, <3>3, <1>1
  <2>10. CASE AuditDelete(w) \/ RowGone(w) \/ DeadlockVictim(w)
    BY <1>2, <1>3, <2>10 DEF AuditDelete, RowGone, DeadlockVictim, Finish
  <2> QED BY <1>6, <2>2, <2>3, <2>4, <2>5, <2>6, <2>7, <2>8, <2>9, <2>10 DEF Proceed
<1>7. ASSUME NEW w \in Workers, Die(w) PROVE StampInv'
  BY <1>2, <1>3, <1>7 DEF Die, Finish
<1> QED BY <1>4, <1>5, <1>6, <1>7 DEF Next

\* A RESOLVED ticket carries a resolution date and a CLOSED one a closing date,
\* whatever requests ran at once: a transaction stamps the row as it finds it.
THEOREM StatusIsStamped == Spec => []StampedStatus
<1>1. Init => StampInv
  BY DEF Init, StampInv, StampedStatus, Live, Idle, NoTicket
<1>2. StampInv => StampedStatus
  BY DEF StampInv
<1> QED BY <1>1, <1>2, NextStamps, Invariant, PTL DEF Spec

-----------------------------------------------------------------------------
(* The audit trail of decisions.                                           *)

\* A decision reaches its commit only through the step that records it.
LEMMA NextAudit == Inv /\ AuditInv /\ [Next]_vars => AuditInv'
<1> SUFFICES ASSUME Inv, AuditInv, [Next]_vars PROVE AuditInv'
  OBVIOUS
<1> DEFINE Noted(a, decision) == Audit("TICKET_APPROVAL_DECIDED", a, decision)
           Past(r) == r.op = "decide" /\ r.pc \in {"notify", "commit"}
\* A step of w that leaves the approvals alone and lets w reach the
\* notifications only with its decision in the log.
<1>1. ASSUME NEW w \in Workers, NEW r, req' = [req EXCEPT ![w] = r],
             approvals' = approvals, auditLog \subseteq auditLog',
             Past(r) => Noted(r.ap, r.approval.status) \in auditLog'
      PROVE  AuditInv'
  <2>1. DecisionsAudited'
    BY <1>1 DEF AuditInv, DecisionsAudited, LiveApproval, Audit
  <2>2. \A v \in Workers : Past(req'[v]) =>
          Noted(req'[v].ap, req'[v].approval.status) \in auditLog'
    BY <1>1 DEF AuditInv, Inv, TypeOK
  <2> QED BY <2>1, <2>2 DEF AuditInv, Audit
<1>2. Idle.op # "decide"
  BY ConstantsOK DEF Idle, Handler
<1>3. CASE UNCHANGED vars
  BY <1>3 DEF vars, AuditInv, DecisionsAudited, LiveApproval, Audit
<1>4. ASSUME NEW w \in Workers, Arrive(w) PROVE AuditInv'
  <2>1. CASE CreateInsert(w)
    BY <1>1, <2>1 DEF CreateInsert, Idle
  <2>2. CASE ReadTicket(w)
    BY ZenonT(60), <1>1, <2>2 DEF ReadTicket, Idle
  <2>3. CASE ReadApproval(w)
    BY <1>1, <2>3 DEF ReadApproval, Idle
  <2> QED BY <1>4, <2>1, <2>2, <2>3 DEF Arrive
<1>5. ASSUME NEW w \in Workers, Finish(w), approvals' = approvals, auditLog \subseteq auditLog'
      PROVE  AuditInv'
  BY <1>1, <1>2, <1>5 DEF Finish
<1>6. ASSUME NEW w \in Workers, NEW p, req' = [req EXCEPT ![w].pc = p],
             approvals' = approvals, auditLog \subseteq auditLog',
             req[w].op # "decide" \/ p \notin {"notify", "commit"}
               \/ Noted(req[w].ap, req[w].approval.status) \in auditLog'
      PROVE  AuditInv'
  <2> DEFINE r == [req[w] EXCEPT !.pc = p]
  <2>1. r.op = req[w].op /\ r.pc = p /\ r.ap = req[w].ap /\ r.approval = req[w].approval
    BY Current DEF Request
  <2> HIDE DEF r, Noted
  <2>2. Past(r) => Noted(r.ap, r.approval.status) \in auditLog'
    BY <1>6, <2>1
  <2> QED BY <1>1, <1>6, <2>2 DEF r
<1>7. ASSUME NEW w \in Workers, Proceed(w) PROVE AuditInv'
  <2>1. CASE ApplyWorkflowRules(w)
    <3> DEFINE p == IF req[w].op = "create" THEN "commit" ELSE "audit"
    <3>1. req[w].op # "decide"
      BY <2>1, Current, ConstantsOK DEF ApplyWorkflowRules, Shape
    <3>2. /\ req' = [req EXCEPT ![w].pc = p] /\ approvals' = approvals
          /\ auditLog \subseteq auditLog'
      BY <2>1 DEF ApplyWorkflowRules, Record
    <3> HIDE DEF p
    <3> QED BY <3>1, <3>2, <1>6
  <2>2. CASE UpdateTicket(w) \/ ApplyMacro(w) \/ InsertApproval(w) \/ SetPending(w)
             \/ CountPending(w) \/ LookAtTicket(w) \/ ApplyDecision(w) \/ LockForDelete(w)
    <3> DEFINE Outside == /\ approvals' = approvals /\ auditLog' = auditLog
                          /\ \A v \in Workers \ {w} : req'[v] = req[v]
                          /\ ~Past(req'[w])
    <3>1. req[w] \in Request /\ req \in [Workers -> Request]
      BY DEF Inv, TypeOK
    <3>2. ASSUME UpdateTicket(w) PROVE Outside
      BY <3>1, <3>2 DEF UpdateTicket, At, Request
    <3>3. ASSUME ApplyMacro(w) PROVE Outside
      BY <3>1, <3>3 DEF ApplyMacro, At, Request
    <3>4. ASSUME InsertApproval(w) PROVE Outside
      BY <3>1, <3>4 DEF InsertApproval, At, Request
    <3>5. ASSUME SetPending(w) PROVE Outside
      BY <3>1, <3>5 DEF SetPending, At, Request
    <3>6. ASSUME CountPending(w) PROVE Outside
      BY <3>1, <3>6 DEF CountPending, At, Request
    <3>7. ASSUME LookAtTicket(w) PROVE Outside
      BY <3>1, <3>7 DEF LookAtTicket, At, Request
    <3>8. ASSUME ApplyDecision(w) PROVE Outside
      <4> DEFINE next == NextStatus(req[w].approval.status, req[w].quiet, req[w].seen)
                 row == IF next = Nil THEN NoTicket
                        ELSE [tickets[req[w].tk] EXCEPT !.status = next,
                                !.closedAt = (next = "CANCELLED")]
                 lock == IF next = Nil THEN "share" ELSE "update"
                 entry == IF next = Nil THEN NoHistory
                          ELSE [from |-> req[w].seen, to |-> next]
      <4>1. /\ req' = [req EXCEPT ![w] = [req[w] EXCEPT
                 !.pc = "audit", !.lock = lock, !.row = row, !.entry = entry]]
            /\ approvals' = approvals /\ auditLog' = auditLog
        BY <3>8 DEF ApplyDecision
      <4> HIDE DEF next, row, lock, entry
      <4> QED BY <3>1, <4>1 DEF Request
    <3>9. ASSUME LockForDelete(w) PROVE Outside
      BY <3>1, <3>9 DEF LockForDelete, At, Request
    <3>10. Outside
      BY <2>2, <3>2, <3>3, <3>4, <3>5, <3>6, <3>7, <3>8, <3>9
    <3> QED BY <3>10 DEF AuditInv, DecisionsAudited, LiveApproval, Audit
  <2>3. CASE AuditUpdate(w)
    BY <2>3, <1>6 DEF AuditUpdate, At, Record
  <2>4. CASE UpdateApproval(w)
    BY <2>4, <1>6 DEF UpdateApproval
  <2>5. CASE AuditDecision(w)
    BY <2>5, <1>6 DEF AuditDecision, Record
  <2>6. CASE NotifyDecision(w)
    BY <2>6, <1>6 DEF NotifyDecision, At, Record, AuditInv
  <2>7. CASE DeleteCascade(w)
    <3>1. \A a \in Approvals : LiveApproval(a)' => approvals'[a] = approvals[a]
      BY <2>7 DEF DeleteCascade, LiveApproval, NoApproval
    <3>2. DecisionsAudited'
      BY <3>1, <2>7 DEF DeleteCascade, AuditInv, DecisionsAudited, LiveApproval, Audit
    <3>3. \A v \in Workers : Past(req'[v]) => req'[v] = req[v]
      BY <2>7 DEF DeleteCascade, Inv, TypeOK, Request
    <3>4. auditLog' = auditLog
      BY <2>7 DEF DeleteCascade
    <3> QED BY <3>2, <3>3, <3>4 DEF AuditInv, Audit
  <2>8. CASE Commit(w)
    <3>1. \A a \in Approvals : approvals'[a] =
            IF req[w].approval.life = "live" /\ a = req[w].ap
            THEN req[w].approval ELSE approvals[a]
      BY <2>8 DEF Commit, Inv, TypeOK
    <3>2. req[w].approval.life = "live" /\ req[w].approval.status \in Decision =>
            Noted(req[w].ap, req[w].approval.status) \in auditLog
      <4>1. ApprovalShape(req[w])
        BY Current
      <4> QED BY <4>1, <2>8 DEF Commit, ApprovalShape, Decision, AuditInv
    <3>3. auditLog' = auditLog
      BY <2>8 DEF Commit
    <3>4. DecisionsAudited'
      BY <3>1, <3>2, <3>3 DEF AuditInv, DecisionsAudited, LiveApproval, Audit
    <3>5. \A v \in Workers : Past(req'[v]) => req'[v] = req[v]
      BY <2>8, <1>2 DEF Commit, Finish, Inv, TypeOK
    <3> QED BY <3>3, <3>4, <3>5 DEF AuditInv, Audit
  <2>9. CASE AuditDelete(w) \/ RowGone(w) \/ DeadlockVictim(w)
    BY <1>5, <2>9 DEF AuditDelete, RowGone, DeadlockVictim, Record
  <2> QED BY <1>7, <2>1, <2>2, <2>3, <2>4, <2>5, <2>6, <2>7, <2>8, <2>9 DEF Proceed
<1>8. ASSUME NEW w \in Workers, Die(w) PROVE AuditInv'
  BY <1>5, <1>8 DEF Die
<1> QED BY <1>3, <1>4, <1>7, <1>8 DEF Next

\* No decision is committed before its audit record exists, with any number of
\* requests deciding the same approval and any of them dying half way.
THEOREM DecisionsAreAudited == Spec => []DecisionsAudited
<1>1. Init => AuditInv
  BY ConstantsOK DEF Init, AuditInv, DecisionsAudited, LiveApproval, Idle, NoApproval, Handler
<1>2. AuditInv => DecisionsAudited
  BY DEF AuditInv
<1> QED BY <1>1, <1>2, NextAudit, Invariant, PTL DEF Spec

-----------------------------------------------------------------------------
(* The audit log when no request dies: only the victim of a deadlock is    *)
(* rolled back, and it has recorded nothing yet.                           *)

Recording(w, a, decision) ==
  /\ HoldsApproval(w, a) /\ req[w].pc \in {"notify", "commit"}
  /\ req[w].approval.status = decision

\* What the log says of an approval has been committed, or whoever said it has
\* only the notifications and the commit ahead.
LogInv ==
  /\ \A e \in auditLog : e.action \in OfDecisions =>
       /\ e.on \in Approvals
       /\ \/ approvals[e.on].life = "deleted"
          \/ LiveApproval(e.on) /\ approvals[e.on].status \in Decision
          \/ \E w \in Workers : Recording(w, e.on, e.value)
  /\ DeletionsAudited

\* A step that writes no table, takes nobody away from a decision on record or
\* a deletion to record, and records at most a decision of its own.
LEMMA LogGrows ==
  ASSUME Inv, LogInv, UNCHANGED <<tickets, approvals>>, auditLog \subseteq auditLog',
         \A v \in Workers :
           /\ \A a \in Approvals : \A decision :
                Recording(v, a, decision) => Recording(v, a, decision)'
           /\ At(v, "remove", "audit") =>
                \/ At(v, "remove", "audit")' /\ req'[v].tk = req[v].tk
                \/ \E e \in auditLog' : e.action = "TICKET_DELETED" /\ e.on = req[v].tk,
         \A e \in auditLog' \ auditLog : e.action \in OfDecisions =>
           e.on \in Approvals /\ \E v \in Workers : Recording(v, e.on, e.value)'
  PROVE  LogInv'
<1>1. ASSUME NEW e \in auditLog', e.action \in OfDecisions
      PROVE  /\ e.on \in Approvals
             /\ \/ approvals[e.on].life = "deleted"
                \/ LiveApproval(e.on) /\ approvals[e.on].status \in Decision
                \/ \E v \in Workers : Recording(v, e.on, e.value)'
  <2>1. CASE e \in auditLog
    BY <1>1, <2>1 DEF LogInv
  <2>2. CASE e \notin auditLog
    BY <1>1, <2>2
  <2> QED BY <2>1, <2>2
<1>2. DeletionsAudited'
  <2> SUFFICES ASSUME NEW t \in Tickets, tickets[t].life = "deleted"
               PROVE  \/ \E e \in auditLog' : e.action = "TICKET_DELETED" /\ e.on = t
                      \/ \E w \in Workers : At(w, "remove", "audit")' /\ req'[w].tk = t
    BY DEF DeletionsAudited, At
  <2>1. CASE \E e \in auditLog : e.action = "TICKET_DELETED" /\ e.on = t
    BY <2>1
  <2>2. ASSUME NEW w \in Workers, At(w, "remove", "audit"), req[w].tk = t
        PROVE  \/ \E e \in auditLog' : e.action = "TICKET_DELETED" /\ e.on = t
               \/ \E v \in Workers : At(v, "remove", "audit")' /\ req'[v].tk = t
    BY <2>2
  <2> QED BY <2>1, <2>2 DEF LogInv, DeletionsAudited
<1> QED BY <1>1, <1>2 DEF LogInv, Recording, HoldsApproval, LiveApproval

\* A request at another point than the end of a decision or of a deletion does
\* what it does without being on record.
LEMMA OffRecord ==
  ASSUME Inv, LogInv, NEW w \in Workers, UNCHANGED <<tickets, approvals>>,
         \A v \in Workers \ {w} : req'[v] = req[v],
         ~(req[w].op = "decide" /\ req[w].pc \in {"notify", "commit"}),
         ~At(w, "remove", "audit"),
         auditLog \subseteq auditLog',
         \A e \in auditLog' \ auditLog : e.action \notin OfDecisions
  PROVE  LogInv'
<1>1. \A v \in Workers, a \in Approvals : \A decision :
        Recording(v, a, decision) => Recording(v, a, decision)'
  BY DEF Recording, HoldsApproval
<1>2. \A v \in Workers : At(v, "remove", "audit") =>
        At(v, "remove", "audit")' /\ req'[v].tk = req[v].tk
  BY DEF At
<1> QED BY <1>1, <1>2, LogGrows

\* Records that are not about a decision, by a request that is not ending one.
LEMMA NextLog ==
  ASSUME ~Crashes
  PROVE  Inv /\ LogInv /\ [Next]_vars => LogInv'
<1> SUFFICES ASSUME Inv, LogInv, [Next]_vars PROVE LogInv'
  OBVIOUS
<1>1. CASE UNCHANGED vars
  BY <1>1 DEF vars, LogInv, Recording, HoldsApproval, LiveApproval, DeletionsAudited, At
<1>2. ASSUME NEW w \in Workers, Arrive(w) PROVE LogInv'
  <2>1. /\ req[w] = Idle /\ UNCHANGED <<tickets, approvals, auditLog>>
        /\ \A v \in Workers \ {w} : req'[v] = req[v]
    BY <1>2 DEF Arrive, CreateInsert, ReadTicket, ReadApproval, Inv, TypeOK
  <2>2. ~At(w, "remove", "audit") /\ req[w].pc \notin {"notify", "commit"}
    BY <2>1 DEF Idle, At
  <2> QED BY <2>1, <2>2, OffRecord
<1>3. ASSUME NEW w \in Workers, Proceed(w) PROVE LogInv'
  <2>0. req[w] \in Request /\ req \in [Workers -> Request] /\ Shape(req[w]) /\ ApprovalShape(req[w])
    BY Current DEF Inv, TypeOK
  <2>1. CASE ApplyWorkflowRules(w)
    <3>1. /\ \A e \in auditLog' \ auditLog : e.action \notin OfDecisions
          /\ auditLog \subseteq auditLog'
      BY <2>1 DEF ApplyWorkflowRules, Record, Audit, OfDecisions
    <3> QED BY <2>0, <2>1, <3>1, OffRecord DEF ApplyWorkflowRules, At
  <2>2. CASE UpdateTicket(w) \/ ApplyMacro(w) \/ InsertApproval(w) \/ SetPending(w)
             \/ UpdateApproval(w) \/ CountPending(w) \/ LookAtTicket(w) \/ ApplyDecision(w)
             \/ LockForDelete(w) \/ RowGone(w) \/ DeadlockVictim(w)
    <3>1. /\ UNCHANGED <<tickets, approvals, auditLog>>
          /\ \A v \in Workers \ {w} : req'[v] = req[v]
      BY <2>0, <2>2 DEF UpdateTicket, ApplyMacro, InsertApproval, SetPending, UpdateApproval,
           CountPending, LookAtTicket, ApplyDecision, LockForDelete, RowGone, DeadlockVictim,
           Finish
    <3>2. ~At(w, "remove", "audit") /\ req[w].pc \notin {"notify", "commit"}
      BY <2>2 DEF UpdateTicket, ApplyMacro, InsertApproval, SetPending, UpdateApproval,
           CountPending, LookAtTicket, ApplyDecision, LockForDelete, RowGone, DeadlockVictim,
           Entangled, At
    <3> QED BY <3>1, <3>2, OffRecord
  <2>3. CASE AuditUpdate(w)
    <3>1. /\ \A e \in auditLog' \ auditLog : e.action \notin OfDecisions
          /\ auditLog \subseteq auditLog'
      BY <2>3 DEF AuditUpdate, Record, Audit, OfDecisions
    <3> QED BY <2>0, <2>3, <3>1, OffRecord DEF AuditUpdate, At
  <2>4. CASE AuditDecision(w) \/ NotifyDecision(w)
    <3> DEFINE said == req[w].approval.status
    <3>1. PICK p \in {"notify", "commit"} : req' = [req EXCEPT ![w].pc = p]
      BY <2>4 DEF AuditDecision, NotifyDecision
    <3>2. /\ req[w].op = "decide" /\ req[w].pc # "read" /\ req[w].ap \in Approvals
          /\ UNCHANGED <<tickets, approvals>>
      BY <2>0, <2>4 DEF AuditDecision, NotifyDecision, At, ApprovalShape
    <3>3. req'[w] = [req[w] EXCEPT !.pc = p] /\ \A v \in Workers \ {w} : req'[v] = req[v]
      BY <2>0, <3>1
    <3>4. \A a, decision : a = req[w].ap /\ decision = said => Recording(w, a, decision)'
      BY <2>0, <3>2, <3>3 DEF Recording, HoldsApproval, Request
    <3>5. \A e \in auditLog' \ auditLog : e.on = req[w].ap /\ e.value = said
      BY <2>4 DEF AuditDecision, NotifyDecision, Record, Audit
    <3>6. \A v \in Workers, a \in Approvals : \A decision :
            Recording(v, a, decision) => Recording(v, a, decision)'
      BY <3>3, <3>4, <2>0 DEF Recording, HoldsApproval, Request
    <3>7. \A v \in Workers : At(v, "remove", "audit") =>
            At(v, "remove", "audit")' /\ req'[v].tk = req[v].tk
      BY <3>2, <3>3 DEF At
    <3>8. auditLog \subseteq auditLog'
      BY <2>4 DEF AuditDecision, NotifyDecision, Record
    <3>9. \A e \in auditLog' \ auditLog :
            e.on \in Approvals /\ \E v \in Workers : Recording(v, e.on, e.value)'
      BY <3>2, <3>4, <3>5
    <3> HIDE DEF said
    <3> QED BY <3>2, <3>6, <3>7, <3>8, <3>9, LogGrows
  <2>5. CASE AuditDelete(w)
    <3>1. /\ UNCHANGED <<tickets, approvals>> /\ req[w].op = "remove"
          /\ \A v \in Workers \ {w} : req'[v] = req[v]
          /\ auditLog' = auditLog \cup {Audit("TICKET_DELETED", req[w].tk, req[w].seen)}
      BY <2>0, <2>5 DEF AuditDelete, Finish, Record, At
    <3>2. \A v \in Workers, a \in Approvals : \A decision :
            Recording(v, a, decision) => Recording(v, a, decision)'
      BY <3>1 DEF Recording, HoldsApproval
    <3>3. \A v \in Workers : At(v, "remove", "audit") =>
            \/ At(v, "remove", "audit")' /\ req'[v].tk = req[v].tk
            \/ \E e \in auditLog' : e.action = "TICKET_DELETED" /\ e.on = req[v].tk
      <4> TAKE v \in Workers
      <4> DEFINE e == Audit("TICKET_DELETED", req[w].tk, req[w].seen)
      <4>1. e \in auditLog' /\ e.action = "TICKET_DELETED" /\ e.on = req[w].tk
        BY <3>1 DEF Audit
      <4>2. v # w => req'[v] = req[v]
        BY <3>1
      <4> HIDE DEF e
      <4> QED BY <4>1, <4>2 DEF At
    <3>4. \A e \in auditLog' \ auditLog : e.action \notin OfDecisions
      BY <3>1 DEF Audit, OfDecisions
    <3> QED BY <3>1, <3>2, <3>3, <3>4, LogGrows
  <2>6. CASE DeleteCascade(w)
    <3>1. /\ auditLog' = auditLog /\ req[w].op = "remove" /\ req[w].tk \in Tickets
          /\ \A v \in Workers \ {w} : req'[v] = req[v]
          /\ At(w, "remove", "audit")' /\ req'[w].tk = req[w].tk
          /\ \A t \in Tickets : t # req[w].tk => tickets'[t] = tickets[t]
      BY <2>0, <2>6, ConstantsOK DEF DeleteCascade, At, Request, Inv, TypeOK, Shape, Handler
    <3>2. \A a \in Approvals :
            approvals'[a] = approvals[a] \/ approvals'[a].life = "deleted"
      BY <2>6 DEF DeleteCascade, NoApproval
    <3>3. \A v \in Workers, a \in Approvals : \A decision :
            Recording(v, a, decision) => Recording(v, a, decision)'
      BY <3>1 DEF Recording, HoldsApproval
    <3>4. ASSUME NEW t \in Tickets, (tickets[t].life = "deleted")'
          PROVE  \/ \E e \in auditLog : e.action = "TICKET_DELETED" /\ e.on = t
                 \/ \E v \in Workers : At(v, "remove", "audit")' /\ req'[v].tk = t
      <4>1. CASE t = req[w].tk
        BY <3>1, <4>1
      <4>2. CASE t # req[w].tk
        BY <3>1, <3>4, <4>2 DEF LogInv, DeletionsAudited, At
      <4> QED BY <4>1, <4>2
    <3>5. DeletionsAudited'
      BY <3>1, <3>4 DEF DeletionsAudited, At
    <3>6. ASSUME NEW e \in auditLog, e.action \in OfDecisions
          PROVE  /\ e.on \in Approvals
                 /\ \/ (approvals[e.on].life = "deleted")'
                    \/ (LiveApproval(e.on) /\ approvals[e.on].status \in Decision)'
                    \/ \E v \in Workers : Recording(v, e.on, e.value)'
      <4>1. e.on \in Approvals
        BY <3>6 DEF LogInv
      <4>2. CASE approvals'[e.on].life = "deleted"
        BY <4>1, <4>2
      <4>3. CASE approvals'[e.on] = approvals[e.on]
        BY <3>3, <3>6, <4>1, <4>3 DEF LogInv, LiveApproval
      <4> QED BY <3>2, <4>1, <4>2, <4>3
    <3> QED BY <3>1, <3>5, <3>6 DEF LogInv
  <2>7. CASE Commit(w)
    <3>1. /\ auditLog' = auditLog /\ req[w].pc = "commit"
          /\ \A v \in Workers \ {w} : req'[v] = req[v]
      BY <2>0, <2>7 DEF Commit, Finish
    <3>2. \A a \in Approvals : approvals'[a] =
            IF req[w].approval.life = "live" /\ a = req[w].ap
            THEN req[w].approval ELSE approvals[a]
      BY <2>7 DEF Commit, Inv, TypeOK
    <3>3. \A t \in Tickets : (tickets[t].life = "deleted")' => tickets[t].life = "deleted"
      BY <2>7 DEF Commit, Inv, TypeOK
    <3>4. req[w].op # "remove"
      BY <2>0, <3>1 DEF Shape
    <3>5. DeletionsAudited'
      BY <3>1, <3>3, <3>4 DEF LogInv, DeletionsAudited, At
    <3>6. ASSUME NEW e \in auditLog, e.action \in OfDecisions
          PROVE  /\ e.on \in Approvals
                 /\ \/ (approvals[e.on].life = "deleted")'
                    \/ (LiveApproval(e.on) /\ approvals[e.on].status \in Decision)'
                    \/ \E v \in Workers : Recording(v, e.on, e.value)'
      <4>1. e.on \in Approvals
        BY <3>6 DEF LogInv
      <4>2. CASE req[w].op = "decide" /\ req[w].ap = e.on
        <5>1. approvals'[e.on] = req[w].approval
          BY <2>0, <3>2, <4>1, <4>2 DEF ApprovalShape
        <5> QED BY <2>0, <4>1, <4>2, <5>1 DEF ApprovalShape, LiveApproval
      <4>3. CASE req[w].op = "decide" /\ req[w].ap # e.on
        <5>1. approvals'[e.on] = approvals[e.on]
          BY <3>2, <4>1, <4>3
        <5>2. \A v \in Workers : Recording(v, e.on, e.value) => Recording(v, e.on, e.value)'
          BY <3>1, <4>3 DEF Recording, HoldsApproval
        <5> QED BY <3>6, <4>1, <5>1, <5>2 DEF LogInv, LiveApproval
      <4>4. CASE req[w].op # "decide"
        <5>1. \A v \in Workers : Recording(v, e.on, e.value) => Recording(v, e.on, e.value)'
          BY <3>1, <4>4 DEF Recording, HoldsApproval
        <5>2. CASE req[w].approval.life = "live" /\ e.on = req[w].ap
          <6>1. approvals[e.on].life = "unborn"
            BY <2>0, <4>4, <5>2, Current, ConstantsOK
               DEF Fits, NewApproval, ApprovalShape
          <6>2. PICK v \in Workers : Recording(v, e.on, e.value)
            BY <3>6, <6>1 DEF LogInv, LiveApproval
          <6> QED BY <4>1, <5>1, <6>2
        <5>3. CASE ~(req[w].approval.life = "live" /\ e.on = req[w].ap)
          <6>1. approvals'[e.on] = approvals[e.on]
            BY <3>2, <4>1, <5>3
          <6> QED BY <3>6, <4>1, <5>1, <6>1 DEF LogInv, LiveApproval
        <5> QED BY <5>2, <5>3
      <4> QED BY <4>2, <4>3, <4>4
    <3> QED BY <3>1, <3>5, <3>6 DEF LogInv
  <2> QED BY <1>3, <2>1, <2>2, <2>3, <2>4, <2>5, <2>6, <2>7 DEF Proceed
<1>4. ASSUME NEW w \in Workers, Die(w) PROVE LogInv'
  BY <1>4 DEF Die
<1> QED BY <1>1, <1>2, <1>3, <1>4 DEF Next

\* As long as no request dies, the log and the tables agree on decisions and
\* deletions, with any number of requests and of deadlocks between them.
THEOREM LogMatchesTables == ASSUME ~Crashes PROVE Spec => []LogIsTrue
<1>1. Init => LogInv
  BY DEF Init, LogInv, DeletionsAudited, NoTicket
<1>2. Inv /\ LogInv => LogIsTrue
  BY DEF LogInv, LogIsTrue, NoPhantomDecision, Recording
<1> QED BY <1>1, <1>2, NextLog, Invariant, PTL DEF Spec
=============================================================================
