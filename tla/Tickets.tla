------------------------------ MODULE Tickets ------------------------------
(***************************************************************************)
(* The ticket service: the requests that write a ticket, its approvals and *)
(* its status history, as they interleave on one PostgreSQL database.      *)
(*                                                                         *)
(* A request reads the ticket outside any transaction (findOne) and then   *)
(* opens an interactive transaction under READ COMMITTED: its writes stay  *)
(* private until the commit, each statement sees what is committed when it *)
(* runs, and a row written by one transaction is locked until it ends.     *)
(* Audit records and notifications are written through another connection: *)
(* they are visible at once and survive a rollback.                        *)
(*                                                                         *)
(* Columns other than the status and its two stamps (title, priority,      *)
(* assignee, ...) are left out; a stamp is kept as "set or not".           *)
(***************************************************************************)
EXTENDS Naturals, FiniteSets

CONSTANTS
  Workers,    \* requests the server may have in progress at one time
  Tickets,    \* primary keys of the Ticket table
  Approvals,  \* primary keys of the TicketApproval table
  Staff,      \* users whose role is ADMIN or AGENT
  Admins,     \* those whose role is ADMIN
  Asked,      \* statuses a PATCH body or a macro may set
  Handlers,   \* endpoints the clients call in this instance
  Crashes,    \* whether a request may die half way
  Nil         \* SQL NULL, or a field left out of a request body

Status == {"OPEN", "IN_PROGRESS", "PENDING", "RESOLVED", "CLOSED", "CANCELLED"}
Decision == {"APPROVED", "REJECTED"}
Handler == {"create", "update", "macro", "approve", "decide", "remove"}

ASSUME ConstantsOK ==
  /\ Admins \subseteq Staff
  /\ Asked \subseteq Status
  /\ Handlers \subseteq Handler
  /\ Crashes \in BOOLEAN
  /\ Nil \notin Tickets \cup Approvals \cup Staff \cup Status \cup Handler

VARIABLES
  tickets,    \* committed rows of Ticket
  approvals,  \* committed rows of TicketApproval
  trail,      \* the latest committed TicketStatusHistory row of each ticket
  auditLog,   \* AuditLog and Notification rows, written outside transactions
  req         \* the request each worker is serving

vars == <<tickets, approvals, trail, auditLog, req>>

-----------------------------------------------------------------------------
(* Rows. A key is used once: a deleted row never comes back.               *)

Life == {"unborn", "live", "deleted"}

TicketRow == [life: Life, status: Status \cup {Nil},
              resolvedAt: BOOLEAN, closedAt: BOOLEAN]

ApprovalRow == [life: Life, ticket: Tickets \cup {Nil},
                status: Decision \cup {"PENDING", Nil},
                approver: Staff \cup {Nil}]

HistoryRow == [from: Status \cup {Nil}, to: Status \cup {Nil}]

AuditRow == [action: {"TICKET_UPDATED", "TICKET_DELETED",
                      "TICKET_APPROVAL_DECIDED", "WORKFLOW_RULE_APPLIED",
                      "NOTIFICATION_CREATED"},
             on: Tickets \cup Approvals,
             value: Status \cup Decision \cup {Nil}]

NoTicket == [life |-> "unborn", status |-> Nil,
             resolvedAt |-> FALSE, closedAt |-> FALSE]
NoApproval == [life |-> "unborn", ticket |-> Nil, status |-> Nil,
               approver |-> Nil]
NoHistory == [from |-> Nil, to |-> Nil]

Audit(action, on, value) == [action |-> action, on |-> on, value |-> value]

Live(t) == tickets[t].life = "live"
LiveApproval(a) == approvals[a].life = "live"
ApprovalsOf(t) == {a \in Approvals : LiveApproval(a) /\ approvals[a].ticket = t}
PendingOf(t) == {a \in ApprovalsOf(t) : approvals[a].status = "PENDING"}

-----------------------------------------------------------------------------
(* Requests. A worker's record is what the handler keeps in memory plus    *)
(* what its transaction has written and locked:                            *)
(*   ask       status asked for (Nil: left out of the body)                *)
(*   seen      ticket status the handler read and still relies on          *)
(*   quiet     the count of pending approvals came out as zero             *)
(*   lock      its lock on ticket tk: FOR KEY SHARE (a foreign key check), *)
(*             FOR NO KEY UPDATE (an UPDATE), FOR UPDATE (a DELETE)        *)
(*   row, approval, entry    uncommitted rows (for a decision, approval is *)
(*             first the row as read, with the decision filled in)         *)

Idle == [op |-> Nil, pc |-> "idle", tk |-> Nil, ap |-> Nil, ask |-> Nil,
         seen |-> Nil, quiet |-> FALSE, lock |-> "none",
         row |-> NoTicket, approval |-> NoApproval, entry |-> NoHistory]

Lock == {"none", "share", "update", "delete"}

Request == [op: Handler \cup {Nil},
            pc: {"idle", "read", "reopen", "count", "look", "apply",
                 "workflow", "audit", "notify", "cascade", "commit"},
            tk: Tickets \cup {Nil}, ap: Approvals \cup {Nil},
            ask: Status \cup {Nil}, seen: Status \cup {Nil},
            quiet: BOOLEAN, lock: Lock,
            row: TicketRow, approval: ApprovalRow, entry: HistoryRow]

At(w, op, pc) == req[w].op = op /\ req[w].pc = pc

Compatible(held, wanted) ==
  \/ held = "none"
  \/ held = "share" /\ wanted # "delete"
  \/ held = "update" /\ wanted = "share"

\* PostgreSQL grants w a lock of this strength on the ticket row.
CanLock(w, t, wanted) ==
  \A v \in Workers \ {w} : req[v].tk = t => Compatible(req[v].lock, wanted)

\* The transaction of w has updated the approval row and not ended.
HoldsApproval(w, a) ==
  req[w].op = "decide" /\ req[w].ap = a /\ req[w].pc # "read"

\* Keys no row and no request has: the bound on what an instance can create.
FreshTickets == {t \in Tickets : tickets[t].life = "unborn"
                                  /\ \A w \in Workers : req[w].tk # t}
FreshApprovals == {a \in Approvals : approvals[a].life = "unborn"
                                      /\ \A w \in Workers : req[w].ap # a}

Record(rows) == auditLog' = auditLog \cup rows
Finish(w) == req' = [req EXCEPT ![w] = Idle]

Init ==
  /\ tickets = [t \in Tickets |-> NoTicket]
  /\ approvals = [a \in Approvals |-> NoApproval]
  /\ trail = [t \in Tickets |-> NoHistory]
  /\ auditLog = {}
  /\ req = [w \in Workers |-> Idle]

-----------------------------------------------------------------------------
(* POST /tickets. The catalog item decides whether the ticket starts       *)
(* PENDING with an approval addressed to the first active administrator,   *)
(* if there is one.                                                        *)
CreateInsert(w) ==
  /\ "create" \in Handlers
  /\ req[w] = Idle
  /\ \E t \in FreshTickets :
          \/ req' = [req EXCEPT ![w] = [Idle EXCEPT
                !.op = "create", !.pc = "workflow", !.tk = t, !.lock = "update",
                !.row = [NoTicket EXCEPT !.life = "live", !.status = "OPEN"],
                !.entry = [from |-> Nil, to |-> "OPEN"]]]
          \/ \E a \in FreshApprovals, u \in Admins \cup {Nil} :
               req' = [req EXCEPT ![w] = [Idle EXCEPT
                 !.op = "create", !.pc = "workflow", !.tk = t, !.ap = a,
                 !.lock = "update",
                 !.row = [NoTicket EXCEPT !.life = "live", !.status = "PENDING"],
                 !.approval = [life |-> "live", ticket |-> t,
                               status |-> "PENDING", approver |-> u],
                 !.entry = [from |-> Nil, to |-> "PENDING"]]]
  /\ UNCHANGED <<tickets, approvals, trail, auditLog>>

\* applyWorkflowRules, called by create and update inside their transaction.
\* The rules write columns that are left out here; for each rule that applies
\* they leave an audit record and, if it says so, notifications.
ApplyWorkflowRules(w) ==
  /\ req[w].pc = "workflow"
  /\ \E applied \in SUBSET {Audit("WORKFLOW_RULE_APPLIED", req[w].tk, Nil)} :
       Record(applied)
  /\ req' = [req EXCEPT ![w].pc = IF req[w].op = "create" THEN "commit" ELSE "audit"]
  /\ UNCHANGED <<tickets, approvals, trail>>

-----------------------------------------------------------------------------
(* PATCH /tickets/:id and POST /tickets/:id/macros/:macroId/apply          *)

\* findOne: every handler below first reads the ticket, outside a transaction.
ReadTicket(w) ==
  /\ req[w] = Idle
  /\ \E t \in Tickets, op \in Handlers \cap {"update", "macro", "approve", "remove"},
        ask \in Asked \cup {Nil}, a \in FreshApprovals \cup {Nil} :
       /\ Live(t)
       /\ op \notin {"update", "macro"} => ask = Nil
       /\ (op = "approve") = (a # Nil)
       /\ req' = [req EXCEPT ![w] = [Idle EXCEPT
            !.op = op, !.pc = "read", !.tk = t, !.ap = a, !.ask = ask,
            !.seen = tickets[t].status]]
  /\ UNCHANGED <<tickets, approvals, trail, auditLog>>

\* Fault: the closing date is forgotten.
StampedWithoutClosing(row, ask, next) ==
  [row EXCEPT !.status = IF ask = Nil THEN @ ELSE ask,
              !.resolvedAt = @ \/ next = "RESOLVED"]

\* The ticket row after an UPDATE that sets the status asked for, if any, and
\* stamps the dates that the status "next" calls for.
Stamped(row, ask, next) ==
  [row EXCEPT !.status = IF ask = Nil THEN @ ELSE ask,
              !.resolvedAt = @ \/ next = "RESOLVED",
              !.closedAt = @ \/ next = "CLOSED"]

\* Fault: the two columns are swapped.
EntryBackwards(seen, ask) ==
  IF ask \in {Nil, seen} THEN NoHistory ELSE [from |-> ask, to |-> seen]

\* The history row of a change of status: none when the status asked for is
\* the one the handler read, whatever the row holds by now.
EntryFor(seen, ask) ==
  IF ask \in {Nil, seen} THEN NoHistory ELSE [from |-> seen, to |-> ask]

UpdateTicket(w) ==
  LET r == req[w]
      next == IF r.ask = Nil THEN r.seen ELSE r.ask
  IN  /\ At(w, "update", "read")
      /\ Live(r.tk) /\ CanLock(w, r.tk, "update")
      /\ req' = [req EXCEPT ![w] = [r EXCEPT
           !.pc = "workflow", !.lock = "update",
           !.row = Stamped(tickets[r.tk], r.ask, next),
           !.entry = EntryFor(r.seen, r.ask)]]
      /\ UNCHANGED <<tickets, approvals, trail, auditLog>>

AuditUpdate(w) ==
  LET r == req[w]
  IN  /\ At(w, "update", "audit")
      /\ Record({Audit("TICKET_UPDATED", r.tk, IF r.ask = Nil THEN r.seen ELSE r.ask)})
      /\ req' = [req EXCEPT ![w].pc = "commit"]
      /\ UNCHANGED <<tickets, approvals, trail>>

\* A macro stamps by the status it sets, not by the status it leaves.
ApplyMacro(w) ==
  LET r == req[w]
  IN  /\ At(w, "macro", "read")
      /\ Live(r.tk) /\ CanLock(w, r.tk, "update")
      /\ req' = [req EXCEPT ![w] = [r EXCEPT
           !.pc = "commit", !.lock = "update",
           !.row = Stamped(tickets[r.tk], r.ask, r.ask),
           !.entry = EntryFor(r.seen, r.ask)]]
      /\ UNCHANGED <<tickets, approvals, trail, auditLog>>

-----------------------------------------------------------------------------
(* POST /tickets/:id/approvals                                             *)

\* The foreign key of the new row takes a share lock on the ticket.
InsertApproval(w) ==
  LET r == req[w]
  IN  /\ At(w, "approve", "read")
      /\ Live(r.tk) /\ CanLock(w, r.tk, "share")
      /\ \E u \in Staff \cup {Nil} :
           req' = [req EXCEPT ![w] = [r EXCEPT
             !.pc = "reopen", !.lock = "share",
             !.approval = [life |-> "live", ticket |-> r.tk,
                           status |-> "PENDING", approver |-> u]]]
      /\ UNCHANGED <<tickets, approvals, trail, auditLog>>

\* Whatever its status was, the ticket becomes PENDING; no history row.
SetPending(w) ==
  LET r == req[w]
  IN  /\ At(w, "approve", "reopen")
      /\ CanLock(w, r.tk, "update")
      /\ req' = [req EXCEPT ![w] = [r EXCEPT
           !.pc = "commit", !.lock = "update",
           !.row = [tickets[r.tk] EXCEPT !.status = "PENDING"]]]
      /\ UNCHANGED <<tickets, approvals, trail, auditLog>>

-----------------------------------------------------------------------------
(* PATCH /tickets/:id/approvals/:approvalId                                *)

\* Outside the transaction: the approval must belong to the ticket, and only
\* an administrator may decide in place of the approver it is addressed to.
\* Nothing asks that it still be PENDING.
ReadApproval(w) ==
  /\ "decide" \in Handlers
  /\ req[w] = Idle
  /\ \E a \in Approvals, decision \in Decision, u \in Staff :
       /\ LiveApproval(a)
       /\ u \in Admins \/ approvals[a].approver \in {u, Nil}
       /\ req' = [req EXCEPT ![w] = [Idle EXCEPT
            !.op = "decide", !.pc = "read", !.ap = a,
            !.tk = approvals[a].ticket,
            !.approval = [approvals[a] EXCEPT
               !.status = decision,
               !.approver = IF @ = Nil THEN u ELSE @]]]
  /\ UNCHANGED <<tickets, approvals, trail, auditLog>>

UpdateApproval(w) ==
  LET r == req[w]
  IN  /\ At(w, "decide", "read")
      /\ LiveApproval(r.ap)
      /\ \A v \in Workers \ {w} : ~HoldsApproval(v, r.ap)
      /\ req' = [req EXCEPT ![w].pc = "count"]
      /\ UNCHANGED <<tickets, approvals, trail, auditLog>>

\* The count sees this transaction's own decision and what others committed.
CountPending(w) ==
  LET r == req[w]
  IN  /\ At(w, "decide", "count")
      /\ req' = [req EXCEPT ![w] = [r EXCEPT
           !.pc = "look", !.quiet = (PendingOf(r.tk) \ {r.ap} = {})]]
      /\ UNCHANGED <<tickets, approvals, trail, auditLog>>

\* Fault: the decision is recorded before the ticket is locked for it.
LookAndAudit(w) ==
  LET r == req[w]
  IN  /\ At(w, "decide", "look")
      /\ Live(r.tk)
      /\ Record({Audit("TICKET_APPROVAL_DECIDED", r.ap, r.approval.status)})
      /\ req' = [req EXCEPT ![w] = [r EXCEPT
           !.pc = "apply", !.seen = tickets[r.tk].status]]
      /\ UNCHANGED <<tickets, approvals, trail>>

LookAtTicket(w) ==
  LET r == req[w]
  IN  /\ At(w, "decide", "look")
      /\ Live(r.tk)
      /\ req' = [req EXCEPT ![w] = [r EXCEPT
           !.pc = "apply", !.seen = tickets[r.tk].status]]
      /\ UNCHANGED <<tickets, approvals, trail, auditLog>>

\* Faults: one approval is enough; only a ticket that waits can be rejected;
\* the decision is written in the place of the status.
NextStatusEager(decision, quiet, seen) ==
  CASE decision = "REJECTED" /\ seen # "CANCELLED" -> "CANCELLED"
    [] decision = "APPROVED" /\ seen = "PENDING" -> "OPEN"
    [] OTHER -> Nil
NextStatusTimid(decision, quiet, seen) ==
  CASE decision = "REJECTED" /\ seen = "PENDING" -> "CANCELLED"
    [] decision = "APPROVED" /\ quiet /\ seen = "PENDING" -> "OPEN"
    [] OTHER -> Nil
NextStatusRaw(decision, quiet, seen) ==
  IF decision = "APPROVED" /\ ~quiet THEN Nil ELSE decision

\* The status the decision calls for; Nil when it leaves the ticket alone.
NextStatus(decision, quiet, seen) ==
  CASE decision = "REJECTED" /\ seen # "CANCELLED" -> "CANCELLED"
    [] decision = "APPROVED" /\ quiet /\ seen = "PENDING" -> "OPEN"
    [] OTHER -> Nil

\* Either the status is written over the row as it is now, or only the
\* activity row is inserted, whose foreign key locks the ticket for share.
ApplyDecision(w) ==
  LET r == req[w]
      next == NextStatus(r.approval.status, r.quiet, r.seen)
      lock == IF next = Nil THEN "share" ELSE "update"
  IN  /\ At(w, "decide", "apply")
      /\ Live(r.tk) /\ CanLock(w, r.tk, lock)
      /\ req' = [req EXCEPT ![w] = [r EXCEPT
           !.pc = "audit", !.lock = lock,
           !.row = IF next = Nil THEN NoTicket
                   ELSE [tickets[r.tk] EXCEPT !.status = next,
                           !.closedAt = (next = "CANCELLED")],
           !.entry = IF next = Nil THEN NoHistory
                     ELSE [from |-> r.seen, to |-> next]]]
      /\ UNCHANGED <<tickets, approvals, trail, auditLog>>

\* Fault: only the first decision of an approval is recorded.
AuditFirstDecision(w) ==
  LET r == req[w]
  IN  /\ At(w, "decide", "audit")
      /\ Record(IF approvals[r.ap].status # "PENDING" THEN {}
                ELSE {Audit("TICKET_APPROVAL_DECIDED", r.ap, r.approval.status)})
      /\ req' = [req EXCEPT ![w].pc = "notify"]
      /\ UNCHANGED <<tickets, approvals, trail>>

AuditDecision(w) ==
  LET r == req[w]
  IN  /\ At(w, "decide", "audit")
      /\ Record({Audit("TICKET_APPROVAL_DECIDED", r.ap, r.approval.status)})
      /\ req' = [req EXCEPT ![w].pc = "notify"]
      /\ UNCHANGED <<tickets, approvals, trail>>

\* The requester and the assignee are told, those of them that are active.
NotifyDecision(w) ==
  LET r == req[w]
  IN  /\ At(w, "decide", "notify")
      /\ \E sent \in SUBSET {Audit("NOTIFICATION_CREATED", r.ap, r.approval.status)} :
           Record(sent)
      /\ req' = [req EXCEPT ![w].pc = "commit"]
      /\ UNCHANGED <<tickets, approvals, trail>>

-----------------------------------------------------------------------------
(* DELETE /tickets/:id. One autocommitted statement: it locks the ticket   *)
(* row, then the cascade deletes the children, waiting for their locks.    *)
\* Fault: the row is looked up and not locked.
LookForDelete(w) ==
  /\ At(w, "remove", "read")
  /\ Live(req[w].tk)
  /\ req' = [req EXCEPT ![w].pc = "cascade"]
  /\ UNCHANGED <<tickets, approvals, trail, auditLog>>

LockForDelete(w) ==
  LET r == req[w]
  IN  /\ At(w, "remove", "read")
      /\ Live(r.tk) /\ CanLock(w, r.tk, "delete")
      /\ req' = [req EXCEPT ![w] = [r EXCEPT !.pc = "cascade", !.lock = "delete"]]
      /\ UNCHANGED <<tickets, approvals, trail, auditLog>>

\* Faults: a foreign key that does not cascade; a cascade that does not wait
\* for the decisions under way.
DeleteAlone(w) ==
  /\ At(w, "remove", "cascade")
  /\ tickets' = [tickets EXCEPT ![req[w].tk] = [NoTicket EXCEPT !.life = "deleted"]]
  /\ trail' = [trail EXCEPT ![req[w].tk] = NoHistory]
  /\ req' = [req EXCEPT ![w].pc = "audit", ![w].lock = "none"]
  /\ UNCHANGED <<approvals, auditLog>>
DeleteAtOnce(w) ==
  LET r == req[w]
  IN  /\ At(w, "remove", "cascade")
      /\ tickets' = [tickets EXCEPT ![r.tk] = [NoTicket EXCEPT !.life = "deleted"]]
      /\ approvals' = [a \in Approvals |->
           IF a \in ApprovalsOf(r.tk) THEN [NoApproval EXCEPT !.life = "deleted"]
           ELSE approvals[a]]
      /\ trail' = [trail EXCEPT ![r.tk] = NoHistory]
      /\ req' = [req EXCEPT ![w].pc = "audit", ![w].lock = "none"]
      /\ UNCHANGED auditLog

DeleteCascade(w) ==
  LET r == req[w]
      children == ApprovalsOf(r.tk)
  IN  /\ At(w, "remove", "cascade")
      /\ \A v \in Workers, a \in children : ~HoldsApproval(v, a)
      /\ tickets' = [tickets EXCEPT ![r.tk] = [NoTicket EXCEPT !.life = "deleted"]]
      /\ approvals' = [a \in Approvals |->
           IF a \in children THEN [NoApproval EXCEPT !.life = "deleted"]
           ELSE approvals[a]]
      /\ trail' = [trail EXCEPT ![r.tk] = NoHistory]
      /\ req' = [req EXCEPT ![w] = [r EXCEPT !.pc = "audit", !.lock = "none"]]
      /\ UNCHANGED auditLog

\* Fault: only tickets that are still open are worth a record.
AuditDeleteOpen(w) ==
  /\ At(w, "remove", "audit")
  /\ Record(IF req[w].seen # "OPEN" THEN {}
            ELSE {Audit("TICKET_DELETED", req[w].tk, req[w].seen)})
  /\ Finish(w)
  /\ UNCHANGED <<tickets, approvals, trail>>

AuditDelete(w) ==
  /\ At(w, "remove", "audit")
  /\ Record({Audit("TICKET_DELETED", req[w].tk, req[w].seen)})
  /\ Finish(w)
  /\ UNCHANGED <<tickets, approvals, trail>>

-----------------------------------------------------------------------------
(* How a transaction ends                                                  *)

Commit(w) ==
  LET r == req[w]
  IN  /\ r.pc = "commit"
      /\ tickets' = IF r.row.life = "live"
                    THEN [tickets EXCEPT ![r.tk] = r.row] ELSE tickets
      /\ approvals' = IF r.approval.life = "live"
                      THEN [approvals EXCEPT ![r.ap] = r.approval] ELSE approvals
      /\ trail' = IF r.entry # NoHistory
                  THEN [trail EXCEPT ![r.tk] = r.entry] ELSE trail
      /\ Finish(w)
      /\ UNCHANGED auditLog

\* Fault: an approval that is gone is waited for.
RowGoneTicket(w) ==
  /\ req[w].pc = "read" /\ req[w].op # "decide"
  /\ ~Live(req[w].tk)
  /\ Finish(w)
  /\ UNCHANGED <<tickets, approvals, trail, auditLog>>

\* The statement finds its row gone (P2025, a foreign key error, or the
\* handler's own NotFoundException): the handler throws.
RowGone(w) ==
  LET r == req[w]
  IN  /\ r.pc = "read"
      /\ IF r.op = "decide" THEN ~LiveApproval(r.ap) ELSE ~Live(r.tk)
      /\ Finish(w)
      /\ UNCHANGED <<tickets, approvals, trail, auditLog>>

\* A decision and a deletion of the same ticket wait for each other: it holds
\* the approval and wants the ticket, the deletion the other way round.
\* PostgreSQL aborts one of the two.
Entangled(d, x) ==
  /\ At(d, "decide", "apply") /\ At(x, "remove", "cascade")
  /\ req[d].tk = req[x].tk

DeadlockVictim(w) ==
  /\ \E v \in Workers : Entangled(w, v) \/ Entangled(v, w)
  /\ Finish(w)
  /\ UNCHANGED <<tickets, approvals, trail, auditLog>>

\* The request dies: the transaction times out, a connection is lost, a
\* statement fails or the process stops. Its transaction is rolled back.
Die(w) ==
  /\ Crashes
  /\ req[w] # Idle
  /\ Finish(w)
  /\ UNCHANGED <<tickets, approvals, trail, auditLog>>

-----------------------------------------------------------------------------
Proceed(w) ==
  \/ ApplyWorkflowRules(w)
  \/ UpdateTicket(w) \/ AuditUpdate(w)
  \/ ApplyMacro(w)
  \/ InsertApproval(w) \/ SetPending(w)
  \/ UpdateApproval(w) \/ CountPending(w) \/ LookAtTicket(w)
  \/ ApplyDecision(w) \/ AuditDecision(w) \/ NotifyDecision(w)
  \/ LockForDelete(w) \/ DeleteCascade(w) \/ AuditDelete(w)
  \/ Commit(w) \/ RowGone(w) \/ DeadlockVictim(w)

Arrive(w) == CreateInsert(w) \/ ReadTicket(w) \/ ReadApproval(w)

Next == \E w \in Workers : Arrive(w) \/ Proceed(w) \/ Die(w)

Spec == Init /\ [][Next]_vars

\* The scheduling a client can count on: a handler's next statement is run
\* eventually, and a lock request is served even if the lock keeps changing
\* hands, because PostgreSQL queues the waiters. Clients owe nothing, and no
\* request has to die.
FairSpec == Spec /\ \A w \in Workers : SF_vars(Proceed(w))

-----------------------------------------------------------------------------
(* Properties that hold however the requests interleave and fail           *)

\* Every variable keeps to the row types above, in and out of transactions.
TypeOK ==
  /\ tickets \in [Tickets -> TicketRow]
  /\ approvals \in [Approvals -> ApprovalRow]
  /\ trail \in [Tickets -> HistoryRow]
  /\ auditLog \subseteq AuditRow
  /\ req \in [Workers -> Request]

\* A ticket that is RESOLVED carries a resolution date and one that is CLOSED a
\* closing date: the SLA engine stops its clock on them. PATCH and macros set
\* them, a decision clears closedAt, and each works from what it read before.
Stamps(row) ==
  /\ row.status = "RESOLVED" => row.resolvedAt
  /\ row.status = "CLOSED" => row.closedAt
StampedStatus == \A t \in Tickets : Live(t) => Stamps(tickets[t])

\* No decision is committed before its audit record exists: the record is
\* written from inside the transaction, so no crash can separate the two in
\* that direction, whoever else decides the same approval.
DecisionsAudited ==
  \A a \in Approvals : LiveApproval(a) /\ approvals[a].status \in Decision =>
    Audit("TICKET_APPROVAL_DECIDED", a, approvals[a].status) \in auditLog

\* An approval never outlives its ticket, although one may be inserted or
\* decided while the ticket is being deleted.
NoOrphanApproval ==
  \A a \in Approvals : LiveApproval(a) =>
    approvals[a].ticket \in Tickets /\ Live(approvals[a].ticket)

\* A decision that has updated its approval finds the ticket: the cascade of a
\* deletion cannot pass the approval's lock, so the handler's own "Ticket no
\* encontrado" is unreachable.
DecisionFindsTicket ==
  \A w \in Workers, a \in Approvals :
    HoldsApproval(w, a) => LiveApproval(a) /\ Live(req[w].tk)

\* A deleted ticket stays deleted and a ticket in the table only leaves it by
\* deletion: no transaction that read the row before it went writes it back.
NoResurrection ==
  [][\A t \in Tickets :
       /\ tickets[t].life = "deleted" => tickets'[t] = tickets[t]
       /\ tickets[t].life = "live" => tickets'[t].life \in {"live", "deleted"}]_vars

-----------------------------------------------------------------------------
(* Properties that hold as long as no request dies                         *)

\* The audit log speaks of a decision, and the bell of one, only when the
\* approval has been decided or its transaction is about to commit.
OfDecisions == {"TICKET_APPROVAL_DECIDED", "NOTIFICATION_CREATED"}
NoPhantomDecision ==
  \A e \in auditLog : e.action \in OfDecisions =>
    \/ approvals[e.on].status \in Decision
    \/ approvals[e.on].life = "deleted"
    \/ \E w \in Workers : HoldsApproval(w, e.on) /\ req[w].approval.status = e.value

\* A deletion is in the audit log once its request is over.
DeletionsAudited ==
  \A t \in Tickets : tickets[t].life = "deleted" =>
    \/ \E e \in auditLog : e.action = "TICKET_DELETED" /\ e.on = t
    \/ \E w \in Workers : At(w, "remove", "audit") /\ req[w].tk = t

\* The audit log and the tables agree on decisions and deletions once their
\* requests are over, and no record speaks of what is not about to be so.
LogIsTrue == NoPhantomDecision /\ DeletionsAudited

-----------------------------------------------------------------------------
(* Properties of requests served one at a time. Two requests at once break *)
(* each of them: READ COMMITTED lets the reads they rely on go stale.      *)

\* A history row starts from the status that its change replaced.
EntryReplacesStatus ==
  [][\A t \in Tickets : trail'[t] # trail[t] /\ Live(t)' =>
       trail'[t].from = tickets[t].status]_vars

\* Except for the change to PENDING that a new approval makes, a change of
\* status is the latest row of the ticket's history.
ChangesRecorded ==
  [][\A t \in Tickets : Live(t)' /\ tickets'[t].status \notin {tickets[t].status, "PENDING"} =>
       trail'[t].to = tickets'[t].status]_vars

\* A rejected approval leaves the ticket CANCELLED and closed, whatever the
\* other approvals say.
RejectionCancels ==
  [][\A a \in Approvals :
       LiveApproval(a)' /\ approvals'[a].status = "REJECTED" /\ approvals'[a] # approvals[a] =>
         tickets'[approvals'[a].ticket].status = "CANCELLED"]_vars

\* When an approval is granted, the ticket stays PENDING exactly as long as
\* another one is pending: it neither opens early nor stays behind.
GateReleases ==
  [][\A a \in Approvals :
       /\ LiveApproval(a) /\ LiveApproval(a)'
       /\ approvals'[a].status = "APPROVED" /\ approvals[a].status # "APPROVED"
       =>
       LET t == approvals[a].ticket IN
       tickets[t].status = "PENDING" =>
         tickets'[t].status = IF PendingOf(t)' = {} THEN "OPEN" ELSE "PENDING"]_vars

\* The history of a ticket follows its status, the gap of a new approval excepted.
HistoryFollowsStatus == EntryReplacesStatus /\ ChangesRecorded

\* The approvals of a ticket decide when it leaves PENDING, and for what.
ApprovalsGate == RejectionCancels /\ GateReleases

-----------------------------------------------------------------------------
(* What the code says of the program, and it does not do                   *)

\* The history row of a ticket opened by a decision says "Aprobaciones
\* completadas": no approval of the ticket is then pending.
OpenedMeansCompleted ==
  [][\A w \in Workers, t \in Tickets :
       At(w, "decide", "commit") /\ req[w].tk = t /\ req'[w] = Idle
         /\ Live(t)' /\ tickets'[t].status = "OPEN" /\ trail'[t] # trail[t]
       => PendingOf(t)' = {}]_vars

-----------------------------------------------------------------------------
\* Every request ends: locks are released, and a deletion and a decision that
\* wait for each other do not wait for ever.
EveryRequestEnds == \A w \in Workers : req[w] # Idle ~> req[w] = Idle
=============================================================================
