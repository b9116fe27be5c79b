--------------------------- MODULE AtomicTickets ---------------------------
(***************************************************************************)
(* What the ticket service promises when nobody looks inside a request:    *)
(* each request that changes tickets and approvals is one step on the      *)
(* current rows. Tickets, with its reads, locks and commits, implements    *)
(* this specification as long as it serves one request at a time.          *)
(***************************************************************************)
CONSTANTS Tickets, Approvals, Staff, Admins, Asked, Nil

VARIABLES tickets, approvals

vars == <<tickets, approvals>>

Exists(t) == tickets[t].life = "live"
Belongs(a, t) == approvals[a].life = "live" /\ approvals[a].ticket = t
Waiting(t) == {a \in Approvals : Belongs(a, t) /\ approvals[a].status = "PENDING"}

Unborn == [life |-> "unborn", status |-> Nil, resolvedAt |-> FALSE, closedAt |-> FALSE]
NoApproval == [life |-> "unborn", ticket |-> Nil, status |-> Nil, approver |-> Nil]

Init ==
  /\ tickets = [t \in Tickets |-> Unborn]
  /\ approvals = [a \in Approvals |-> NoApproval]

\* A request for approval, addressed to u or to nobody in particular.
Request(a, t, u) ==
  /\ approvals[a].life = "unborn"
  /\ approvals' = [approvals EXCEPT ![a] =
       [life |-> "live", ticket |-> t, status |-> "PENDING", approver |-> u]]

Open(t) ==
  /\ tickets[t].life = "unborn"
  /\ tickets' = [tickets EXCEPT ![t].life = "live", ![t].status = "OPEN"]
  /\ UNCHANGED approvals

OpenForApproval(t, a, u) ==
  /\ tickets[t].life = "unborn"
  /\ tickets' = [tickets EXCEPT ![t].life = "live", ![t].status = "PENDING"]
  /\ Request(a, t, u)

\* The status is set to s and the matching date is stamped. An edit that
\* leaves the status alone stamps the date of the status it finds.
SetStatus(t, s) ==
  /\ Exists(t)
  /\ tickets' = [tickets EXCEPT
       ![t].status = s,
       ![t].resolvedAt = @ \/ s = "RESOLVED",
       ![t].closedAt = @ \/ s = "CLOSED"]
  /\ UNCHANGED approvals

AskApproval(t, a, u) ==
  /\ Exists(t)
  /\ tickets' = [tickets EXCEPT ![t].status = "PENDING"]
  /\ Request(a, t, u)

Decided(a, decision, u) ==
  approvals' = [approvals EXCEPT
    ![a].status = decision, ![a].approver = IF @ = Nil THEN u ELSE @]

MayDecide(a, u) == u \in Admins \/ approvals[a].approver \in {u, Nil}

\* One rejection cancels the ticket, unless it is cancelled already.
Reject(t, a, u) ==
  /\ Belongs(a, t) /\ MayDecide(a, u)
  /\ Decided(a, "REJECTED", u)
  /\ IF tickets[t].status = "CANCELLED" THEN UNCHANGED tickets
     ELSE tickets' = [tickets EXCEPT ![t].status = "CANCELLED", ![t].closedAt = TRUE]

\* The last approval opens a ticket that waits for it.
Approve(t, a, u) ==
  /\ Belongs(a, t) /\ MayDecide(a, u)
  /\ Decided(a, "APPROVED", u)
  /\ IF tickets[t].status = "PENDING" /\ Waiting(t) \subseteq {a}
     THEN tickets' = [tickets EXCEPT ![t].status = "OPEN", ![t].closedAt = FALSE]
     ELSE UNCHANGED tickets

Delete(t) ==
  /\ Exists(t)
  /\ tickets' = [tickets EXCEPT ![t] = [Unborn EXCEPT !.life = "deleted"]]
  /\ approvals' = [a \in Approvals |->
       IF Belongs(a, t) THEN [NoApproval EXCEPT !.life = "deleted"] ELSE approvals[a]]

Next ==
  \E t \in Tickets :
    \/ Open(t) \/ Delete(t)
    \/ \E s \in Asked \cup {tickets[t].status} : SetStatus(t, s)
    \/ \E a \in Approvals, u \in Admins \cup {Nil} : OpenForApproval(t, a, u)
    \/ \E a \in Approvals, u \in Staff \cup {Nil} : AskApproval(t, a, u)
    \/ \E a \in Approvals, u \in Staff : Reject(t, a, u) \/ Approve(t, a, u)

Spec == Init /\ [][Next]_vars
=============================================================================
