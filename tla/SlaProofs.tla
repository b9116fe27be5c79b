----------------------------- MODULE SlaProofs -----------------------------
(***************************************************************************)
(* Proofs about Sla: its types, the cascade that keeps trackings and       *)
(* tickets together, and the truth of a reported breach, for every number  *)
(* of runs, requests and tickets, with crashes and without. For one engine *)
(* that no crash interrupts: what is told of a ticket is what was written. *)
(* For runs and requests one at a time: a pause is what its records say.   *)
(***************************************************************************)
EXTENDS Sla, TLAPS

\* What a request or a run holds at each point of its handler.
Shape(r) ==
  /\ r.op = Nil => r.pc = "idle"
  /\ r.op = "run" => r.pc \in {"assign", "tickets", "trackings", "loop", "notify", "log"}
  /\ r.op \in {"pause", "resume"} => r.pc \in {"write", "record"}
  /\ r.pc \in {"notify", "log", "write", "record"} => r.tk \in Tickets
  /\ r.pc \in {"notify", "log"} => r.from \in SlaStatus /\ r.to \in SlaStatus
  /\ r.op = "resume" /\ r.pc = "write" => r.seen[r.tk].pausedAt # Nil

TypeInv == TypeOK /\ \A w \in Workers : Shape(req[w])

\* Only a ticket in the table has a tracking row.
RowInv == \A t \in Tickets : ~Live(t) => tracking[t] = NoTracking

\* No date lies in the future.
ClockInv ==
  /\ \A t \in Tickets : /\ tickets[t].resolvedAt # Nil => tickets[t].resolvedAt =< now
                        /\ tickets[t].closedAt # Nil => tickets[t].closedAt =< now
  /\ \A w \in Workers : req[w].at =< now

\* A breach that a run has computed, or has read of a tracking, did happen,
\* however old its snapshot is.
Sound(r) ==
  r.op = "run" => \A t \in r.todo :
    /\ tickets[t].life # "unborn"
    /\ Live(t) => \A terms \in Terms :
         /\ Resolved(r.rows[t], r.at) = "BREACHED" => Missed(t, terms)
         /\ r.pc \in {"loop", "notify", "log"} /\ r.seen[t].status = "BREACHED"
              => Missed(t, terms)

BreachInv ==
  /\ \A t \in Tickets, terms \in Terms :
       tracking[t].status = "BREACHED" => Missed(t, terms)
  /\ \A w \in Workers : Sound(req[w])

\* The inductive invariant.
Inv == TypeInv /\ RowInv /\ ClockInv /\ BreachInv

\* All policies set the same deadlines.
SameTerms == \A c, d \in Terms : c.response = d.response /\ c.resolution = d.resolution

-----------------------------------------------------------------------------
(* What the operators of a run return.                                     *)

\* resolveSlaStatus returns one of the four statuses.
LEMMA ResolvedStatus ==
  ASSUME NEW row, NEW at
  PROVE  Resolved(row, at) \in SlaStatus
BY Zenon DEF Resolved, SlaStatus

\* A run writes a tracking row, whose status is its verdict.
LEMMA EvaluatedRow ==
  ASSUME NEW row, row.response \in Nat, row.resolution \in Nat,
         NEW seen \in TrackingRow, NEW at \in Time
  PROVE  /\ Evaluated(row, seen, at) \in TrackingRow
         /\ Evaluated(row, seen, at).status = Verdict(row, seen, at)
<1> DEFINE status == Verdict(row, seen, at)
           breachedAt == IF status # "BREACHED" THEN Nil
                         ELSE IF seen.breachedAt # Nil THEN seen.breachedAt ELSE at
<1>1. status \in SlaStatus
  BY ResolvedStatus DEF Verdict, TrackingRow
<1>2. breachedAt \in Stamp
  BY DEF Stamp, TrackingRow
<1> HIDE DEF status, breachedAt
<1>3. Evaluated(row, seen, at) =
        [exists |-> TRUE, response |-> row.response, resolution |-> row.resolution,
         breachedAt |-> breachedAt, pausedAt |-> seen.pausedAt,
         paused |-> seen.paused, status |-> status]
  BY DEF Evaluated, status, breachedAt
<1> QED BY <1>1, <1>2, <1>3 DEF TrackingRow, status

\* An edit of a ticket leaves a ticket row of the same life and creation date.
LEMMA PatchedRow ==
  ASSUME NEW row \in TicketRow, NEW next \in TicketStatus, NEW p \in Policies \cup {Nil},
         now \in Stamp
  PROVE  /\ Patched(row, next, p) \in TicketRow
         /\ Patched(row, next, p).life = row.life
         /\ Patched(row, next, p).created = row.created
         /\ Patched(row, next, p).answered = row.answered
         /\ Patched(row, next, p).resolvedAt \in {row.resolvedAt, now}
         /\ Patched(row, next, p).closedAt \in {row.closedAt, now}
<1> DEFINE resolvedAt == IF next = "RESOLVED" THEN now ELSE row.resolvedAt
           closedAt == IF next = "CLOSED" THEN now ELSE row.closedAt
           edited == [row EXCEPT !.status = next, !.policy = p,
                                 !.resolvedAt = resolvedAt, !.closedAt = closedAt]
<1>1. resolvedAt \in Stamp /\ closedAt \in Stamp
  BY DEF TicketRow
<1>2. Patched(row, next, p) = edited
  BY DEF Patched
<1>3. resolvedAt \in {row.resolvedAt, now} /\ closedAt \in {row.closedAt, now}
  OBVIOUS
<1> HIDE DEF resolvedAt, closedAt
<1>4. /\ edited \in TicketRow /\ edited.life = row.life /\ edited.created = row.created
      /\ edited.answered = row.answered
      /\ edited.resolvedAt = resolvedAt /\ edited.closedAt = closedAt
  BY <1>1 DEF TicketRow
<1> QED BY <1>2, <1>3, <1>4

LEMMA AtLeastOneNat ==
  ASSUME NEW n \in Int
  PROVE  AtLeastOne(n) \in Nat
BY DEF AtLeastOne

\* The rows that stand for nothing have the types of rows.
LEMMA EmptyRows ==
  /\ NoTracking \in TrackingRow
  /\ NoTicket \in TicketRow
  /\ Idle \in Request /\ Shape(Idle) /\ Idle.op = Nil /\ Idle.at = 0
  /\ Idle.pc = "idle"
<1>1. 0 \in Time /\ Nil \in Stamp
  BY ConstantsOK DEF Time, Stamp
<1>2. NoTracking \in TrackingRow
  BY <1>1 DEF NoTracking, TrackingRow, SlaStatus
<1>3. NoTicket \in TicketRow
  BY <1>1 DEF NoTicket, TicketRow, TicketStatus
<1>4. Idle \in Request
  BY <1>1, <1>2 DEF Idle, Request, NoRow
<1>5. Nil \notin {"run", "pause", "resume"}
  BY ConstantsOK
<1> QED BY <1>2, <1>3, <1>4, <1>5 DEF Idle, Shape

\* Giving one worker a record that has its type and shape keeps all of them so.
LEMMA OneRequest ==
  ASSUME TypeInv, NEW w \in Workers, NEW r \in Request, Shape(r),
         req' = [req EXCEPT ![w] = r]
  PROVE  /\ req' \in [Workers -> Request]
         /\ \A v \in Workers : Shape(req'[v])
         /\ req'[w] = r
         /\ \A v \in Workers \ {w} : req'[v] = req[v]
BY DEF TypeInv, TypeOK

-----------------------------------------------------------------------------
(* Types                                                                   *)

\* What goes on around the engine writes typed rows.
LEMMA TypeAround ==
  ASSUME TypeInv, Around
  PROVE  TypeInv'
<1> USE DEF TypeInv
<1>1. TypeOK /\ now \in Time /\ Time \subseteq Nat /\ Nil \in Stamp /\ Time \subseteq Stamp
  BY ConstantsOK DEF TypeOK, Time, Stamp
<1>2. Saved \subseteq Policies
  BY DEF Saved
<1>3. CASE Tick
  BY <1>1, <1>3, ConstantsOK DEF Tick, TypeOK, Time, Shape
<1>4. ASSUME NEW p \in Policies, SavePolicy(p)
      PROVE  TypeInv'
  BY <1>4 DEF SavePolicy, TypeOK, Shape
<1>5. ASSUME NEW t \in Tickets, NEW row \in TicketRow,
             tickets' = [tickets EXCEPT ![t] = row],
             tracking' \in [Tickets -> TrackingRow],
             UNCHANGED <<now, policies, told, log, ledger, req>>
      PROVE  TypeInv'
  BY <1>5 DEF TypeOK, Shape
<1>6. ASSUME NEW t \in Tickets, Open(t)
      PROVE  TypeInv'
  <2>1. PICK p \in Saved \cup {Nil} :
          tickets' = [tickets EXCEPT ![t] =
            [NoTicket EXCEPT !.life = "live", !.policy = p, !.created = now]]
    BY <1>6 DEF Open
  <2>2. [NoTicket EXCEPT !.life = "live", !.policy = p, !.created = now] \in TicketRow
    BY <1>1, <1>2, EmptyRows DEF TicketRow
  <2> QED BY <1>5, <1>6, <2>1, <2>2 DEF Open, TypeOK
<1>7. ASSUME NEW t \in Tickets, Answer(t)
      PROVE  TypeInv'
  <2>1. tickets[t] \in TicketRow
    BY <1>1 DEF TypeOK
  <2>2. [tickets[t] EXCEPT !.answered = now] \in TicketRow
    BY <1>1, <2>1 DEF TicketRow
  <2>3. tickets' = [tickets EXCEPT ![t] = [tickets[t] EXCEPT !.answered = now]]
    BY <1>7 DEF Answer
  <2> QED BY <1>5, <1>7, <2>2, <2>3 DEF Answer, TypeOK
<1>8. ASSUME NEW t \in Tickets, Patch(t)
      PROVE  TypeInv'
  <2>1. PICK next \in Asked \cup {tickets[t].status},
             p \in {tickets[t].policy} \cup (IF "policy" \in Handlers THEN Saved \cup {Nil} ELSE {}) :
          tickets' = [tickets EXCEPT ![t] = Patched(tickets[t], next, p)]
    BY <1>8 DEF Patch
  <2>2. tickets[t] \in TicketRow
    BY <1>1 DEF TypeOK
  <2>3. next \in TicketStatus /\ p \in Policies \cup {Nil}
    BY <1>2, <2>2, ConstantsOK DEF TicketRow
  <2>4. Patched(tickets[t], next, p) \in TicketRow
    BY <1>1, <2>2, <2>3, PatchedRow
  <2> QED BY <1>5, <1>8, <2>1, <2>4 DEF Patch, TypeOK
<1>9. ASSUME NEW t \in Tickets, Decide(t)
      PROVE  TypeInv'
  <2>1. tickets[t] \in TicketRow
    BY <1>1 DEF TypeOK
  <2>2. /\ [tickets[t] EXCEPT !.status = "CANCELLED", !.closedAt = now] \in TicketRow
        /\ [tickets[t] EXCEPT !.closedAt = Nil] \in TicketRow
    BY <1>1, <2>1 DEF TicketRow, TicketStatus
  <2>3. \/ tickets' = [tickets EXCEPT ![t] =
             [tickets[t] EXCEPT !.status = "CANCELLED", !.closedAt = now]]
        \/ tickets' = [tickets EXCEPT ![t] = [tickets[t] EXCEPT !.closedAt = Nil]]
    BY <1>1, <1>9 DEF Decide, TypeOK
  <2> QED BY <1>5, <1>9, <2>2, <2>3 DEF Decide, TypeOK
<1>10. ASSUME NEW t \in Tickets, Delete(t)
       PROVE  TypeInv'
  <2>1. [NoTicket EXCEPT !.life = "deleted"] \in TicketRow
    BY EmptyRows DEF TicketRow
  <2>2. tracking' \in [Tickets -> TrackingRow]
    BY <1>10, EmptyRows DEF Delete, TypeOK
  <2> QED BY <1>5, <1>10, <2>1, <2>2 DEF Delete
<1> QED BY <1>3, <1>4, <1>6, <1>7, <1>8, <1>9, <1>10 DEF Around

\* So do the steps of runs and of pauses and resumptions.
LEMMA TypeRequest ==
  ASSUME TypeInv, NEW w \in Workers,
         StartRun(w) \/ ReadTracking(w) \/ Proceed(w) \/ Die(w)
  PROVE  TypeInv'
<1> DEFINE r == req[w]
<1>1. /\ TypeOK /\ now \in Time /\ Time \subseteq Nat /\ Nil \in Stamp
      /\ Time \subseteq Stamp /\ r \in Request /\ Shape(r)
      /\ Nil \notin {"run", "pause", "resume"}
  BY ConstantsOK DEF TypeInv, TypeOK, Time, Stamp
<1> HIDE DEF r
<1>2. ASSUME NEW s \in Request, Shape(s), req' = [req EXCEPT ![w] = s],
             UNCHANGED <<now, policies>>,
             tickets' \in [Tickets -> TicketRow],
             tracking' \in [Tickets -> TrackingRow],
             told' \in [Tickets -> SlaStatus \cup {Nil}],
             log' \in [Tickets -> [from: SlaStatus \cup {Nil}, to: SlaStatus \cup {Nil}]],
             ledger' \in [Tickets -> {Nil, "SLA_PAUSED", "SLA_RESUMED"}]
      PROVE  TypeInv'
  BY <1>2, OneRequest DEF TypeInv, TypeOK
<1>3. ASSUME Finish(w), UNCHANGED <<now, policies, tickets, tracking, told, log, ledger>>
      PROVE  TypeInv'
  BY <1>1, <1>2, <1>3, EmptyRows DEF Finish, TypeOK
<1>4. CASE StartRun(w)
  <2>1. PICK p \in Policies \cup {Nil} :
          req' = [req EXCEPT ![w] = [Idle EXCEPT
            !.op = "run", !.pc = "assign", !.at = now, !.policy = p]]
    BY <1>4 DEF StartRun
  <2> DEFINE s == [Idle EXCEPT !.op = "run", !.pc = "assign", !.at = now, !.policy = p]
  <2>2. s \in Request
    BY ZenonT(60), <1>1, EmptyRows DEF Request
  <2>3. s.op = "run" /\ s.pc = "assign"
    BY EmptyRows DEF Request
  <2> HIDE DEF s
  <2>4. Shape(s)
    BY <1>1, <2>3 DEF Shape
  <2> QED BY <1>1, <1>2, <1>4, <2>1, <2>2, <2>4 DEF StartRun, TypeOK, s
<1>5. CASE ReadTracking(w)
  <2>1. PICK op \in Handlers \cap {"pause", "resume"}, t \in Tickets :
          /\ (op = "pause") = (tracking[t].pausedAt = Nil)
          /\ req' = [req EXCEPT ![w] = [Idle EXCEPT
               !.op = op, !.pc = "write", !.at = now, !.tk = t,
               !.seen[t] = tracking[t]]]
    BY <1>5 DEF ReadTracking
  <2> DEFINE s == [Idle EXCEPT !.op = op, !.pc = "write", !.at = now, !.tk = t,
                               !.seen[t] = tracking[t]]
  <2>a. tracking[t] \in TrackingRow /\ Idle.seen \in [Tickets -> TrackingRow]
    BY <1>1, EmptyRows DEF Request, TypeOK
  <2>b. [Idle.seen EXCEPT ![t] = tracking[t]] \in [Tickets -> TrackingRow]
    BY <2>a
  <2>2. s \in Request
    BY ZenonT(60), <1>1, <2>a, <2>b, EmptyRows DEF Request
  <2>3. s.op = op /\ s.pc = "write" /\ s.tk = t /\ s.seen[t] = tracking[t]
    BY EmptyRows DEF Request
  <2>4. Shape(s)
    BY <1>1, <2>1, <2>3 DEF Shape
  <2> QED BY <1>1, <1>2, <1>5, <2>1, <2>2, <2>4 DEF ReadTracking, TypeOK
<1>6. CASE AssignDefault(w)
  <2> DEFINE s == [r EXCEPT !.pc = "tickets"]
  <2>1. s \in Request /\ Shape(s) /\ req' = [req EXCEPT ![w] = s]
    BY <1>1, <1>6 DEF AssignDefault, At, Request, Shape, r
  <2>2. \A t \in Tickets : [tickets[t] EXCEPT !.policy = r.policy] \in TicketRow
    <3>1. r.policy \in Policies \cup {Nil}
      BY <1>1 DEF Request
    <3>2. \A t \in Tickets : tickets[t] \in TicketRow
      BY <1>1 DEF TypeOK
    <3> QED BY <3>1, <3>2 DEF TicketRow
  <2>3. tickets' \in [Tickets -> TicketRow]
    BY <1>1, <1>6, <2>2 DEF AssignDefault, TypeOK, r
  <2> QED BY <1>1, <1>2, <1>6, <2>1, <2>3 DEF AssignDefault, TypeOK
<1>7. CASE ReadTickets(w)
  <2> DEFINE rows == [t \in Tickets |->
               IF t \notin Watched THEN NoRow ELSE
                 [response |-> tickets[t].created + policies[tickets[t].policy].response,
                  resolution |-> tickets[t].created + policies[tickets[t].policy].resolution,
                  answered |-> tickets[t].answered, done |-> Done(tickets[t])]]
             s == [r EXCEPT !.pc = "trackings", !.todo = Watched, !.rows = rows]
  <2>1. \A t \in Watched : /\ tickets[t] \in TicketRow
                           /\ policies[tickets[t].policy] \in Term
    BY <1>1, ConstantsOK DEF Watched, Active, Saved, TypeOK
  <2>2. \A t \in Tickets : Done(tickets[t]) \in Stamp
    BY <1>1 DEF Done, TypeOK, TicketRow
  <2>3. rows \in [Tickets -> [response: Nat, resolution: Nat, answered: Stamp, done: Stamp]]
    <3>1. NoRow \in [response: Nat, resolution: Nat, answered: Stamp, done: Stamp]
      BY <1>1 DEF NoRow
    <3>2. ASSUME NEW t \in Watched
          PROVE  /\ tickets[t].created + policies[tickets[t].policy].response \in Nat
                 /\ tickets[t].created + policies[tickets[t].policy].resolution \in Nat
                 /\ tickets[t].answered \in Stamp /\ t \in Tickets
      <4>1. t \in Tickets
        BY DEF Watched
      <4>2. tickets[t].created \in Nat /\ tickets[t].answered \in Stamp
        BY <1>1, <2>1 DEF TicketRow
      <4>3. /\ policies[tickets[t].policy].response \in Nat
            /\ policies[tickets[t].policy].resolution \in Nat
        BY <2>1 DEF Term
      <4> QED BY <4>1, <4>2, <4>3
    <3> QED BY <2>2, <3>1, <3>2
  <2>4. req' = [req EXCEPT ![w] = s]
    BY <1>7 DEF ReadTickets, r
  <2> HIDE DEF rows
  <2>5. s \in Request /\ Shape(s)
    BY <1>1, <1>7, <2>3 DEF ReadTickets, At, Request, Shape, Watched, r
  <2> QED BY <1>1, <1>2, <1>7, <2>4, <2>5 DEF ReadTickets, TypeOK
<1>8. CASE ReadTrackings(w)
  <2> DEFINE seen == [t \in Tickets |-> IF t \in r.todo THEN tracking[t] ELSE NoTracking]
             s == [r EXCEPT !.pc = "loop", !.seen = seen]
  <2>1. seen \in [Tickets -> TrackingRow]
    BY <1>1, EmptyRows DEF TypeOK
  <2>2. req' = [req EXCEPT ![w] = s]
    BY <1>8 DEF ReadTrackings, r
  <2> HIDE DEF seen
  <2>3. s \in Request /\ Shape(s)
    BY <1>1, <1>8, <2>1 DEF ReadTrackings, At, Request, Shape, r
  <2> QED BY <1>1, <1>2, <1>8, <2>2, <2>3 DEF ReadTrackings, TypeOK
<1>9. CASE Evaluate(w)
  <2>1. PICK t \in r.todo :
          /\ tracking' = [tracking EXCEPT ![t] = Evaluated(r.rows[t], r.seen[t], r.at)]
          /\ req' = [req EXCEPT ![w] =
               IF r.seen[t].exists /\ r.seen[t].status # Evaluated(r.rows[t], r.seen[t], r.at).status
               THEN [r EXCEPT !.todo = @ \ {t}, !.pc = "notify", !.tk = t,
                              !.from = r.seen[t].status,
                              !.to = Evaluated(r.rows[t], r.seen[t], r.at).status]
               ELSE [r EXCEPT !.todo = @ \ {t}]]
    BY <1>9 DEF Evaluate, r
  <2> DEFINE next == Evaluated(r.rows[t], r.seen[t], r.at)
             s1 == [r EXCEPT !.todo = @ \ {t}, !.pc = "notify", !.tk = t,
                             !.from = r.seen[t].status, !.to = next.status]
             s2 == [r EXCEPT !.todo = @ \ {t}]
  <2>2. /\ t \in Tickets /\ r.seen[t] \in TrackingRow /\ r.at \in Time
        /\ r.rows[t].response \in Nat /\ r.rows[t].resolution \in Nat
    BY <1>1, <2>1 DEF Request
  <2>3. next \in TrackingRow
    BY <2>2, EvaluatedRow
  <2>4. tracking' = [tracking EXCEPT ![t] = next]
        /\ (req' = [req EXCEPT ![w] = s1] \/ req' = [req EXCEPT ![w] = s2])
    BY <2>1
  <2> HIDE DEF next
  <2>5. s1 \in Request /\ s2 \in Request
    BY <1>1, <2>2, <2>3 DEF Request, TrackingRow
  <2>6. Shape(s1) /\ Shape(s2)
    BY <1>1, <1>9, <2>2, <2>3 DEF Evaluate, At, Request, Shape, TrackingRow, r
  <2>7. tracking' \in [Tickets -> TrackingRow]
    BY <1>1, <2>2, <2>3, <2>4 DEF TypeOK
  <2> HIDE DEF s1, s2
  <2>8. CASE req' = [req EXCEPT ![w] = s1]
    BY <1>1, <1>2, <1>9, <2>5, <2>6, <2>7, <2>8 DEF Evaluate, TypeOK
  <2>9. CASE req' = [req EXCEPT ![w] = s2]
    BY <1>1, <1>2, <1>9, <2>5, <2>6, <2>7, <2>9 DEF Evaluate, TypeOK
  <2> QED BY <2>4, <2>8, <2>9
<1>10. CASE RunFails(w)
  <2>1. CASE Finish(w)
    BY <1>3, <1>10, <2>1 DEF RunFails
  <2>2. CASE req' = [v \in Workers |-> Idle]
    BY <1>1, <1>10, <2>2, EmptyRows DEF RunFails, TypeInv, TypeOK
  <2> QED BY <1>10, <2>1, <2>2 DEF RunFails
<1>11. CASE Notify(w)
  <2> DEFINE s == [r EXCEPT !.pc = "log"]
  <2>1. s \in Request /\ Shape(s) /\ req' = [req EXCEPT ![w] = s]
    BY <1>1, <1>11 DEF Notify, At, Request, Shape, r
  <2>2. r.tk \in Tickets /\ r.to \in SlaStatus
    BY <1>1, <1>11 DEF Notify, At, Shape, r
  <2>3. told' \in [Tickets -> SlaStatus \cup {Nil}]
    BY <1>1, <1>11, <2>2 DEF Notify, TypeOK, r
  <2> QED BY <1>1, <1>2, <1>11, <2>1, <2>3 DEF Notify, TypeOK
<1>12. CASE LogChange(w)
  <2> DEFINE s == [r EXCEPT !.pc = "loop", !.tk = Nil, !.from = Nil, !.to = Nil]
  <2>1. s \in Request /\ Shape(s) /\ req' = [req EXCEPT ![w] = s]
    BY <1>1, <1>12 DEF LogChange, At, Request, Shape, r
  <2>2. r.from \in SlaStatus /\ r.to \in SlaStatus
    BY <1>1, <1>12 DEF LogChange, At, Shape, r
  <2>3. log' \in [Tickets -> [from: SlaStatus \cup {Nil}, to: SlaStatus \cup {Nil}]]
    BY <1>1, <1>12, <2>2 DEF LogChange, TypeOK, r
  <2> QED BY <1>1, <1>2, <1>12, <2>1, <2>3 DEF LogChange, TypeOK
<1>13. CASE EndRun(w)
  BY <1>3, <1>13 DEF EndRun
<1>14. CASE WritePause(w)
  <2> DEFINE s == [r EXCEPT !.pc = "record"]
  <2>1. s \in Request /\ Shape(s) /\ req' = [req EXCEPT ![w] = s]
    BY <1>1, <1>14 DEF WritePause, At, Request, Shape, r
  <2>2. r.tk \in Tickets /\ r.at \in Time
    BY <1>1, <1>14 DEF WritePause, At, Request, Shape, r
  <2>3. [tracking[r.tk] EXCEPT !.pausedAt = r.at] \in TrackingRow
    BY ZenonT(60), <1>1, <2>2 DEF TypeOK, TrackingRow
  <2>4. tracking' = [tracking EXCEPT ![r.tk] = [tracking[r.tk] EXCEPT !.pausedAt = r.at]]
    BY <1>14 DEF WritePause, r
  <2>5. tracking' \in [Tickets -> TrackingRow]
    BY <1>1, <2>3, <2>4 DEF TypeOK
  <2> QED BY <1>1, <1>2, <1>14, <2>1, <2>5 DEF WritePause, TypeOK
<1>15. CASE WriteResume(w)
  <2> DEFINE s == [r EXCEPT !.pc = "record"]
             seen == r.seen[r.tk]
             shift == AtLeastOne(r.at - seen.pausedAt)
             row == [tracking[r.tk] EXCEPT
               !.pausedAt = Nil, !.paused = seen.paused + shift,
               !.response = seen.response + shift,
               !.resolution = seen.resolution + shift]
  <2>1. s \in Request /\ Shape(s) /\ req' = [req EXCEPT ![w] = s]
    BY <1>1, <1>15 DEF WriteResume, At, Request, Shape, r
  <2>2. r.tk \in Tickets /\ r.at \in Time /\ r.seen[r.tk].pausedAt # Nil
    BY <1>1, <1>15 DEF WriteResume, At, Request, Shape, r
  <2>3. seen \in TrackingRow /\ seen.pausedAt \in Time
    BY <1>1, <2>2 DEF Request, TrackingRow, Stamp
  <2>4. tracking' = [tracking EXCEPT ![r.tk] = row]
    BY <1>15 DEF WriteResume, r
  <2>5. shift \in Nat
    <3>1. r.at - seen.pausedAt \in Int
      <4> HIDE DEF seen
      <4>1. r.at \in Nat /\ seen.pausedAt \in Nat
        BY <1>1, <2>2, <2>3
      <4> QED BY <4>1
    <3> QED BY <3>1, AtLeastOneNat
  <2>6. row \in TrackingRow
    <3> DEFINE paused == seen.paused + shift
               response == seen.response + shift
               resolution == seen.resolution + shift
    <3>1. paused \in Nat /\ response \in Nat /\ resolution \in Nat
      <4> HIDE DEF shift, seen
      <4> QED BY <2>3, <2>5 DEF TrackingRow
    <3> HIDE DEF paused, response, resolution
    <3>2. [tracking[r.tk] EXCEPT !.pausedAt = Nil, !.paused = paused,
             !.response = response, !.resolution = resolution] \in TrackingRow
      <4>1. tracking[r.tk] \in TrackingRow
        BY <1>1, <2>2 DEF TypeOK
      <4> QED BY <1>1, <3>1, <4>1 DEF TrackingRow
    <3> QED BY <3>2 DEF paused, response, resolution
  <2>7. tracking' \in [Tickets -> TrackingRow]
    BY <1>1, <2>4, <2>6 DEF TypeOK
  <2> QED BY <1>1, <1>2, <1>15, <2>1, <2>7 DEF WriteResume, TypeOK
<1>16. CASE RecordPause(w)
  <2>1. ledger' \in [Tickets -> {Nil, "SLA_PAUSED", "SLA_RESUMED"}]
    BY <1>1, <1>16 DEF RecordPause, TypeOK
  <2> QED BY <1>1, <1>2, <1>16, <2>1, EmptyRows DEF RecordPause, Finish, TypeOK
<1>17. CASE RowGone(w)
  BY <1>3, <1>17 DEF RowGone
<1>18. CASE Die(w)
  BY <1>3, <1>18 DEF Die
<1> QED BY <1>4, <1>5, <1>6, <1>7, <1>8, <1>9, <1>10, <1>11, <1>12, <1>13,
           <1>14, <1>15, <1>16, <1>17, <1>18 DEF Proceed

LEMMA TypeInit == Init => TypeInv
<1>1. Nil \in Stamp /\ 0 \in Time
  BY ConstantsOK DEF Stamp, Time
<1> QED BY <1>1, EmptyRows DEF Init, TypeInv, TypeOK, NoChange

LEMMA TypeStep == TypeInv /\ [Next]_vars => TypeInv'
<1>1. ASSUME TypeInv, UNCHANGED vars
      PROVE  TypeInv'
  BY <1>1 DEF TypeInv, TypeOK, Shape, vars
<1> QED BY <1>1, TypeAround, TypeRequest DEF Next

-----------------------------------------------------------------------------
(* What a step does to one ticket, one tracking and one request            *)

\* A ticket is opened, deleted or edited; its first answer comes once, and a
\* date it is stamped with is the present.
TicketEvolves(t) ==
  \/ tickets'[t] = tickets[t]
  \/ /\ tickets[t].life = "unborn" /\ tickets'[t].life = "live"
     /\ tickets'[t].resolvedAt = Nil /\ tickets'[t].closedAt = Nil
  \/ /\ tickets[t].life = "live" /\ tickets'[t].life = "deleted"
     /\ tickets'[t].resolvedAt = Nil /\ tickets'[t].closedAt = Nil
     /\ tracking'[t] = NoTracking
  \/ /\ tickets[t].life = "live" /\ tickets'[t].life = "live"
     /\ tickets'[t].created = tickets[t].created
     /\ tickets'[t].answered = tickets[t].answered
          \/ (tickets[t].answered = Nil /\ tickets'[t].answered = now)
     /\ tickets'[t].resolvedAt \in {tickets[t].resolvedAt, now}
     /\ tickets'[t].closedAt \in {tickets[t].closedAt, now, Nil}

\* Only an evaluation changes the status of a tracking, and only a tracking
\* whose ticket is in the table is written.
TrackingEvolves(t) ==
  \/ tracking'[t] = tracking[t]
  \/ tracking'[t] = NoTracking /\ tickets'[t].life # "live"
  \/ /\ tracking[t].exists /\ tickets'[t] = tickets[t]
     /\ tracking'[t].status = tracking[t].status
  \/ /\ Live(t) /\ tickets'[t] = tickets[t]
     /\ \E w \in Workers :
          /\ At(w, "run", "loop") /\ t \in req[w].todo
          /\ tracking'[t].status = Verdict(req[w].rows[t], req[w].seen[t], req[w].at)

RequestEvolves(w) ==
  \/ req'[w] = req[w]
  \/ req'[w].op # "run" /\ req'[w].at \in {0, now, req[w].at}
  \/ req'[w].op = "run" /\ req'[w].at = now /\ req'[w].todo = {}
  \/ /\ req[w].op = "run" /\ req'[w].op = "run" /\ req'[w].at = req[w].at
     /\ req'[w].rows = req[w].rows
     /\ \/ req'[w].todo = req[w].todo /\ req'[w].pc = "tickets"
        \/ /\ req'[w].todo \subseteq req[w].todo /\ req'[w].seen = req[w].seen
           /\ req[w].pc \in {"loop", "notify", "log"}
        \/ /\ req'[w].todo = req[w].todo
           /\ \A t \in req[w].todo : req'[w].seen[t] = tracking[t]
           /\ UNCHANGED <<now, tickets, tracking>>
  \/ ReadTickets(w)

Evolves ==
  /\ now =< now'
  /\ \A t \in Tickets : TicketEvolves(t) /\ TrackingEvolves(t)
  /\ \A w \in Workers : RequestEvolves(w)

LEMMA EvolvesAround ==
  ASSUME TypeInv, Around
  PROVE  Evolves
<1>1. /\ now \in Nat /\ now \in Stamp /\ tickets \in [Tickets -> TicketRow]
      /\ tracking \in [Tickets -> TrackingRow]
  BY ConstantsOK DEF TypeInv, TypeOK, Time, Stamp
<1>2. CASE Tick
  BY <1>1, <1>2 DEF Tick, Evolves, TicketEvolves, TrackingEvolves, RequestEvolves
<1>3. ASSUME NEW p \in Policies, SavePolicy(p)
      PROVE  Evolves
  BY <1>1, <1>3 DEF SavePolicy, Evolves, TicketEvolves, TrackingEvolves, RequestEvolves
<1>4. ASSUME NEW t \in Tickets, NEW row, tickets' = [tickets EXCEPT ![t] = row],
             TicketEvolves(t), UNCHANGED <<now, tracking, req>>
      PROVE  Evolves
  <2>1. \A u \in Tickets \ {t} : tickets'[u] = tickets[u]
    BY <1>1, <1>4
  <2>2. \A u \in Tickets : TicketEvolves(u)
    BY <1>4, <2>1 DEF TicketEvolves
  <2> QED BY <1>1, <1>4, <2>2 DEF Evolves, TrackingEvolves, RequestEvolves
<1>5. ASSUME NEW t \in Tickets, Open(t)
      PROVE  Evolves
  <2>1. PICK p \in Saved \cup {Nil} :
          tickets' = [tickets EXCEPT ![t] =
            [NoTicket EXCEPT !.life = "live", !.policy = p, !.created = now]]
    BY <1>5 DEF Open
  <2>2. TicketEvolves(t)
    BY <1>1, <1>5, <2>1 DEF Open, NoTicket, TicketEvolves
  <2> QED BY <1>4, <1>5, <2>1, <2>2 DEF Open
<1>6. ASSUME NEW t \in Tickets, Answer(t)
      PROVE  Evolves
  <2>1. tickets' = [tickets EXCEPT ![t] = [tickets[t] EXCEPT !.answered = now]]
    BY <1>6 DEF Answer
  <2>2. tickets[t] \in TicketRow
    BY <1>1
  <2>3. TicketEvolves(t)
    BY <1>1, <1>6, <2>1, <2>2 DEF Answer, Live, TicketRow, TicketEvolves
  <2> QED BY <1>4, <1>6, <2>1, <2>3 DEF Answer
<1>7. ASSUME NEW t \in Tickets, Patch(t)
      PROVE  Evolves
  <2>1. PICK next \in Asked \cup {tickets[t].status},
             p \in {tickets[t].policy} \cup (IF "policy" \in Handlers THEN Saved \cup {Nil} ELSE {}) :
          tickets' = [tickets EXCEPT ![t] = Patched(tickets[t], next, p)]
    BY <1>7 DEF Patch
  <2>2. tickets[t] \in TicketRow
    BY <1>1
  <2>3. next \in TicketStatus /\ p \in Policies \cup {Nil}
    BY <2>2, ConstantsOK DEF TicketRow, Saved
  <2> DEFINE row == Patched(tickets[t], next, p)
  <2>4. /\ row.life = tickets[t].life /\ row.created = tickets[t].created
        /\ row.answered = tickets[t].answered
        /\ row.resolvedAt \in {tickets[t].resolvedAt, now}
        /\ row.closedAt \in {tickets[t].closedAt, now}
    BY <1>1, <2>2, <2>3, PatchedRow
  <2>5. tickets'[t] = row
    BY <1>1, <2>1
  <2>6. TicketEvolves(t)
    BY <1>7, <2>4, <2>5 DEF Patch, Live, TicketEvolves
  <2> QED BY <1>4, <1>7, <2>1, <2>6 DEF Patch
<1>8. ASSUME NEW t \in Tickets, Decide(t)
      PROVE  Evolves
  <2>1. tickets[t] \in TicketRow
    BY <1>1
  <2>2. \/ tickets' = [tickets EXCEPT ![t] =
             [tickets[t] EXCEPT !.status = "CANCELLED", !.closedAt = now]]
        \/ tickets' = [tickets EXCEPT ![t] = [tickets[t] EXCEPT !.closedAt = Nil]]
    BY <1>1, <1>8 DEF Decide
  <2>3. TicketEvolves(t)
    BY <1>1, <1>8, <2>1, <2>2 DEF Decide, Live, TicketRow, TicketEvolves
  <2> QED BY <1>4, <1>8, <2>2, <2>3 DEF Decide
<1>9. ASSUME NEW t \in Tickets, Delete(t)
      PROVE  Evolves
  <2>1. tickets'[t] = [NoTicket EXCEPT !.life = "deleted"] /\ tracking'[t] = NoTracking
    BY <1>1, <1>9 DEF Delete
  <2>2. /\ tickets'[t].life = "deleted" /\ tickets'[t].resolvedAt = Nil
        /\ tickets'[t].closedAt = Nil
    BY <2>1 DEF NoTicket
  <2>3. \A u \in Tickets \ {t} : tickets'[u] = tickets[u] /\ tracking'[u] = tracking[u]
    BY <1>1, <1>9 DEF Delete
  <2>4. \A u \in Tickets : TicketEvolves(u) /\ TrackingEvolves(u)
    BY <1>9, <2>1, <2>2, <2>3 DEF Delete, Live, TicketEvolves, TrackingEvolves
  <2> QED BY <1>1, <1>9, <2>4 DEF Delete, Evolves, RequestEvolves
<1> QED BY <1>2, <1>3, <1>5, <1>6, <1>7, <1>8, <1>9 DEF Around

LEMMA EvolvesRequest ==
  ASSUME TypeInv, NEW w \in Workers,
         StartRun(w) \/ ReadTracking(w) \/ Proceed(w) \/ Die(w)
  PROVE  Evolves
<1>1. /\ now \in Nat /\ tickets \in [Tickets -> TicketRow]
      /\ tracking \in [Tickets -> TrackingRow] /\ req \in [Workers -> Request]
      /\ req[w] \in Request /\ Shape(req[w]) /\ Nil \notin {"run", "pause", "resume"}
  BY ConstantsOK DEF TypeInv, TypeOK, Time
<1>2. ASSUME NEW s, req' = [req EXCEPT ![w] = s], RequestEvolves(w),
             UNCHANGED <<now, tickets>>, \A t \in Tickets : TrackingEvolves(t)
      PROVE  Evolves
  <2>1. \A v \in Workers \ {w} : req'[v] = req[v]
    BY <1>1, <1>2
  <2> QED BY <1>1, <1>2, <2>1 DEF Evolves, TicketEvolves, RequestEvolves
<1>3. ASSUME UNCHANGED tracking PROVE \A t \in Tickets : TrackingEvolves(t)
  BY <1>3 DEF TrackingEvolves
<1>4. ASSUME Finish(w), UNCHANGED <<now, tickets, tracking>>
      PROVE  Evolves
  <2>1. req'[w] = Idle /\ req' = [req EXCEPT ![w] = Idle]
    BY <1>1, <1>4 DEF Finish
  <2>2. RequestEvolves(w)
    BY <1>1, <2>1, EmptyRows DEF RequestEvolves
  <2> QED BY <1>2, <1>3, <1>4, <2>1, <2>2
<1>5. CASE StartRun(w)
  <2>1. PICK p \in Policies \cup {Nil} :
          req' = [req EXCEPT ![w] = [Idle EXCEPT
            !.op = "run", !.pc = "assign", !.at = now, !.policy = p]]
    BY <1>5 DEF StartRun
  <2>2. RequestEvolves(w)
    BY <1>1, <2>1 DEF Idle, RequestEvolves
  <2> QED BY <1>2, <1>3, <1>5, <2>1, <2>2 DEF StartRun
<1>6. CASE ReadTracking(w)
  <2>1. PICK op \in Handlers \cap {"pause", "resume"}, t \in Tickets :
          req' = [req EXCEPT ![w] = [Idle EXCEPT
               !.op = op, !.pc = "write", !.at = now, !.tk = t,
               !.seen[t] = tracking[t]]]
    BY <1>6 DEF ReadTracking
  <2>2. req'[w].op = op /\ req'[w].at = now
    BY <1>1, <2>1 DEF Idle
  <2>3. RequestEvolves(w)
    BY <2>2 DEF RequestEvolves
  <2> QED BY <1>2, <1>3, <1>6, <2>1, <2>3 DEF ReadTracking
<1>7. CASE AssignDefault(w)
  <2>1. req' = [req EXCEPT ![w] = [req[w] EXCEPT !.pc = "tickets"]]
    BY <1>7 DEF AssignDefault
  <2>2. RequestEvolves(w)
    BY <1>1, <1>7, <2>1 DEF AssignDefault, At, Request, RequestEvolves
  <2>3. \A v \in Workers \ {w} : req'[v] = req[v]
    BY <1>1, <2>1
  <2>4. ASSUME NEW t \in Tickets
        PROVE  TicketEvolves(t)
    <3>1. tickets[t] \in TicketRow
      BY <1>1
    <3>2. \/ tickets'[t] = tickets[t]
          \/ Live(t) /\ tickets'[t] = [tickets[t] EXCEPT !.policy = req[w].policy]
      BY <1>7 DEF AssignDefault
    <3> QED BY <3>1, <3>2 DEF Live, TicketRow, TicketEvolves
  <2> QED BY <1>1, <1>3, <1>7, <2>2, <2>3, <2>4 DEF AssignDefault, Evolves, RequestEvolves
<1>8. CASE ReadTickets(w)
  BY <1>2, <1>3, <1>8 DEF ReadTickets, RequestEvolves
<1>9. CASE ReadTrackings(w)
  <2> DEFINE seen == [t \in Tickets |-> IF t \in req[w].todo THEN tracking[t] ELSE NoTracking]
  <2>1. req' = [req EXCEPT ![w] = [req[w] EXCEPT !.pc = "loop", !.seen = seen]]
    BY <1>9 DEF ReadTrackings
  <2>2. \A t \in req[w].todo : seen[t] = tracking[t]
    BY <1>1 DEF Request
  <2> HIDE DEF seen
  <2>3. RequestEvolves(w)
    BY <1>1, <1>9, <2>1, <2>2 DEF ReadTrackings, At, Request, RequestEvolves
  <2> QED BY <1>2, <1>3, <1>9, <2>1, <2>3 DEF ReadTrackings
<1>10. CASE Evaluate(w)
  <2> DEFINE next(t) == Evaluated(req[w].rows[t], req[w].seen[t], req[w].at)
             s1(t) == [req[w] EXCEPT !.todo = @ \ {t}, !.pc = "notify", !.tk = t,
                                     !.from = req[w].seen[t].status, !.to = next(t).status]
             s2(t) == [req[w] EXCEPT !.todo = @ \ {t}]
  <2>1. PICK t \in req[w].todo :
          /\ Live(t)
          /\ tracking' = [tracking EXCEPT ![t] = next(t)]
          /\ req' = [req EXCEPT ![w] = s1(t)] \/ req' = [req EXCEPT ![w] = s2(t)]
    BY <1>10 DEF Evaluate
  <2>2. /\ t \in Tickets /\ req[w].seen[t] \in TrackingRow /\ req[w].at \in Time
        /\ req[w].rows[t].response \in Nat /\ req[w].rows[t].resolution \in Nat
    BY <1>1, <2>1 DEF Request
  <2>3. next(t).status = Verdict(req[w].rows[t], req[w].seen[t], req[w].at)
    BY <2>2, EvaluatedRow
  <2> HIDE DEF next
  <2>4. TrackingEvolves(t)
    BY <1>1, <1>10, <2>1, <2>2, <2>3 DEF Evaluate, TrackingEvolves
  <2>5. \A u \in Tickets : TrackingEvolves(u)
    BY <1>1, <2>1, <2>4 DEF TrackingEvolves
  <2>6. ASSUME NEW s \in {s1(t), s2(t)}, req' = [req EXCEPT ![w] = s]
        PROVE  RequestEvolves(w)
    <3>1. /\ s.op = req[w].op /\ s.at = req[w].at /\ s.rows = req[w].rows
          /\ s.todo = req[w].todo \ {t} /\ s.seen = req[w].seen
      BY ZenonT(60), <1>1, <2>6 DEF Request
    <3>2. req'[w] = s
      BY <1>1, <2>6
    <3> QED BY <1>10, <3>1, <3>2 DEF Evaluate, At, RequestEvolves
  <2> HIDE DEF s1, s2
  <2> QED BY <1>2, <1>10, <2>1, <2>5, <2>6 DEF Evaluate
<1>11. CASE RunFails(w)
  <2>1. CASE Finish(w)
    BY <1>4, <1>11, <2>1 DEF RunFails
  <2>2. CASE req' = [v \in Workers |-> Idle]
    BY <1>1, <1>3, <1>11, <2>2, EmptyRows
       DEF RunFails, Evolves, TicketEvolves, RequestEvolves
  <2> QED BY <1>11, <2>1, <2>2 DEF RunFails
<1>12. CASE Notify(w)
  <2>1. req' = [req EXCEPT ![w] = [req[w] EXCEPT !.pc = "log"]]
    BY <1>12 DEF Notify
  <2>2. RequestEvolves(w)
    BY <1>1, <1>12, <2>1 DEF Notify, At, Request, RequestEvolves
  <2> QED BY <1>2, <1>3, <1>12, <2>1, <2>2 DEF Notify
<1>13. CASE LogChange(w)
  <2>1. req' = [req EXCEPT ![w] = [req[w] EXCEPT
          !.pc = "loop", !.tk = Nil, !.from = Nil, !.to = Nil]]
    BY <1>13 DEF LogChange
  <2>2. RequestEvolves(w)
    BY <1>1, <1>13, <2>1 DEF LogChange, At, Request, RequestEvolves
  <2> QED BY <1>2, <1>3, <1>13, <2>1, <2>2 DEF LogChange
<1>14. CASE EndRun(w)
  BY <1>4, <1>14 DEF EndRun
<1>15. ASSUME NEW row, req[w].tk \in Tickets, tracking[req[w].tk].exists,
              req[w].op # "run", UNCHANGED <<now, tickets>>,
              tracking' = [tracking EXCEPT ![req[w].tk] = row],
              row.status = tracking[req[w].tk].status,
              req' = [req EXCEPT ![w] = [req[w] EXCEPT !.pc = "record"]]
       PROVE  Evolves
  <2>1. \A t \in Tickets : TrackingEvolves(t)
    BY <1>1, <1>15 DEF TrackingEvolves
  <2>2. RequestEvolves(w)
    BY <1>1, <1>15 DEF Request, RequestEvolves
  <2> QED BY <1>2, <1>15, <2>1, <2>2
<1>16. CASE WritePause(w)
  <2>1. req[w].tk \in Tickets
    BY <1>1, <1>16 DEF WritePause, At, Shape
  <2>2. tracking[req[w].tk] \in TrackingRow
    BY <1>1, <2>1
  <2> DEFINE row == [tracking[req[w].tk] EXCEPT !.pausedAt = req[w].at]
  <2>3. row.status = tracking[req[w].tk].status
    BY <2>2 DEF TrackingRow
  <2>4. /\ tracking' = [tracking EXCEPT ![req[w].tk] = row]
        /\ req' = [req EXCEPT ![w] = [req[w] EXCEPT !.pc = "record"]]
    BY <1>16 DEF WritePause
  <2> HIDE DEF row
  <2> QED BY <1>15, <1>16, <2>1, <2>3, <2>4 DEF WritePause, At
<1>17. CASE WriteResume(w)
  <2>1. req[w].tk \in Tickets
    BY <1>1, <1>17 DEF WriteResume, At, Shape
  <2>2. tracking[req[w].tk] \in TrackingRow
    BY <1>1, <2>1
  <2> DEFINE seen == req[w].seen[req[w].tk]
             shift == AtLeastOne(req[w].at - seen.pausedAt)
             row == [tracking[req[w].tk] EXCEPT
               !.pausedAt = Nil, !.paused = seen.paused + shift,
               !.response = seen.response + shift,
               !.resolution = seen.resolution + shift]
  <2>3. row.status = tracking[req[w].tk].status
    BY <2>2 DEF TrackingRow
  <2>4. /\ tracking' = [tracking EXCEPT ![req[w].tk] = row]
        /\ req' = [req EXCEPT ![w] = [req[w] EXCEPT !.pc = "record"]]
    BY <1>17 DEF WriteResume
  <2> HIDE DEF row
  <2> QED BY <1>15, <1>17, <2>1, <2>3, <2>4 DEF WriteResume, At
<1>18. CASE RecordPause(w)
  BY <1>4, <1>18 DEF RecordPause
<1>19. CASE RowGone(w)
  BY <1>4, <1>19 DEF RowGone
<1>20. CASE Die(w)
  BY <1>4, <1>20 DEF Die
<1> QED BY <1>5, <1>6, <1>7, <1>8, <1>9, <1>10, <1>11, <1>12, <1>13, <1>14,
           <1>16, <1>17, <1>18, <1>19, <1>20 DEF Proceed

LEMMA EvolvesStep == TypeInv /\ [Next]_vars => Evolves
<1>1. ASSUME TypeInv, UNCHANGED vars
      PROVE  Evolves
  <2>1. now \in Nat
    BY <1>1, ConstantsOK DEF TypeInv, TypeOK, Time
  <2> QED BY <1>1, <2>1 DEF vars, Evolves, TicketEvolves, TrackingEvolves, RequestEvolves
<1> QED BY <1>1, EvolvesAround, EvolvesRequest DEF Next

-----------------------------------------------------------------------------
(* The invariants                                                          *)

LEMMA RowStep ==
  ASSUME TypeInv, RowInv, Evolves
  PROVE  RowInv'
<1>1. SUFFICES ASSUME NEW t \in Tickets, tickets'[t].life # "live"
               PROVE  tracking'[t] = NoTracking
  BY DEF RowInv, Live
<1>2. TicketEvolves(t) /\ TrackingEvolves(t)
  BY DEF Evolves
<1>3. ~Live(t) => tracking[t] = NoTracking
  BY DEF RowInv
<1>4. ~NoTracking.exists
  BY DEF NoTracking
<1> QED BY <1>1, <1>2, <1>3, <1>4 DEF TicketEvolves, TrackingEvolves, Live

LEMMA ClockStep ==
  ASSUME TypeInv, ClockInv, Evolves, TypeInv'
  PROVE  ClockInv'
<1>1. now \in Nat /\ now' \in Nat /\ now =< now' /\ now # Nil
  BY ConstantsOK DEF TypeInv, TypeOK, Time, Evolves
<1>2. ASSUME NEW t \in Tickets
      PROVE  /\ tickets'[t].resolvedAt # Nil => tickets'[t].resolvedAt =< now'
             /\ tickets'[t].closedAt # Nil => tickets'[t].closedAt =< now'
  <2>1. TicketEvolves(t)
    BY DEF Evolves
  <2>2. /\ tickets[t].resolvedAt # Nil => tickets[t].resolvedAt \in Nat /\ tickets[t].resolvedAt =< now
        /\ tickets[t].closedAt # Nil => tickets[t].closedAt \in Nat /\ tickets[t].closedAt =< now
    BY DEF ClockInv, TypeInv, TypeOK, TicketRow, Stamp, Time
  <2> QED BY <1>1, <2>1, <2>2 DEF TicketEvolves
<1>3. ASSUME NEW w \in Workers
      PROVE  req'[w].at =< now'
  <2>1. RequestEvolves(w) /\ req[w].at \in Nat /\ req[w].at =< now
    BY DEF Evolves, ClockInv, TypeInv, TypeOK, Request, Time
  <2>2. ReadTickets(w) => req'[w].at = req[w].at
    <3>1. req[w] \in Request /\ req \in [Workers -> Request]
      BY DEF TypeInv, TypeOK
    <3>2. \A todo, rows :
            [req[w] EXCEPT !.pc = "trackings", !.todo = todo, !.rows = rows].at = req[w].at
      BY <3>1 DEF Request
    <3> QED BY <3>1, <3>2 DEF ReadTickets
  <2> QED BY <1>1, <2>1, <2>2 DEF RequestEvolves
<1> QED BY <1>2, <1>3 DEF ClockInv

\* A missed deadline stays missed: what it waited for can only come late.
LEMMA MissedStays ==
  ASSUME TypeInv, Evolves, TypeInv', NEW t \in Tickets, NEW terms \in Terms,
         Live(t), tickets'[t].life = "live", Missed(t, terms)
  PROVE  Missed(t, terms)'
<1>1. /\ now \in Nat /\ now' \in Nat /\ now =< now' /\ now # Nil
      /\ terms.response \in Nat /\ terms.resolution \in Nat /\ TicketEvolves(t)
  BY ConstantsOK DEF TypeInv, TypeOK, Time, Evolves, Term
<1>2. /\ tickets[t].created \in Nat
      /\ tickets[t].answered \in Nat \cup {Nil}
      /\ tickets[t].resolvedAt \in Nat \cup {Nil}
      /\ tickets[t].closedAt \in Nat \cup {Nil}
  BY DEF TypeInv, TypeOK, TicketRow, Stamp, Time
<1>3. \/ tickets'[t] = tickets[t]
      \/ /\ tickets'[t].created = tickets[t].created
         /\ tickets'[t].answered = tickets[t].answered
              \/ (tickets[t].answered = Nil /\ tickets'[t].answered = now)
         /\ tickets'[t].resolvedAt \in {tickets[t].resolvedAt, now}
         /\ tickets'[t].closedAt \in {tickets[t].closedAt, now, Nil}
  BY <1>1 DEF Live, TicketEvolves
<1> DEFINE due == tickets[t].created + terms.resolution
<1>4. CASE now > tickets[t].created + terms.response
           /\ (tickets[t].answered = Nil \/ tickets[t].answered > tickets[t].created + terms.response)
  BY <1>1, <1>2, <1>3, <1>4 DEF Missed
<1>5. CASE now > due /\ (Done(tickets[t]) = Nil \/ Done(tickets[t]) > due)
  <2>1. Done(tickets'[t]) = Nil \/ Done(tickets'[t]) > due
    BY <1>1, <1>2, <1>3, <1>5 DEF Done
  <2> QED BY <1>1, <1>2, <1>3, <1>5, <2>1 DEF Missed
<1> QED BY <1>4, <1>5 DEF Missed

\* A run that reads a ticket computes a breach only if there is one.
LEMMA ReadIsSound ==
  ASSUME TypeInv, ClockInv, SameTerms, NEW w \in Workers, ReadTickets(w),
         NEW t \in req'[w].todo, NEW terms \in Terms,
         Resolved(req'[w].rows[t], req'[w].at) = "BREACHED"
  PROVE  /\ t \in Tickets /\ tickets'[t] = tickets[t] /\ Live(t)
         /\ Missed(t, terms)'
<1> DEFINE policy == policies[tickets[t].policy]
           row == [response |-> tickets[t].created + policy.response,
                   resolution |-> tickets[t].created + policy.resolution,
                   answered |-> tickets[t].answered, done |-> Done(tickets[t])]
<1>1. req'[w] = [req[w] EXCEPT !.pc = "trackings", !.todo = Watched,
        !.rows = [u \in Tickets |->
         IF u \notin Watched THEN NoRow ELSE
           [response |-> tickets[u].created + policies[tickets[u].policy].response,
            resolution |-> tickets[u].created + policies[tickets[u].policy].resolution,
            answered |-> tickets[u].answered, done |-> Done(tickets[u])]]]
  BY DEF ReadTickets, TypeInv, TypeOK
<1>2. /\ req[w] \in Request /\ req[w].at \in Nat /\ req[w].at =< now
      /\ now \in Nat
  BY DEF TypeInv, TypeOK, Request, Time, ClockInv
<1>3. t \in Watched /\ req'[w].at = req[w].at
  BY <1>1, <1>2 DEF Request
<1>4. t \in Tickets /\ Live(t) /\ tickets[t] \in TicketRow /\ policy \in Terms
  BY <1>3 DEF Watched, Active, Saved, TypeInv, TypeOK
<1>5. req'[w].rows[t] = row
  BY <1>1, <1>2, <1>3, <1>4 DEF Request
<1>6. /\ policy.response = terms.response /\ policy.resolution = terms.resolution
      /\ terms.response \in Nat /\ terms.resolution \in Nat
  BY <1>4, ConstantsOK DEF SameTerms, Term
<1>7. /\ tickets[t].created \in Nat /\ tickets[t].answered \in Nat \cup {Nil}
      /\ Done(tickets[t]) = Nil \/ (Done(tickets[t]) \in Nat /\ Done(tickets[t]) =< now)
  BY <1>4 DEF ClockInv, Done, TicketRow, Stamp, Time
<1> DEFINE response == tickets[t].created + terms.response
           resolution == tickets[t].created + terms.resolution
           at == req[w].at
<1>8. Resolved(row, at) = "BREACHED"
  BY <1>3, <1>5
<1>9. /\ row.response = response /\ row.resolution = resolution
      /\ row.answered = tickets[t].answered /\ row.done = Done(tickets[t])
      /\ response \in Nat /\ resolution \in Nat
  BY <1>6, <1>7
<1> HIDE DEF row
<1>10. \/ row.done # Nil /\ ~(row.done =< row.resolution)
       \/ row.done = Nil /\ row.answered = Nil /\ at > row.response
       \/ row.done = Nil /\ at > row.resolution
  BY <1>8, Zenon DEF Resolved
<1> HIDE DEF response, resolution
<1>11. \/ now > response /\ tickets[t].answered = Nil
       \/ now > resolution /\ (Done(tickets[t]) = Nil \/ Done(tickets[t]) > resolution)
  BY <1>2, <1>7, <1>9, <1>10
<1>12. Missed(t, terms)
  BY <1>11 DEF Missed, response, resolution
<1>13. UNCHANGED <<now, tickets>>
  BY DEF ReadTickets
<1> QED BY <1>4, <1>12, <1>13 DEF Missed

LEMMA BreachStep ==
  ASSUME Inv, SameTerms, Evolves, TypeInv'
  PROVE  BreachInv'
<1>1. TypeInv /\ RowInv /\ ClockInv /\ BreachInv
  BY DEF Inv
<1>2. ASSUME NEW t \in Tickets, NEW terms \in Terms, tracking'[t].status = "BREACHED"
      PROVE  Missed(t, terms)'
  <2>1. TicketEvolves(t) /\ TrackingEvolves(t) /\ NoTracking.status # "BREACHED"
    BY DEF Evolves, NoTracking
  <2>2. ASSUME Live(t), Missed(t, terms)
        PROVE  Missed(t, terms)'
    <3>1. tickets'[t].life = "live"
      BY <1>2, <2>1, <2>2 DEF Live, TicketEvolves
    <3> QED BY <1>1, <2>2, <3>1, MissedStays
  <2>3. CASE tracking'[t].status = tracking[t].status
    <3>1. Live(t) /\ Missed(t, terms)
      BY <1>1, <1>2, <2>1, <2>3 DEF BreachInv, RowInv
    <3> QED BY <2>2, <3>1
  <2>4. ASSUME Live(t), NEW w \in Workers, At(w, "run", "loop"), t \in req[w].todo,
               tracking'[t].status = Verdict(req[w].rows[t], req[w].seen[t], req[w].at)
        PROVE  Missed(t, terms)'
    <3>1. Sound(req[w])
      BY <1>1 DEF BreachInv
    <3>2. \/ req[w].seen[t].status = "BREACHED"
          \/ Resolved(req[w].rows[t], req[w].at) = "BREACHED"
      BY <1>2, <2>4 DEF Verdict
    <3>3. Missed(t, terms)
      BY <2>4, <3>1, <3>2 DEF Sound, At
    <3> QED BY <2>2, <2>4, <3>3
  <2> QED BY <1>2, <2>1, <2>3, <2>4 DEF TrackingEvolves
<1>3. ASSUME NEW w \in Workers
      PROVE  Sound(req[w])'
  <2>1. RequestEvolves(w) /\ Sound(req[w]) /\ req[w] \in Request /\ req'[w] \in Request
    BY <1>1 DEF Evolves, BreachInv, TypeInv, TypeOK
  <2> DEFINE r == req[w]
             q == req'[w]
  <2>2. SUFFICES ASSUME q.op = "run", NEW t \in q.todo
                 PROVE  /\ tickets'[t].life # "unborn"
                        /\ tickets'[t].life = "live" => \A terms \in Terms :
                             /\ Resolved(q.rows[t], q.at) = "BREACHED" => Missed(t, terms)'
                             /\ q.pc \in {"loop", "notify", "log"} /\ q.seen[t].status = "BREACHED"
                                  => Missed(t, terms)'
    BY DEF Sound, Live
  <2>3. t \in Tickets
    BY <2>1 DEF Request
  <2>4. TicketEvolves(t) /\ tickets[t] \in TicketRow
    BY <1>1, <2>3 DEF Evolves, TypeInv, TypeOK
  <2>5. CASE ReadTickets(w)
    <3>1. q.pc = "trackings" /\ t \in Watched /\ UNCHANGED tickets
      BY ZenonT(60), <2>1, <2>5 DEF ReadTickets, TypeInv, TypeOK, Request
    <3> QED BY <1>1, <2>5, <3>1, ReadIsSound DEF Watched, Live
  <2>6. ASSUME t \in r.todo, r.op = "run", q.rows = r.rows, q.at = r.at,
               \A terms \in Terms : Live(t) /\ q.pc \in {"loop", "notify", "log"}
                 /\ q.seen[t].status = "BREACHED" => Missed(t, terms)
        PROVE  /\ tickets'[t].life # "unborn"
               /\ tickets'[t].life = "live" => \A terms \in Terms :
                    /\ Resolved(q.rows[t], q.at) = "BREACHED" => Missed(t, terms)'
                    /\ q.pc \in {"loop", "notify", "log"} /\ q.seen[t].status = "BREACHED"
                         => Missed(t, terms)'
    <3>1. /\ tickets[t].life # "unborn"
          /\ Live(t) => \A terms \in Terms :
               Resolved(r.rows[t], r.at) = "BREACHED" => Missed(t, terms)
      BY <2>1, <2>6 DEF Sound
    <3>2. tickets'[t].life # "unborn" /\ (tickets'[t].life = "live" => Live(t))
      BY <2>4, <3>1 DEF TicketEvolves, Live
    <3>3. ASSUME tickets'[t].life = "live", NEW terms \in Terms, Missed(t, terms)
          PROVE  Missed(t, terms)'
      BY <1>1, <2>3, <3>2, <3>3, MissedStays
    <3> HIDE DEF r, q
    <3> QED BY <2>6, <3>1, <3>2, <3>3
  <2>7. CASE q = r
    <3>1. \A terms \in Terms : Live(t) /\ q.pc \in {"loop", "notify", "log"}
            /\ q.seen[t].status = "BREACHED" => Missed(t, terms)
      BY <2>1, <2>2, <2>7 DEF Sound
    <3> QED BY <2>2, <2>6, <2>7, <3>1
  <2>8. CASE /\ r.op = "run" /\ q.at = r.at /\ q.rows = r.rows
             /\ q.todo = r.todo /\ q.pc = "tickets"
    BY <2>2, <2>6, <2>8
  <2>9. CASE /\ r.op = "run" /\ q.at = r.at /\ q.rows = r.rows
             /\ q.todo \subseteq r.todo /\ q.seen = r.seen
             /\ r.pc \in {"loop", "notify", "log"}
    <3>1. \A terms \in Terms : Live(t) /\ q.pc \in {"loop", "notify", "log"}
            /\ q.seen[t].status = "BREACHED" => Missed(t, terms)
      BY <2>1, <2>2, <2>9 DEF Sound
    <3> QED BY <2>2, <2>6, <2>9, <3>1
  <2>10. CASE /\ r.op = "run" /\ q.at = r.at /\ q.rows = r.rows
              /\ q.todo = r.todo
              /\ \A u \in r.todo : q.seen[u] = tracking[u]
    <3>1. \A terms \in Terms : Live(t) /\ q.pc \in {"loop", "notify", "log"}
            /\ q.seen[t].status = "BREACHED" => Missed(t, terms)
      BY <1>1, <2>2, <2>3, <2>10 DEF BreachInv
    <3> QED BY <2>2, <2>6, <2>10, <3>1
  <2> QED BY <2>1, <2>2, <2>5, <2>7, <2>8, <2>9, <2>10 DEF RequestEvolves
<1> QED BY <1>2, <1>3 DEF BreachInv

\* Everything but the truth of breaches holds whatever the policies say.
SafeInv == TypeInv /\ RowInv /\ ClockInv

LEMMA SafeInit == Init => SafeInv /\ BreachInv
<1>1. ASSUME Init PROVE RowInv /\ ClockInv /\ BreachInv
  BY <1>1, EmptyRows, ConstantsOK
     DEF Init, RowInv, ClockInv, BreachInv, Sound, NoTracking, NoTicket
<1> QED BY <1>1, TypeInit DEF SafeInv

LEMMA SafeStep == SafeInv /\ [Next]_vars => SafeInv'
BY TypeStep, EvolvesStep, RowStep, ClockStep DEF SafeInv

\* The inductive invariant on types, rows and dates holds in every state.
THEOREM SafeInvariant == Spec => []SafeInv
BY SafeInit, SafeStep, PTL DEF Spec

\* Every table and every request keeps its type.
THEOREM TypeCorrect == Spec => []TypeOK
<1>1. SafeInv => TypeOK
  BY DEF SafeInv, TypeInv
<1> QED BY <1>1, SafeInvariant, PTL

\* However runs, deletions and crashes interleave, a tracking row never
\* outlives its ticket.
THEOREM TrackingsHaveTickets == Spec => []TrackingHasTicket
<1>1. SafeInv => TrackingHasTicket
  BY DEF SafeInv, RowInv, TrackingHasTicket, NoTracking
<1> QED BY <1>1, SafeInvariant, PTL

\* As long as all policies set the same deadlines, whatever snapshot a run
\* works from, a ticket is reported BREACHED only if it missed a deadline.
THEOREM BreachesAreTrue ==
  ASSUME SameTerms
  PROVE  Spec => []NoFalseBreach
<1>1. Init => Inv
  BY SafeInit DEF SafeInv, Inv
<1>2. Inv /\ [Next]_vars => Inv'
  BY TypeStep, EvolvesStep, RowStep, ClockStep, BreachStep DEF Inv
<1>3. Inv => NoFalseBreach
  BY DEF Inv, BreachInv, NoFalseBreach
<1> QED BY <1>1, <1>2, <1>3, PTL DEF Spec

-----------------------------------------------------------------------------
(***************************************************************************)
(* What one engine tells of the changes it makes, if no crash interrupts   *)
(* it, whatever requests pause, resume and delete meanwhile.               *)
(***************************************************************************)
OneEngine == ~Crashes /\ \A v, w \in Engines : v = w

\* Pauses and resumptions leave these columns of a tracking alone.
SameVerdict(a, b) ==
  a.exists = b.exists /\ a.status = b.status /\ a.breachedAt = b.breachedAt

\* What the run still has to evaluate is as it was read, unless it was deleted.
SeenAgrees(r) ==
  r.op = "run" /\ r.pc \in {"loop", "notify", "log"} =>
    \A t \in r.todo : tickets[t].life # "deleted" => SameVerdict(r.seen[t], tracking[t])

\* What the run reports has been written, and goes on where the last report ended.
ReportAgrees(r) ==
  r.pc \in {"notify", "log"} =>
    /\ tickets[r.tk].life # "deleted" =>
         tracking[r.tk].exists /\ tracking[r.tk].status = r.to
    /\ log[r.tk] # NoChange => log[r.tk].to = r.from
    /\ r.pc = "log" /\ r.to # "ON_TRACK" => told[r.tk] = r.to

\* Of a ticket that has never been evaluated there is no record.
NothingBefore ==
  \A t \in Tickets : tickets[t].life # "deleted" /\ ~tracking[t].exists => log[t] = NoChange

\* A breach has a date.
BreachDated ==
  \A t \in Tickets : tracking[t].status = "BREACHED" => tracking[t].breachedAt # Nil

\* Runs are runs of the engine.
RunsAreEngines == \A w \in Workers : req[w].op = "run" => w \in Engines

TellInv ==
  /\ RunsAreEngines /\ NothingBefore /\ BreachDated /\ ChangesTold
  /\ \A w \in Workers : SeenAgrees(req[w]) /\ ReportAgrees(req[w])

LEMMA TellInit == Init => TellInv
<1> SUFFICES ASSUME Init PROVE TellInv
  OBVIOUS
<1>1. \A w \in Workers : req[w].op = Nil /\ req[w].pc = "idle"
  BY EmptyRows DEF Init
<1>2. \A t \in Tickets : /\ ~tracking[t].exists /\ tracking[t].status = "ON_TRACK"
                         /\ log[t] = NoChange
  BY DEF Init, NoTracking
<1>3. Nil # "run"
  BY ConstantsOK
<1> QED
  BY <1>1, <1>2, <1>3 DEF TellInv, RunsAreEngines, NothingBefore, BreachDated, ChangesTold,
     SeenAgrees, ReportAgrees

\* While one run is at work, no other one is, and nobody else reports.
LEMMA OtherWorkers ==
  ASSUME OneEngine, TypeInv, RunsAreEngines, NEW w \in Workers, req[w].op = "run",
         NEW v \in Workers \ {w}
  PROVE  req[v].op # "run" /\ req[v].pc \notin {"loop", "notify", "log"}
<1>1. req[v].op # "run"
  BY DEF OneEngine, RunsAreEngines
<1>2. req[v] \in Request /\ Shape(req[v])
  BY DEF TypeInv, TypeOK
<1> QED
  BY <1>1, <1>2 DEF Shape, Request

\* What a step does that neither evaluates nor reports: the verdicts stay, except
\* that rows of deleted tickets go, and a request that is not reporting goes on.
Quiet ==
  /\ UNCHANGED <<told, log>>
  /\ \A t \in Tickets :
       \/ tickets'[t].life = "deleted" /\ (tracking'[t] = tracking[t] \/ tracking'[t] = NoTracking)
       \/ tickets[t].life # "deleted" /\ SameVerdict(tracking[t], tracking'[t])
  /\ \A v \in Workers :
       \/ req'[v] = req[v]
       \/ /\ req[v].pc \notin {"notify", "log"}
          /\ ~(req'[v].op = "run" /\ req'[v].pc \in {"loop", "notify", "log"})
          /\ req'[v].op = "run" => v \in Engines

LEMMA QuietKeeps ==
  ASSUME SafeInv, SafeInv', TellInv, Quiet
  PROVE  TellInv'
<1>1. \A v \in Workers : req'[v].pc \in {"notify", "log"} => req'[v] = req[v]
  <2> SUFFICES ASSUME NEW v \in Workers, req'[v].pc \in {"notify", "log"}, req'[v] # req[v]
               PROVE  FALSE
    OBVIOUS
  <2>1. req'[v] \in Request /\ Shape(req[v])'
    BY DEF SafeInv, TypeInv, TypeOK
  <2>2. req'[v].op = "run"
    BY <2>1, ConstantsOK DEF Shape, Request
  <2> QED
    BY <2>2 DEF Quiet
<1>2. \A t \in Tickets : tracking'[t].exists => tickets'[t].life = "live"
  BY DEF SafeInv, RowInv, Live, NoTracking
<1>3. RunsAreEngines'
  BY DEF TellInv, RunsAreEngines, Quiet
<1>4. NothingBefore'
  BY DEF TellInv, NothingBefore, Quiet, SameVerdict
<1>5. BreachDated'
  BY DEF TellInv, BreachDated, Quiet, SameVerdict, NoTracking
<1>6. ChangesTold'
  <2> SUFFICES ASSUME NEW t \in Tickets, tracking'[t].exists, log'[t] # NoChange,
                      \A w \in Workers : ~Reporting(w, t)'
               PROVE  /\ log'[t].to = tracking'[t].status
                      /\ tracking'[t].status # "ON_TRACK" => told'[t] = tracking'[t].status
    BY DEF ChangesTold
  <2>1. SameVerdict(tracking[t], tracking'[t])
    BY <1>2 DEF Quiet
  <2>2. \A w \in Workers : ~Reporting(w, t)
    BY DEF Quiet, Reporting
  <2> QED
    BY <2>1, <2>2 DEF TellInv, ChangesTold, Quiet, SameVerdict
<1>7. ASSUME NEW v \in Workers PROVE SeenAgrees(req[v])' /\ ReportAgrees(req[v])'
  <2>1. req[v] \in Request /\ req'[v] \in Request /\ Shape(req[v])'
    BY DEF SafeInv, TypeInv, TypeOK
  <2>2. CASE req'[v] = req[v]
    <3>1. SeenAgrees(req[v])'
      BY <2>1, <2>2 DEF TellInv, SeenAgrees, Quiet, SameVerdict, Request
    <3>2. ReportAgrees(req[v])'
      BY <2>1, <2>2 DEF TellInv, ReportAgrees, Quiet, SameVerdict, Shape
    <3> QED
      BY <3>1, <3>2
  <2>3. CASE req'[v] # req[v]
    BY <1>1, <2>3 DEF Quiet, SeenAgrees, ReportAgrees
  <2> QED
    BY <2>2, <2>3
<1> QED
  BY <1>3, <1>4, <1>5, <1>6, <1>7 DEF TellInv

\* A step of one request, which is not reporting and does not begin to.
LEMMA QuietRequest ==
  ASSUME SafeInv, SafeInv', TellInv, NEW w \in Workers, NEW r,
         req' = [req EXCEPT ![w] = r], r.pc \notin {"loop", "notify", "log"},
         r.op = "run" => w \in Engines, req[w].pc \notin {"notify", "log"},
         UNCHANGED <<told, log>>,
         \A t \in Tickets : /\ tickets'[t].life = tickets[t].life
                            /\ SameVerdict(tracking[t], tracking'[t])
                            /\ tickets[t].life = "deleted" => tracking'[t] = tracking[t]
  PROVE  TellInv'
<1>1. req'[w] = r /\ \A v \in Workers \ {w} : req'[v] = req[v]
  BY DEF SafeInv, TypeInv, TypeOK
<1>2. Quiet
  BY <1>1 DEF Quiet
<1> QED
  BY <1>2, QuietKeeps

\* What goes on around the engine: rows of deleted tickets go, all others stay.
RowsStay ==
  /\ UNCHANGED <<told, log, ledger, req>>
  /\ \A t \in Tickets :
       \/ tickets'[t].life = "deleted" /\ (tracking'[t] = tracking[t] \/ tracking'[t] = NoTracking)
       \/ tickets[t].life # "deleted" /\ tracking'[t] = tracking[t]

LEMMA AroundStays == ASSUME SafeInv, Around PROVE RowsStay
<1>1. tickets \in [Tickets -> TicketRow] /\ tracking \in [Tickets -> TrackingRow]
  BY DEF SafeInv, TypeInv, TypeOK
<1>2. ASSUME UNCHANGED <<tracking, told, log, ledger, req>>,
             NEW t \in Tickets, NEW row, row.life # "deleted", tickets[t].life # "deleted",
             tickets' = [tickets EXCEPT ![t] = row]
      PROVE  RowsStay
  <2>1. tickets'[t].life # "deleted" /\ \A u \in Tickets \ {t} : tickets'[u] = tickets[u]
    BY <1>1, <1>2
  <2> QED
    BY <1>2, <2>1 DEF RowsStay
<1>3. CASE Tick \/ \E p \in Policies : SavePolicy(p)
  BY <1>3 DEF Tick, SavePolicy, RowsStay
<1>4. ASSUME NEW t \in Tickets, Open(t) PROVE RowsStay
  <2>1. PICK p \in Saved \cup {Nil} :
          tickets' = [tickets EXCEPT ![t] =
            [NoTicket EXCEPT !.life = "live", !.policy = p, !.created = now]]
    BY <1>4 DEF Open
  <2>2. [NoTicket EXCEPT !.life = "live", !.policy = p, !.created = now].life = "live"
    BY DEF NoTicket
  <2> QED
    BY <1>2, <1>4, <2>1, <2>2 DEF Open
<1>5. ASSUME NEW t \in Tickets, Answer(t) PROVE RowsStay
  <2>1. /\ tickets' = [tickets EXCEPT ![t] = [tickets[t] EXCEPT !.answered = now]]
        /\ [tickets[t] EXCEPT !.answered = now].life = "live"
    BY <1>1, <1>5 DEF Answer, Live, TicketRow
  <2> QED
    BY <1>2, <1>5, <2>1 DEF Answer, Live
<1>6. ASSUME NEW t \in Tickets, Patch(t) PROVE RowsStay
  <2>1. PICK next \in Asked \cup {tickets[t].status},
             p \in {tickets[t].policy}
                   \cup (IF "policy" \in Handlers THEN Saved \cup {Nil} ELSE {}) :
          tickets' = [tickets EXCEPT ![t] = Patched(tickets[t], next, p)]
    BY <1>6 DEF Patch
  <2>2. Patched(tickets[t], next, p).life = tickets[t].life
    BY <1>1 DEF Patched, TicketRow
  <2> QED
    BY <1>2, <1>6, <2>1, <2>2 DEF Patch, Live
<1>7. ASSUME NEW t \in Tickets, Decide(t) PROVE RowsStay
  <2>1. /\ tickets[t] \in TicketRow
        /\ [tickets[t] EXCEPT !.status = "CANCELLED", !.closedAt = now].life = tickets[t].life
        /\ [tickets[t] EXCEPT !.closedAt = Nil].life = tickets[t].life
    BY <1>1 DEF TicketRow
  <2>2. \/ tickets' = [tickets EXCEPT ![t] =
             [tickets[t] EXCEPT !.status = "CANCELLED", !.closedAt = now]]
        \/ tickets' = [tickets EXCEPT ![t] = [tickets[t] EXCEPT !.closedAt = Nil]]
    BY <1>1, <1>7 DEF Decide
  <2> QED
    BY <1>2, <1>7, <2>1, <2>2 DEF Decide, Live
<1>8. ASSUME NEW t \in Tickets, Delete(t) PROVE RowsStay
  <2>1. /\ tickets'[t].life = "deleted" /\ tracking'[t] = NoTracking
        /\ \A u \in Tickets \ {t} : tickets'[u] = tickets[u] /\ tracking'[u] = tracking[u]
    BY <1>1, <1>8 DEF Delete, NoTicket
  <2> QED
    BY <1>8, <2>1 DEF Delete, RowsStay
<1> QED
  BY <1>3, <1>4, <1>5, <1>6, <1>7, <1>8 DEF Around

LEMMA QuietAround == ASSUME SafeInv, SafeInv', TellInv, Around PROVE TellInv'
BY AroundStays, QuietKeeps DEF RowsStay, Quiet, SameVerdict

LEMMA QuietRequests ==
  ASSUME OneEngine, SafeInv, SafeInv', TellInv, NEW w \in Workers,
         \/ StartRun(w) \/ ReadTracking(w) \/ AssignDefault(w) \/ ReadTickets(w)
         \/ WritePause(w) \/ WriteResume(w) \/ RecordPause(w) \/ RowGone(w)
         \/ RunFails(w) \/ EndRun(w)
  PROVE  TellInv'
<1>1. /\ tickets \in [Tickets -> TicketRow] /\ tracking \in [Tickets -> TrackingRow]
      /\ req \in [Workers -> Request] /\ req[w] \in Request /\ Shape(req[w])
      /\ req'[w] \in Request /\ Nil \notin {"run", "pause", "resume"}
  BY ConstantsOK DEF SafeInv, TypeInv, TypeOK
<1>2. /\ Idle.op # "run" /\ Idle.pc = "idle"
      /\ \A t \in Tickets : SameVerdict(tracking[t], tracking[t])
  BY <1>1, EmptyRows DEF SameVerdict
<1>3. ASSUME Finish(w), UNCHANGED <<tickets, tracking, told, log>>,
             req[w].pc \notin {"notify", "log"}
      PROVE  TellInv'
  BY <1>2, <1>3, QuietRequest DEF Finish
<1>4. CASE StartRun(w)
  <2>1. PICK p \in Policies \cup {Nil} :
          req' = [req EXCEPT ![w] = [Idle EXCEPT
            !.op = "run", !.pc = "assign", !.at = now, !.policy = p]]
    BY <1>4 DEF StartRun
  <2> DEFINE r == [Idle EXCEPT !.op = "run", !.pc = "assign", !.at = now, !.policy = p]
  <2>2. r.pc = "assign"
    BY DEF Idle
  <2> HIDE DEF r
  <2> QED
    BY <1>2, <1>4, <2>1, <2>2, QuietRequest DEF StartRun, r
<1>5. CASE ReadTracking(w)
  <2>1. PICK op \in Handlers \cap {"pause", "resume"}, t \in Tickets :
          req' = [req EXCEPT ![w] = [Idle EXCEPT
            !.op = op, !.pc = "write", !.at = now, !.tk = t, !.seen[t] = tracking[t]]]
    BY <1>5 DEF ReadTracking
  <2> DEFINE r == [Idle EXCEPT !.op = op, !.pc = "write", !.at = now, !.tk = t,
                               !.seen[t] = tracking[t]]
  <2>2. r.pc = "write" /\ r.op = op
    BY DEF Idle
  <2> HIDE DEF r
  <2> QED
    BY <1>2, <1>5, <2>1, <2>2, QuietRequest DEF ReadTracking, r
<1>6. CASE AssignDefault(w)
  <2>1. /\ req' = [req EXCEPT ![w] = [req[w] EXCEPT !.pc = "tickets"]]
        /\ [req[w] EXCEPT !.pc = "tickets"].pc = "tickets"
    BY <1>1, <1>6 DEF AssignDefault, Request
  <2>2. \A t \in Tickets : [tickets[t] EXCEPT !.policy = req[w].policy].life = tickets[t].life
    BY <1>1 DEF TicketRow
  <2>3. \A t \in Tickets : tickets'[t].life = tickets[t].life
    BY <1>6, <2>2 DEF AssignDefault
  <2>4. w \in Engines /\ req[w].pc = "assign"
    BY <1>6 DEF AssignDefault, At, TellInv, RunsAreEngines
  <2> QED
    BY <1>2, <1>6, <2>1, <2>3, <2>4, QuietRequest DEF AssignDefault
<1>7. CASE ReadTickets(w)
  <2>1. PICK rows : req' = [req EXCEPT ![w] = [req[w] EXCEPT
          !.pc = "trackings", !.todo = Watched, !.rows = rows]]
    BY <1>7 DEF ReadTickets
  <2> DEFINE r == [req[w] EXCEPT !.pc = "trackings", !.todo = Watched, !.rows = rows]
  <2>2. r.pc = "trackings"
    BY <1>1 DEF Request
  <2>3. w \in Engines /\ req[w].pc = "tickets"
    BY <1>7 DEF ReadTickets, At, TellInv, RunsAreEngines
  <2> HIDE DEF r
  <2> QED
    BY <1>2, <1>7, <2>1, <2>2, <2>3, QuietRequest DEF ReadTickets, r
<1>8. ASSUME At(w, req[w].op, "write"), req[w].op \in {"pause", "resume"},
             req' = [req EXCEPT ![w] = [req[w] EXCEPT !.pc = "record"]],
             UNCHANGED <<tickets, told, log>>, tracking[req[w].tk].exists,
             NEW row, tracking' = [tracking EXCEPT ![req[w].tk] = row],
             SameVerdict(tracking[req[w].tk], row)
      PROVE  TellInv'
  <2>1. [req[w] EXCEPT !.pc = "record"].pc = "record" /\ [req[w] EXCEPT !.pc = "record"].op # "run"
    BY <1>1, <1>8 DEF Request
  <2>2. tickets[req[w].tk].life # "deleted" /\ req[w].tk \in Tickets
    BY <1>1, <1>8 DEF SafeInv, RowInv, Live, NoTracking, Shape, At
  <2>3. \A t \in Tickets : /\ SameVerdict(tracking[t], tracking'[t])
                           /\ tickets[t].life = "deleted" => tracking'[t] = tracking[t]
    BY <1>1, <1>2, <1>8, <2>2
  <2> QED
    BY <1>8, <2>1, <2>3, QuietRequest DEF At
<1>9. CASE WritePause(w)
  <2>1. req[w].tk \in Tickets
    BY <1>1, <1>9 DEF WritePause, At, Shape
  <2>2. SameVerdict(tracking[req[w].tk], [tracking[req[w].tk] EXCEPT !.pausedAt = req[w].at])
    BY <1>1, <2>1 DEF SameVerdict, TrackingRow
  <2> QED
    BY <1>8, <1>9, <2>2 DEF WritePause, At
<1>10. CASE WriteResume(w)
  <2>1. req[w].tk \in Tickets
    BY <1>1, <1>10 DEF WriteResume, At, Shape
  <2>2. PICK paused, response, resolution :
          tracking' = [tracking EXCEPT ![req[w].tk] = [tracking[req[w].tk] EXCEPT
            !.pausedAt = Nil, !.paused = paused, !.response = response,
            !.resolution = resolution]]
    BY <1>10 DEF WriteResume
  <2>3. SameVerdict(tracking[req[w].tk], [tracking[req[w].tk] EXCEPT
            !.pausedAt = Nil, !.paused = paused, !.response = response,
            !.resolution = resolution])
    BY <1>1, <2>1 DEF SameVerdict, TrackingRow
  <2> QED
    BY <1>8, <1>10, <2>2, <2>3 DEF WriteResume, At
<1>11. CASE RecordPause(w) \/ RowGone(w)
  <2>1. req[w].pc \notin {"notify", "log"}
    BY <1>1, <1>11 DEF RecordPause, RowGone, Shape
  <2> QED
    BY <1>3, <1>11, <2>1 DEF RecordPause, RowGone
<1>12. CASE RunFails(w) \/ EndRun(w)
  <2>1. req[w].op = "run" /\ req[w].pc = "loop" /\ UNCHANGED <<tickets, tracking, told, log>>
    BY <1>12 DEF RunFails, EndRun, At
  <2>2. CASE Finish(w)
    BY <1>3, <2>1, <2>2
  <2>3. CASE req' = [v \in Workers |-> Idle]
    <3>1. \A v \in Workers : req[v].pc \notin {"notify", "log"}
      BY <2>1, OtherWorkers DEF SafeInv, TellInv
    <3>2. Quiet
      BY <1>2, <2>1, <2>3, <3>1 DEF Quiet
    <3> QED
      BY <3>2, QuietKeeps
  <2> QED
    BY <1>12, <2>2, <2>3 DEF RunFails, EndRun
<1> QED
  BY <1>4, <1>5, <1>6, <1>7, <1>9, <1>10, <1>11, <1>12

\* A step of the run reads, evaluates or reports: the other workers stand still, and
\* neither they report nor do they hold what the run has to evaluate.
LEMMA EngineStep ==
  ASSUME OneEngine, SafeInv, SafeInv', TellInv, NEW w \in Workers, NEW r \in Request,
         req[w].op = "run", req[w].pc \in {"trackings", "loop", "notify", "log"},
         r.op = "run", req' = [req EXCEPT ![w] = r], UNCHANGED tickets,
         NothingBefore', BreachDated', SeenAgrees(req[w])', ReportAgrees(req[w])',
         \A t \in Tickets : tracking'[t].exists /\ log'[t] # NoChange /\ ~Reporting(w, t)' =>
           /\ log'[t].to = tracking'[t].status
           /\ tracking'[t].status # "ON_TRACK" => told'[t] = tracking'[t].status
  PROVE  TellInv'
<1>1. req'[w] = r /\ \A v \in Workers \ {w} : req'[v] = req[v]
  BY DEF SafeInv, TypeInv, TypeOK
<1>2. RunsAreEngines'
  BY <1>1 DEF TellInv, RunsAreEngines
<1>3. ChangesTold'
  BY DEF ChangesTold
<1>4. ASSUME NEW v \in Workers \ {w} PROVE SeenAgrees(req[v])' /\ ReportAgrees(req[v])'
  <2>1. req[v].op # "run" /\ req[v].pc \notin {"loop", "notify", "log"} /\ req'[v] = req[v]
    BY <1>1, OtherWorkers DEF SafeInv, TellInv
  <2> QED
    BY <2>1 DEF SeenAgrees, ReportAgrees
<1> QED
  BY <1>2, <1>3, <1>4 DEF TellInv

LEMMA ReadTrackingsTells ==
  ASSUME OneEngine, SafeInv, SafeInv', TellInv, NEW w \in Workers, ReadTrackings(w)
  PROVE  TellInv'
<1>1. /\ req[w] \in Request /\ req'[w] \in Request /\ req[w].op = "run"
      /\ req[w].pc = "trackings" /\ req \in [Workers -> Request]
      /\ UNCHANGED <<now, policies, tickets, tracking, told, log, ledger>>
  BY DEF SafeInv, TypeInv, TypeOK, ReadTrackings, At
<1> DEFINE seen == [t \in Tickets |-> IF t \in req[w].todo THEN tracking[t] ELSE NoTracking]
           r == [req[w] EXCEPT !.pc = "loop", !.seen = seen]
<1>2. req' = [req EXCEPT ![w] = r]
  BY DEF ReadTrackings
<1>3. \A t \in req[w].todo : t \in Tickets /\ SameVerdict(seen[t], tracking[t])
  BY <1>1 DEF SameVerdict, Request
<1> HIDE DEF seen
<1>4. r.op = "run" /\ r.pc = "loop" /\ r.todo = req[w].todo /\ r.seen = seen
  BY <1>1 DEF Request
<1> HIDE DEF r
<1>5. req'[w] = r
  BY <1>1, <1>2
<1>6. SeenAgrees(req[w])' /\ ReportAgrees(req[w])'
  BY <1>1, <1>3, <1>4, <1>5 DEF SeenAgrees, ReportAgrees
<1>7. NothingBefore' /\ BreachDated'
  BY <1>1 DEF TellInv, NothingBefore, BreachDated
<1>8. ASSUME NEW t \in Tickets, tracking'[t].exists, log'[t] # NoChange
      PROVE  /\ log'[t].to = tracking'[t].status
             /\ tracking'[t].status # "ON_TRACK" => told'[t] = tracking'[t].status
  <2>1. \A v \in Workers : ~Reporting(v, t)
    <3>1. \A v \in Workers \ {w} : ~Reporting(v, t)
      BY <1>1, OtherWorkers DEF SafeInv, TellInv, Reporting
    <3> QED
      BY <1>1, <3>1 DEF Reporting
  <2> QED
    BY <1>1, <1>8, <2>1 DEF TellInv, ChangesTold
<1> QED
  BY <1>1, <1>2, <1>4, <1>5, <1>6, <1>7, <1>8, EngineStep

LEMMA NotifyTells ==
  ASSUME OneEngine, SafeInv, SafeInv', TellInv, NEW w \in Workers, Notify(w)
  PROVE  TellInv'
<1>1. /\ req[w] \in Request /\ req'[w] \in Request /\ req[w].op = "run"
      /\ req[w].pc = "notify" /\ req \in [Workers -> Request]
      /\ told \in [Tickets -> SlaStatus \cup {Nil}] /\ req[w].tk \in Tickets
      /\ UNCHANGED <<now, policies, tickets, tracking, log, ledger>>
  BY DEF SafeInv, TypeInv, TypeOK, Notify, At, Shape
<1> DEFINE r == [req[w] EXCEPT !.pc = "log"]
<1>2. req' = [req EXCEPT ![w] = r]
  BY DEF Notify
<1>3. /\ r.op = "run" /\ r.pc = "log" /\ r.todo = req[w].todo /\ r.seen = req[w].seen
      /\ r.tk = req[w].tk /\ r.from = req[w].from /\ r.to = req[w].to
  BY <1>1 DEF Request
<1> HIDE DEF r
<1>4. req'[w] = r
  BY <1>1, <1>2
<1>5. /\ r.to # "ON_TRACK" => told'[r.tk] = r.to
      /\ \A t \in Tickets \ {r.tk} : told'[t] = told[t]
  BY <1>1, <1>3 DEF Notify
<1>6. SeenAgrees(req[w]) /\ ReportAgrees(req[w])
  BY DEF TellInv
<1>7. SeenAgrees(req[w])'
  BY <1>1, <1>3, <1>4, <1>6 DEF SeenAgrees
<1>8. ReportAgrees(req[w])'
  BY <1>1, <1>3, <1>4, <1>5, <1>6 DEF ReportAgrees
<1>9. NothingBefore' /\ BreachDated'
  BY <1>1 DEF TellInv, NothingBefore, BreachDated
<1>10. ASSUME NEW t \in Tickets, tracking'[t].exists, log'[t] # NoChange, ~Reporting(w, t)'
       PROVE  /\ log'[t].to = tracking'[t].status
              /\ tracking'[t].status # "ON_TRACK" => told'[t] = tracking'[t].status
  <2>1. t # r.tk
    BY <1>3, <1>4, <1>10 DEF Reporting
  <2>2. \A v \in Workers : ~Reporting(v, t)
    <3>1. \A v \in Workers \ {w} : ~Reporting(v, t)
      BY <1>1, OtherWorkers DEF SafeInv, TellInv, Reporting
    <3> QED
      BY <1>3, <2>1, <3>1 DEF Reporting
  <2> QED
    BY <1>1, <1>5, <1>10, <2>1, <2>2 DEF TellInv, ChangesTold
<1> QED
  BY <1>1, <1>2, <1>3, <1>4, <1>7, <1>8, <1>9, <1>10, EngineStep

LEMMA LogChangeTells ==
  ASSUME OneEngine, SafeInv, SafeInv', TellInv, NEW w \in Workers, LogChange(w)
  PROVE  TellInv' /\ \A t \in Tickets : log'[t] # log[t] /\ log[t] # NoChange
                                          => log'[t].from = log[t].to
<1>1. /\ req[w] \in Request /\ req'[w] \in Request /\ req[w].op = "run"
      /\ req[w].pc = "log" /\ req \in [Workers -> Request]
      /\ log \in [Tickets -> [from: SlaStatus \cup {Nil}, to: SlaStatus \cup {Nil}]]
      /\ req[w].tk \in Tickets
      /\ UNCHANGED <<now, policies, tickets, tracking, told, ledger>>
  BY DEF SafeInv, TypeInv, TypeOK, LogChange, At, Shape
<1> DEFINE r == [req[w] EXCEPT !.pc = "loop", !.tk = Nil, !.from = Nil, !.to = Nil]
<1>2. req' = [req EXCEPT ![w] = r]
  BY DEF LogChange
<1>3. r.op = "run" /\ r.pc = "loop" /\ r.todo = req[w].todo /\ r.seen = req[w].seen
  BY <1>1 DEF Request
<1> HIDE DEF r
<1>4. req'[w] = r
  BY <1>1, <1>2
<1>5. /\ log'[req[w].tk] = [from |-> req[w].from, to |-> req[w].to]
      /\ \A t \in Tickets \ {req[w].tk} : log'[t] = log[t]
  BY <1>1 DEF LogChange
<1>6. SeenAgrees(req[w]) /\ ReportAgrees(req[w])
  BY DEF TellInv
<1>7. SeenAgrees(req[w])' /\ ReportAgrees(req[w])'
  BY <1>1, <1>3, <1>4, <1>6 DEF SeenAgrees, ReportAgrees
<1>8. tracking[req[w].tk].exists => tickets[req[w].tk].life # "deleted"
  BY <1>1 DEF SafeInv, RowInv, Live, NoTracking
<1>9. BreachDated'
  BY <1>1 DEF TellInv, BreachDated
<1>10. NothingBefore'
  BY <1>1, <1>5, <1>6 DEF TellInv, NothingBefore, ReportAgrees
<1>11. ASSUME NEW t \in Tickets, tracking'[t].exists, log'[t] # NoChange
       PROVE  /\ log'[t].to = tracking'[t].status
              /\ tracking'[t].status # "ON_TRACK" => told'[t] = tracking'[t].status
  <2>1. CASE t = req[w].tk
    BY <1>1, <1>5, <1>6, <1>8, <1>11, <2>1 DEF ReportAgrees
  <2>2. CASE t # req[w].tk
    <3>1. \A v \in Workers \ {w} : ~Reporting(v, t)
      BY <1>1, OtherWorkers DEF SafeInv, TellInv, Reporting
    <3>2. \A v \in Workers : ~Reporting(v, t)
      BY <2>2, <3>1 DEF Reporting
    <3> QED
      BY <1>1, <1>5, <1>11, <2>2, <3>2 DEF TellInv, ChangesTold
  <2> QED
    BY <2>1, <2>2
<1>12. TellInv'
  BY <1>1, <1>2, <1>3, <1>4, <1>7, <1>9, <1>10, <1>11, EngineStep
<1>13. \A t \in Tickets : log'[t] # log[t] /\ log[t] # NoChange => log'[t].from = log[t].to
  BY <1>1, <1>5, <1>6 DEF ReportAgrees
<1> QED
  BY <1>12, <1>13

\* An evaluation: what is written follows what was read, which is what there was.
LEMMA EvaluateTells ==
  ASSUME OneEngine, SafeInv, SafeInv', TellInv, NEW w \in Workers, Evaluate(w)
  PROVE  TellInv' /\ \A t \in Tickets :
                       tracking[t].status = "BREACHED" /\ tracking'[t].status = "BREACHED"
                         => tracking'[t].breachedAt = tracking[t].breachedAt
<1>1. /\ req[w] \in Request /\ req'[w] \in Request /\ req[w].op = "run"
      /\ req[w].pc = "loop" /\ req \in [Workers -> Request]
      /\ tracking \in [Tickets -> TrackingRow] /\ req[w].at # Nil
      /\ UNCHANGED <<now, policies, tickets, told, log, ledger>>
  <2>1. Nil \notin Time
    BY ConstantsOK DEF Time
  <2>2. req[w] \in Request /\ req'[w] \in Request /\ req \in [Workers -> Request]
    BY DEF SafeInv, TypeInv, TypeOK
  <2>3. req[w].at # Nil
    BY <2>1, <2>2 DEF Request
  <2> QED
    BY <2>2, <2>3 DEF SafeInv, TypeInv, TypeOK, Evaluate, At
<1> DEFINE row(t) == Evaluated(req[w].rows[t], req[w].seen[t], req[w].at)
           Silent(t) == [req[w] EXCEPT !.todo = @ \ {t}]
           Telling(t) == [req[w] EXCEPT !.todo = @ \ {t}, !.pc = "notify", !.tk = t,
                                        !.from = req[w].seen[t].status,
                                        !.to = row(t).status]
<1>2. PICK t \in req[w].todo :
        /\ Live(t) /\ tracking' = [tracking EXCEPT ![t] = row(t)]
        /\ req' = [req EXCEPT ![w] =
             IF req[w].seen[t].exists /\ req[w].seen[t].status # row(t).status
             THEN Telling(t) ELSE Silent(t)]
  BY DEF Evaluate
<1>3. t \in Tickets /\ req[w].seen[t] \in TrackingRow /\ tickets[t].life # "deleted"
  BY <1>1, <1>2 DEF Request, Live
<1> DEFINE next == row(t)
           seen == req[w].seen[t]
<1>4. /\ next.exists
      /\ next.breachedAt = IF next.status # "BREACHED" THEN Nil
                           ELSE IF seen.breachedAt # Nil THEN seen.breachedAt ELSE req[w].at
  BY DEF Evaluated
<1>5. tracking'[t] = next /\ \A u \in Tickets \ {t} : tracking'[u] = tracking[u]
  BY <1>1, <1>2, <1>3
<1>6. SameVerdict(seen, tracking[t])
  BY <1>1, <1>2, <1>3 DEF TellInv, SeenAgrees
<1>7. /\ Silent(t).op = "run" /\ Silent(t).pc = "loop"
      /\ Silent(t).todo = req[w].todo \ {t} /\ Silent(t).seen = req[w].seen
  BY <1>1 DEF Request
<1>8. /\ Telling(t).op = "run" /\ Telling(t).pc = "notify" /\ Telling(t).tk = t
      /\ Telling(t).todo = req[w].todo \ {t} /\ Telling(t).seen = req[w].seen
      /\ Telling(t).from = seen.status /\ Telling(t).to = next.status
  BY <1>1 DEF Request
<1> HIDE DEF row, Silent, Telling, next, seen
<1>9. ASSUME NEW u \in Tickets PROVE \A v \in Workers : ~Reporting(v, u)
  <2>1. \A v \in Workers \ {w} : ~Reporting(v, u)
    BY <1>1, OtherWorkers DEF SafeInv, TellInv, Reporting
  <2> QED
    BY <1>1, <2>1 DEF Reporting
<1>10. BreachDated'
  BY <1>1, <1>4, <1>5 DEF TellInv, BreachDated
<1>11. NothingBefore'
  BY <1>1, <1>4, <1>5 DEF TellInv, NothingBefore
<1>12. ASSUME NEW u \in Tickets, tracking'[u].exists, log'[u] # NoChange,
              u = t => next.status = seen.status
       PROVE  /\ log'[u].to = tracking'[u].status
              /\ tracking'[u].status # "ON_TRACK" => told'[u] = tracking'[u].status
  <2>1. tracking[u].exists
    BY <1>1, <1>3, <1>5, <1>12 DEF TellInv, NothingBefore
  <2>2. tracking'[u].status = tracking[u].status
    BY <1>5, <1>6, <1>12 DEF SameVerdict, next
  <2> QED
    BY <1>1, <1>9, <1>12, <2>1, <2>2 DEF TellInv, ChangesTold
<1>13. SeenAgrees(req[w]) /\ \A u \in req[w].todo : u \in Tickets
  BY <1>1 DEF TellInv, Request
<1>14. ASSUME NEW r \in Request, r.op = "run", req' = [req EXCEPT ![w] = r],
              SeenAgrees(req[w])', ReportAgrees(req[w])',
              Reporting(w, t)' \/ (log'[t] # NoChange => next.status = seen.status)
       PROVE  TellInv'
  <2>1. \A u \in Tickets : tracking'[u].exists /\ log'[u] # NoChange /\ ~Reporting(w, u)' =>
           /\ log'[u].to = tracking'[u].status
           /\ tracking'[u].status # "ON_TRACK" => told'[u] = tracking'[u].status
    BY <1>12, <1>14
  <2>2. UNCHANGED tickets /\ req[w].pc \in {"trackings", "loop", "notify", "log"}
    BY <1>1
  <2> QED
    BY <1>1, <1>10, <1>11, <1>14, <2>1, <2>2, EngineStep
<1>15. ASSUME seen.exists, seen.status # next.status PROVE TellInv'
  <2>1. /\ req' = [req EXCEPT ![w] = Telling(t)] /\ req'[w] = Telling(t)
        /\ Telling(t) \in Request
    BY <1>1, <1>2, <1>15 DEF seen, next
  <2>2. SeenAgrees(req[w])'
    BY <1>1, <1>5, <1>8, <1>13, <2>1 DEF SeenAgrees
  <2>3. ReportAgrees(req[w])'
    <3>1. log[t] # NoChange => log[t].to = seen.status
      BY <1>3, <1>6, <1>9, <1>15 DEF TellInv, ChangesTold, SameVerdict
    <3> QED
      BY <1>1, <1>4, <1>5, <1>8, <2>1, <3>1 DEF ReportAgrees
  <2>4. Reporting(w, t)'
    BY <1>8, <2>1 DEF Reporting
  <2> QED
    BY <1>8, <1>14, <2>1, <2>2, <2>3, <2>4
<1>16. ASSUME ~(seen.exists /\ seen.status # next.status) PROVE TellInv'
  <2>1. /\ req' = [req EXCEPT ![w] = Silent(t)] /\ req'[w] = Silent(t)
        /\ Silent(t) \in Request
    BY <1>1, <1>2, <1>16 DEF seen, next
  <2>2. SeenAgrees(req[w])' /\ ReportAgrees(req[w])'
    BY <1>1, <1>5, <1>7, <1>13, <2>1 DEF SeenAgrees, ReportAgrees
  <2>3. log'[t] # NoChange => next.status = seen.status
    BY <1>1, <1>3, <1>6, <1>16 DEF TellInv, NothingBefore, SameVerdict
  <2> QED
    BY <1>7, <1>14, <2>1, <2>2, <2>3
<1>17. ASSUME NEW u \in Tickets, tracking[u].status = "BREACHED",
              tracking'[u].status = "BREACHED"
       PROVE  tracking'[u].breachedAt = tracking[u].breachedAt
  BY <1>4, <1>5, <1>6, <1>17 DEF TellInv, BreachDated, SameVerdict
<1> QED
  BY <1>15, <1>16, <1>17

LEMMA TellStep ==
  ASSUME OneEngine, SafeInv, SafeInv', TellInv, [Next]_vars
  PROVE  TellInv'
<1>1. CASE UNCHANGED vars
  BY <1>1, QuietKeeps DEF vars, Quiet, TellInv, NothingBefore, BreachDated, SameVerdict
<1>2. CASE Around
  BY <1>2, QuietAround
<1>3. ASSUME NEW w \in Workers, StartRun(w) \/ ReadTracking(w) \/ Proceed(w) \/ Die(w)
      PROVE  TellInv'
  <2>1. ~Die(w)
    BY DEF Die, OneEngine
  <2> QED
    BY <1>3, <2>1, QuietRequests, ReadTrackingsTells, EvaluateTells, NotifyTells,
       LogChangeTells DEF Proceed
<1> QED
  BY <1>1, <1>2, <1>3 DEF Next

\* The inductive invariant of what the engine tells.
THEOREM TellInvariant == ASSUME OneEngine PROVE Spec => [](SafeInv /\ TellInv)
<1>1. Init => SafeInv /\ TellInv
  BY SafeInit, TellInit
<1>2. SafeInv /\ TellInv /\ [Next]_vars => (SafeInv /\ TellInv)'
  BY SafeStep, TellStep
<1> QED
  BY <1>1, <1>2, PTL DEF Spec

\* The latest record and the latest notification tell the status there is, except
\* while the run is about to say so: for one engine, whatever else is asked for.
THEOREM ChangesAreTold == ASSUME OneEngine PROVE Spec => []ChangesTold
<1>1. TellInv => ChangesTold
  BY DEF TellInv
<1> QED
  BY <1>1, TellInvariant, PTL

\* The records of the changes of one ticket form a chain.
THEOREM ChangesFormAChain == ASSUME OneEngine PROVE Spec => ChangesChained
<1>1. SafeInv /\ SafeInv' /\ TellInv /\ [Next]_vars =>
        [\A t \in Tickets : log'[t] # log[t] /\ log[t] # NoChange =>
           log'[t].from = log[t].to]_vars
  <2> SUFFICES ASSUME SafeInv, SafeInv', TellInv, Next
               PROVE  \A t \in Tickets : log'[t] # log[t] /\ log[t] # NoChange =>
                        log'[t].from = log[t].to
    OBVIOUS
  <2>1. CASE \E w \in Workers : LogChange(w)
    BY <2>1, LogChangeTells
  <2>2. CASE ~\E w \in Workers : LogChange(w)
    <3>1. log' = log
      <4>1. CASE Around
        BY <4>1 DEF Around, Tick, SavePolicy, Open, Answer, Patch, Decide, Delete
      <4>2. ASSUME NEW w \in Workers, StartRun(w) \/ ReadTracking(w) \/ Die(w)
            PROVE  log' = log
        BY <4>2 DEF StartRun, ReadTracking, Die
      <4>3. ASSUME NEW w \in Workers, Proceed(w), ~LogChange(w) PROVE log' = log
        BY <4>3 DEF Proceed, AssignDefault, ReadTickets, ReadTrackings, Evaluate, RunFails,
           Notify, EndRun, WritePause, WriteResume, RecordPause, RowGone
      <4> QED
        BY <2>2, <4>1, <4>2, <4>3 DEF Next
    <3> QED
      BY <3>1
  <2> QED
    BY <2>1, <2>2
<1> QED
  BY <1>1, TellInvariant, PTL DEF Spec, ChangesChained

\* Once a ticket is BREACHED, the date of the breach stays.
THEOREM BreachesKeepTheirDate == ASSUME OneEngine PROVE Spec => BreachTimeKept
<1>1. SafeInv /\ SafeInv' /\ TellInv /\ [Next]_vars =>
        [\A t \in Tickets :
           tracking[t].status = "BREACHED" /\ tracking'[t].status = "BREACHED"
             => tracking'[t].breachedAt = tracking[t].breachedAt]_vars
  <2> SUFFICES ASSUME SafeInv, SafeInv', TellInv, Next, NEW t \in Tickets,
                      tracking[t].status = "BREACHED", tracking'[t].status = "BREACHED"
               PROVE  tracking'[t].breachedAt = tracking[t].breachedAt
    OBVIOUS
  <2>1. tracking \in [Tickets -> TrackingRow] /\ \A w \in Workers : Shape(req[w])
    BY DEF SafeInv, TypeInv, TypeOK
  <2>2. CASE \E w \in Workers : Evaluate(w)
    BY <2>2, EvaluateTells
  <2>3. ASSUME NEW u \in Tickets, NEW row, row.breachedAt = tracking[u].breachedAt,
               tracking' = [tracking EXCEPT ![u] = row]
        PROVE  tracking'[t].breachedAt = tracking[t].breachedAt
    BY <2>1, <2>3
  <2>4. CASE \E w \in Workers : WritePause(w) \/ WriteResume(w)
    <3>1. PICK w \in Workers : WritePause(w) \/ WriteResume(w)
      BY <2>4
    <3>2. req[w].tk \in Tickets
      BY <2>1, <3>1 DEF WritePause, WriteResume, At, Shape
    <3>3. CASE WritePause(w)
      <4>1. [tracking[req[w].tk] EXCEPT !.pausedAt = req[w].at].breachedAt
              = tracking[req[w].tk].breachedAt
        BY <2>1, <3>2 DEF TrackingRow
      <4> QED
        BY <2>3, <3>2, <3>3, <4>1 DEF WritePause
    <3>4. CASE WriteResume(w)
      <4>1. PICK paused, response, resolution :
              tracking' = [tracking EXCEPT ![req[w].tk] = [tracking[req[w].tk] EXCEPT
                !.pausedAt = Nil, !.paused = paused, !.response = response,
                !.resolution = resolution]]
        BY <3>4 DEF WriteResume
      <4>2. [tracking[req[w].tk] EXCEPT !.pausedAt = Nil, !.paused = paused,
               !.response = response, !.resolution = resolution].breachedAt
              = tracking[req[w].tk].breachedAt
        BY <2>1, <3>2 DEF TrackingRow
      <4> QED
        BY <2>3, <3>2, <4>1, <4>2
    <3> QED
      BY <3>1, <3>3, <3>4
  <2>5. CASE \E u \in Tickets : Delete(u)
    BY <2>1, <2>5 DEF Delete, NoTracking
  <2>6. CASE UNCHANGED tracking
    BY <2>6
  <2>7. UNCHANGED tracking \/ (\E u \in Tickets : Delete(u))
          \/ \E w \in Workers : Evaluate(w) \/ WritePause(w) \/ WriteResume(w)
    <3>1. CASE Around
      BY <3>1 DEF Around, Tick, SavePolicy, Open, Answer, Patch, Decide
    <3>2. ASSUME NEW w \in Workers, StartRun(w) \/ ReadTracking(w) \/ Die(w)
          PROVE  UNCHANGED tracking
      BY <3>2 DEF StartRun, ReadTracking, Die
    <3>3. ASSUME NEW w \in Workers, Proceed(w)
          PROVE  UNCHANGED tracking \/ Evaluate(w) \/ WritePause(w) \/ WriteResume(w)
      BY <3>3 DEF Proceed, AssignDefault, ReadTickets, ReadTrackings, RunFails, Notify,
         LogChange, EndRun, RecordPause, RowGone
    <3> QED
      BY <3>1, <3>2, <3>3 DEF Next
  <2> QED
    BY <2>2, <2>4, <2>5, <2>6, <2>7
<1> QED
  BY <1>1, TellInvariant, PTL DEF Spec, BreachTimeKept

-----------------------------------------------------------------------------
(***************************************************************************)
(* Pauses and resumptions, when one run or request is served at a time and *)
(* none of them is interrupted.                                            *)
(***************************************************************************)
OneAtATime == ~Crashes /\ \A v, w \in Workers : v = w

\* Nobody else writes a tracking between the read and the write.
NothingMeanwhile(r) ==
  /\ r.op = "run" /\ r.pc \in {"loop", "notify", "log"} =>
       \A t \in r.todo : tickets[t].life # "deleted" => r.seen[t] = tracking[t]
  /\ r.pc = "write" =>
       (tickets[r.tk].life # "deleted" => r.seen[r.tk] = tracking[r.tk])

\* What is about to be recorded has been done.
PauseWritten(r) ==
  r.pc = "record" /\ tickets[r.tk].life # "deleted" =>
    tracking[r.tk].exists /\ ((tracking[r.tk].pausedAt # Nil) <=> (r.op = "pause"))

\* A ticket that has never been evaluated has never been paused.
NeverPaused ==
  \A t \in Tickets : tickets[t].life # "deleted" /\ ~tracking[t].exists =>
    tracking[t] = NoTracking /\ ledger[t] # "SLA_PAUSED"

\* A breach has a date, and nothing else has one.
OnlyBreachesDated ==
  \A t \in Tickets : (tracking[t].status = "BREACHED") <=> (tracking[t].breachedAt # Nil)

PauseInv ==
  /\ NeverPaused /\ OnlyBreachesDated /\ PausesAccounted
  /\ \A w \in Workers : NothingMeanwhile(req[w]) /\ PauseWritten(req[w])

LEMMA PauseInit == Init => PauseInv
<1> SUFFICES ASSUME Init PROVE PauseInv
  OBVIOUS
<1>1. \A w \in Workers : req[w].op = Nil /\ req[w].pc = "idle"
  BY EmptyRows DEF Init
<1>2. \A t \in Tickets : /\ ~tracking[t].exists /\ tracking[t].status = "ON_TRACK"
                         /\ tracking[t].breachedAt = Nil /\ tracking[t] = NoTracking
                         /\ ledger[t] = Nil
  BY DEF Init, NoTracking
<1>3. Nil # "run"
  BY ConstantsOK
<1>4. \A t \in Tickets : ledger[t] # "SLA_PAUSED"
  BY <1>2, ConstantsOK
<1> QED
  BY <1>1, <1>2, <1>3, <1>4 DEF PauseInv, NeverPaused, OnlyBreachesDated, PausesAccounted,
     NothingMeanwhile, PauseWritten

\* What a step does that neither pauses nor evaluates: rows of deleted tickets go,
\* and nothing is begun that has been read.
Calm ==
  /\ UNCHANGED ledger
  /\ \A t \in Tickets :
       \/ tickets'[t].life = "deleted" /\ (tracking'[t] = tracking[t] \/ tracking'[t] = NoTracking)
       \/ tickets[t].life # "deleted" /\ tracking'[t] = tracking[t]
  /\ \A v \in Workers :
       \/ req'[v] = req[v]
       \/ /\ req[v].pc = "record" => ~Live(req[v].tk)
          /\ req'[v].pc \notin {"write", "record"}
          /\ req'[v].op = "run" /\ req'[v].pc \in {"loop", "notify", "log"} =>
               /\ req[v].op = "run" /\ req[v].pc \in {"loop", "notify", "log"}
               /\ req'[v].todo = req[v].todo /\ req'[v].seen = req[v].seen

LEMMA CalmKeeps ==
  ASSUME SafeInv, SafeInv', PauseInv, Calm
  PROVE  PauseInv'
<1>1. \A t \in Tickets : /\ tracking'[t].exists => tickets'[t].life = "live"
                         /\ tracking[t].exists => Live(t)
  BY DEF SafeInv, RowInv, Live, NoTracking
<1>2. NeverPaused'
  BY DEF PauseInv, NeverPaused, Calm
<1>3. OnlyBreachesDated'
  BY DEF PauseInv, OnlyBreachesDated, Calm, NoTracking
<1>4. PausesAccounted'
  <2> SUFFICES ASSUME NEW t \in Tickets, tracking'[t].exists,
                      \A w \in Workers : ~(req'[w].pc = "record" /\ req'[w].tk = t)
               PROVE  (tracking'[t].pausedAt # Nil) = (ledger'[t] = "SLA_PAUSED")
    BY DEF PausesAccounted
  <2>1. tracking'[t] = tracking[t] /\ tracking[t].exists
    BY <1>1 DEF Calm
  <2>2. \A w \in Workers : ~(req[w].pc = "record" /\ req[w].tk = t)
    BY <1>1, <2>1 DEF Calm
  <2> QED
    BY <2>1, <2>2 DEF PauseInv, PausesAccounted, Calm
<1>5. ASSUME NEW v \in Workers PROVE NothingMeanwhile(req[v])' /\ PauseWritten(req[v])'
  <2>1. /\ req[v] \in Request /\ req'[v] \in Request /\ Shape(req[v])'
        /\ NothingMeanwhile(req[v]) /\ PauseWritten(req[v])
    BY DEF SafeInv, TypeInv, TypeOK, PauseInv
  <2>2. CASE req'[v] = req[v]
    <3>1. NothingMeanwhile(req[v])'
      BY <2>1, <2>2 DEF NothingMeanwhile, Calm, Request, Shape
    <3>2. PauseWritten(req[v])'
      BY <2>1, <2>2 DEF PauseWritten, Calm, Shape
    <3> QED
      BY <3>1, <3>2
  <2>3. CASE req'[v] # req[v]
    <3>1. NothingMeanwhile(req[v])'
      BY <2>1, <2>3 DEF NothingMeanwhile, Calm, Request
    <3>2. PauseWritten(req[v])'
      BY <2>3 DEF PauseWritten, Calm
    <3> QED
      BY <3>1, <3>2
  <2> QED
    BY <2>2, <2>3
<1> QED
  BY <1>2, <1>3, <1>4, <1>5 DEF PauseInv

LEMMA CalmAround == ASSUME SafeInv, SafeInv', PauseInv, Around PROVE PauseInv'
BY AroundStays, CalmKeeps DEF RowsStay, Calm

LEMMA CalmRequests ==
  ASSUME OneAtATime, SafeInv, SafeInv', PauseInv, NEW w \in Workers,
         \/ StartRun(w) \/ AssignDefault(w) \/ ReadTickets(w) \/ Notify(w) \/ LogChange(w)
         \/ RunFails(w) \/ EndRun(w) \/ RowGone(w)
  PROVE  PauseInv'
<1>1. /\ tickets \in [Tickets -> TicketRow] /\ req \in [Workers -> Request]
      /\ req[w] \in Request /\ Shape(req[w]) /\ UNCHANGED <<tracking, ledger>>
      /\ \A v \in Workers : v = w
  BY DEF SafeInv, TypeInv, TypeOK, OneAtATime, StartRun, AssignDefault, ReadTickets, Notify,
     LogChange, RunFails, EndRun, RowGone
<1>2. ASSUME NEW r, req'[w] = r, r.pc \notin {"write", "record"},
             req[w].pc = "record" => ~Live(req[w].tk),
             r.op = "run" /\ r.pc \in {"loop", "notify", "log"} =>
               /\ req[w].op = "run" /\ req[w].pc \in {"loop", "notify", "log"}
               /\ r.todo = req[w].todo /\ r.seen = req[w].seen,
             \A t \in Tickets : tickets'[t].life = tickets[t].life
      PROVE  PauseInv'
  <2>1. Calm
    BY <1>1, <1>2 DEF Calm
  <2> QED
    BY <2>1, CalmKeeps
<1>3. Idle.pc = "idle"
  BY EmptyRows
<1>4. CASE StartRun(w)
  <2>1. PICK p \in Policies \cup {Nil} :
          req' = [req EXCEPT ![w] = [Idle EXCEPT
            !.op = "run", !.pc = "assign", !.at = now, !.policy = p]]
    BY <1>4 DEF StartRun
  <2> DEFINE r == [Idle EXCEPT !.op = "run", !.pc = "assign", !.at = now, !.policy = p]
  <2>2. r.pc = "assign" /\ req'[w] = r
    BY <1>1, <2>1 DEF Idle
  <2> HIDE DEF r
  <2> QED
    BY <1>2, <1>3, <1>4, <2>2 DEF StartRun
<1>5. CASE AssignDefault(w)
  <2> DEFINE r == [req[w] EXCEPT !.pc = "tickets"]
  <2>1. req'[w] = r /\ r.pc = "tickets" /\ req[w].pc = "assign"
    BY <1>1, <1>5 DEF AssignDefault, Request, At
  <2>2. \A t \in Tickets : [tickets[t] EXCEPT !.policy = req[w].policy].life = tickets[t].life
    BY <1>1 DEF TicketRow
  <2>3. \A t \in Tickets : tickets'[t].life = tickets[t].life
    BY <1>5, <2>2 DEF AssignDefault
  <2> HIDE DEF r
  <2> QED
    BY <1>2, <2>1, <2>3
<1>6. CASE ReadTickets(w)
  <2>1. PICK rows : req' = [req EXCEPT ![w] = [req[w] EXCEPT
          !.pc = "trackings", !.todo = Watched, !.rows = rows]]
    BY <1>6 DEF ReadTickets
  <2> DEFINE r == [req[w] EXCEPT !.pc = "trackings", !.todo = Watched, !.rows = rows]
  <2>2. req'[w] = r /\ r.pc = "trackings" /\ req[w].pc = "tickets"
    BY <1>1, <1>6, <2>1 DEF ReadTickets, Request, At
  <2> HIDE DEF r
  <2> QED
    BY <1>2, <1>6, <2>2 DEF ReadTickets
<1>7. CASE Notify(w)
  <2> DEFINE r == [req[w] EXCEPT !.pc = "log"]
  <2>1. /\ req'[w] = r /\ r.pc = "log" /\ req[w].pc = "notify" /\ req[w].op = "run"
        /\ r.todo = req[w].todo /\ r.seen = req[w].seen
    BY <1>1, <1>7 DEF Notify, Request, At
  <2> HIDE DEF r
  <2> QED
    BY <1>2, <1>7, <2>1 DEF Notify
<1>8. CASE LogChange(w)
  <2> DEFINE r == [req[w] EXCEPT !.pc = "loop", !.tk = Nil, !.from = Nil, !.to = Nil]
  <2>1. /\ req'[w] = r /\ r.pc = "loop" /\ req[w].pc = "log" /\ req[w].op = "run"
        /\ r.todo = req[w].todo /\ r.seen = req[w].seen
    BY <1>1, <1>8 DEF LogChange, Request, At
  <2> HIDE DEF r
  <2> QED
    BY <1>2, <1>8, <2>1 DEF LogChange
<1>9. CASE RunFails(w) \/ EndRun(w)
  <2>1. req'[w] = Idle /\ req[w].pc = "loop" /\ UNCHANGED tickets
    BY <1>1, <1>9 DEF RunFails, EndRun, Finish, At
  <2> QED
    BY <1>2, <1>3, <2>1
<1>10. CASE RowGone(w)
  <2>1. req'[w] = Idle /\ ~Live(req[w].tk) /\ UNCHANGED tickets
    BY <1>1, <1>10 DEF RowGone, Finish
  <2> QED
    BY <1>2, <1>3, <2>1
<1> QED
  BY <1>4, <1>5, <1>6, <1>7, <1>8, <1>9, <1>10

\* A step of the only request that reads, writes or records.
LEMMA PauseRequest ==
  ASSUME OneAtATime, PauseInv, NEW w \in Workers, NeverPaused', OnlyBreachesDated',
         NothingMeanwhile(req[w])', PauseWritten(req[w])',
         \A t \in Tickets : tracking'[t].exists /\ ~(req'[w].pc = "record" /\ req'[w].tk = t) =>
           (tracking'[t].pausedAt # Nil) = (ledger'[t] = "SLA_PAUSED")
  PROVE  PauseInv'
<1>1. \A v \in Workers : v = w
  BY DEF OneAtATime
<1>2. PausesAccounted'
  BY <1>1 DEF PausesAccounted
<1> QED
  BY <1>1, <1>2 DEF PauseInv

LEMMA ReadsAccount ==
  ASSUME OneAtATime, SafeInv, PauseInv, NEW w \in Workers,
         ReadTrackings(w) \/ ReadTracking(w)
  PROVE  PauseInv'
<1>1. /\ req \in [Workers -> Request] /\ req[w] \in Request /\ Shape(req[w])
      /\ UNCHANGED <<tickets, tracking, ledger>> /\ \A v \in Workers : v = w
  BY DEF SafeInv, TypeInv, TypeOK, OneAtATime, ReadTrackings, ReadTracking
<1>2. NeverPaused' /\ OnlyBreachesDated'
  BY <1>1 DEF PauseInv, NeverPaused, OnlyBreachesDated
<1>3. req[w].pc # "record"
  BY <1>1, EmptyRows DEF ReadTrackings, ReadTracking, At
<1>4. \A t \in Tickets : tracking'[t].exists =>
        (tracking'[t].pausedAt # Nil) = (ledger'[t] = "SLA_PAUSED")
  BY <1>1, <1>3 DEF PauseInv, PausesAccounted
<1>5. CASE ReadTrackings(w)
  <2> DEFINE seen == [t \in Tickets |-> IF t \in req[w].todo THEN tracking[t] ELSE NoTracking]
             r == [req[w] EXCEPT !.pc = "loop", !.seen = seen]
  <2>1. \A t \in req[w].todo : seen[t] = tracking[t]
    BY <1>1 DEF Request
  <2> HIDE DEF seen
  <2>2. req'[w] = r /\ r.pc = "loop" /\ r.todo = req[w].todo /\ r.seen = seen
    BY <1>1, <1>5 DEF ReadTrackings, Request, seen
  <2> HIDE DEF r
  <2>3. NothingMeanwhile(req[w])' /\ PauseWritten(req[w])'
    BY <1>1, <2>1, <2>2 DEF NothingMeanwhile, PauseWritten
  <2> QED
    BY <1>2, <1>4, <2>3, PauseRequest
<1>6. CASE ReadTracking(w)
  <2>1. PICK op \in Handlers \cap {"pause", "resume"}, t \in Tickets :
          req' = [req EXCEPT ![w] = [Idle EXCEPT
            !.op = op, !.pc = "write", !.at = now, !.tk = t, !.seen[t] = tracking[t]]]
    BY <1>6 DEF ReadTracking
  <2> DEFINE r == [Idle EXCEPT !.op = op, !.pc = "write", !.at = now, !.tk = t,
                               !.seen[t] = tracking[t]]
  <2>2. req'[w] = r /\ r.pc = "write" /\ r.tk = t /\ r.seen[t] = tracking[t]
    BY <1>1, <2>1 DEF Idle
  <2> HIDE DEF r
  <2>3. NothingMeanwhile(req[w])' /\ PauseWritten(req[w])'
    BY <1>1, <2>2 DEF NothingMeanwhile, PauseWritten
  <2> QED
    BY <1>2, <1>4, <2>3, PauseRequest
<1> QED
  BY <1>5, <1>6

\* An evaluation takes the pause from the row as it is.
LEMMA EvaluateAccounts ==
  ASSUME OneAtATime, SafeInv, PauseInv, NEW w \in Workers, Evaluate(w)
  PROVE  /\ PauseInv'
         /\ \A t \in Tickets : tracking[t].exists /\ tracking'[t].exists =>
              /\ tracking'[t].paused >= tracking[t].paused
              /\ tracking[t].pausedAt # Nil =>
                   /\ tracking'[t].status = tracking[t].status
                   /\ tracking'[t].breachedAt = tracking[t].breachedAt
<1>1. /\ req[w] \in Request /\ req \in [Workers -> Request]
      /\ req[w].op = "run" /\ req[w].pc = "loop"
      /\ tracking \in [Tickets -> TrackingRow] /\ UNCHANGED <<tickets, ledger>>
      /\ \A v \in Workers : v = w
  BY DEF SafeInv, TypeInv, TypeOK, Evaluate, At, OneAtATime
<1>2. req[w].at # Nil
  <2>1. Nil \notin Time
    BY ConstantsOK DEF Time
  <2> QED
    BY <1>1, <2>1 DEF Request
<1> DEFINE next(t) == Evaluated(req[w].rows[t], req[w].seen[t], req[w].at)
           Silent(t) == [req[w] EXCEPT !.todo = @ \ {t}]
           Telling(t) == [req[w] EXCEPT !.todo = @ \ {t}, !.pc = "notify", !.tk = t,
                                        !.from = req[w].seen[t].status,
                                        !.to = next(t).status]
<1>3. PICK t \in req[w].todo :
        /\ Live(t) /\ tracking' = [tracking EXCEPT ![t] = next(t)]
        /\ req' = [req EXCEPT ![w] =
             IF req[w].seen[t].exists /\ req[w].seen[t].status # next(t).status
             THEN Telling(t) ELSE Silent(t)]
  BY DEF Evaluate
<1>4. t \in Tickets /\ tickets[t].life # "deleted" /\ req[w].seen[t] = tracking[t]
  BY <1>1, <1>3 DEF Request, Live, PauseInv, NothingMeanwhile
<1>5. /\ next(t).exists /\ next(t).paused = tracking[t].paused
      /\ next(t).pausedAt = tracking[t].pausedAt
      /\ next(t).breachedAt =
           IF next(t).status # "BREACHED" THEN Nil
           ELSE IF tracking[t].breachedAt # Nil THEN tracking[t].breachedAt ELSE req[w].at
      /\ tracking[t].pausedAt # Nil => next(t).status = tracking[t].status
  BY <1>4 DEF Evaluated, Verdict
<1>6. tracking'[t] = next(t) /\ \A u \in Tickets \ {t} : tracking'[u] = tracking[u]
  BY <1>1, <1>3, <1>4
<1>7. /\ req'[w].todo = req[w].todo \ {t} /\ req'[w].seen = req[w].seen
      /\ req'[w].op = "run" /\ req'[w].pc \in {"loop", "notify"}
  <2>1. /\ Silent(t).op = "run" /\ Silent(t).pc = "loop"
        /\ Silent(t).todo = req[w].todo \ {t} /\ Silent(t).seen = req[w].seen
    BY <1>1 DEF Request
  <2>2. /\ Telling(t).op = "run" /\ Telling(t).pc = "notify"
        /\ Telling(t).todo = req[w].todo \ {t} /\ Telling(t).seen = req[w].seen
    BY <1>1 DEF Request
  <2> HIDE DEF Silent, Telling
  <2>3. req'[w] = Silent(t) \/ req'[w] = Telling(t)
    BY <1>1, <1>3
  <2> QED
    BY <2>1, <2>2, <2>3
<1> HIDE DEF next
<1>8. NothingMeanwhile(req[w])' /\ PauseWritten(req[w])'
  <2>1. \A u \in req'[w].todo : u \in Tickets \ {t} /\ u \in req[w].todo
    BY <1>1, <1>7 DEF Request
  <2> QED
    BY <1>1, <1>6, <1>7, <2>1 DEF PauseInv, NothingMeanwhile, PauseWritten
<1>9. NeverPaused'
  BY <1>1, <1>5, <1>6 DEF PauseInv, NeverPaused
<1>10. OnlyBreachesDated'
  BY <1>2, <1>5, <1>6 DEF PauseInv, OnlyBreachesDated
<1>11. ASSUME NEW u \in Tickets, tracking'[u].exists
       PROVE  (tracking'[u].pausedAt # Nil) = (ledger'[u] = "SLA_PAUSED")
  <2>1. \A v \in Workers : ~(req[v].pc = "record" /\ req[v].tk = u)
    BY <1>1
  <2>2. tracking[u].exists =>
          (tracking[u].pausedAt # Nil) = (ledger[u] = "SLA_PAUSED")
    BY <2>1 DEF PauseInv, PausesAccounted
  <2>3. ~tracking[u].exists => u = t /\ tracking[u] = NoTracking /\ ledger[u] # "SLA_PAUSED"
    BY <1>4, <1>6, <1>11 DEF PauseInv, NeverPaused
  <2>4. NoTracking.pausedAt = Nil
    BY DEF NoTracking
  <2>5. tracking'[u].pausedAt = tracking[u].pausedAt /\ ledger'[u] = ledger[u]
    BY <1>1, <1>5, <1>6
  <2> QED
    BY <2>2, <2>3, <2>4, <2>5
<1>12. PauseInv'
  BY <1>8, <1>9, <1>10, <1>11, PauseRequest
<1>13. ASSUME NEW u \in Tickets
       PROVE  /\ tracking'[u].paused >= tracking[u].paused
              /\ tracking[u].pausedAt # Nil =>
                   /\ tracking'[u].status = tracking[u].status
                   /\ tracking'[u].breachedAt = tracking[u].breachedAt
  <2>1. tracking'[u].paused = tracking[u].paused /\ tracking[u].paused \in Nat
    BY <1>1, <1>5, <1>6 DEF TrackingRow
  <2>2. tracking[u].pausedAt # Nil =>
                   /\ tracking'[u].status = tracking[u].status
                   /\ tracking'[u].breachedAt = tracking[u].breachedAt
    BY <1>5, <1>6 DEF PauseInv, OnlyBreachesDated
  <2> QED
    BY <2>1, <2>2
<1> QED
  BY <1>12, <1>13

\* A pause and a resumption write the row that they have read.
LEMMA WritesAccount ==
  ASSUME OneAtATime, SafeInv, PauseInv, NEW w \in Workers, WritePause(w) \/ WriteResume(w)
  PROVE  /\ PauseInv'
         /\ \A t \in Tickets :
              /\ tracking'[t].paused >= tracking[t].paused
              /\ tracking'[t].status = tracking[t].status
              /\ tracking'[t].breachedAt = tracking[t].breachedAt
<1> DEFINE k == req[w].tk
           old == tracking[k]
<1>1. /\ req[w] \in Request /\ req \in [Workers -> Request] /\ Shape(req[w])
      /\ tracking \in [Tickets -> TrackingRow] /\ UNCHANGED <<tickets, ledger>>
      /\ \A v \in Workers : v = w
  BY DEF SafeInv, TypeInv, TypeOK, WritePause, WriteResume, OneAtATime
<1>2. req[w].pc = "write" /\ k \in Tickets /\ old \in TrackingRow /\ old.exists
  BY <1>1 DEF WritePause, WriteResume, At, Shape
<1>3. tickets[k].life # "deleted" /\ req[w].seen[k] = old
  BY <1>2 DEF SafeInv, RowInv, Live, NoTracking, PauseInv, NothingMeanwhile
<1>4. /\ req'[w].pc = "record" /\ req'[w].tk = k /\ req'[w].op = req[w].op
      /\ req'[w].op # "run"
  <2>1. req'[w] = [req[w] EXCEPT !.pc = "record"] /\ req[w].op # "run"
    BY <1>1 DEF WritePause, WriteResume, At
  <2> QED
    BY <1>1, <2>1 DEF Request
<1>5. /\ \A t \in Tickets \ {k} : tracking'[t] = tracking[t]
      /\ tracking'[k].exists /\ tracking'[k].status = old.status
      /\ tracking'[k].breachedAt = old.breachedAt
      /\ tracking'[k].paused >= old.paused
      /\ (tracking'[k].pausedAt # Nil) <=> (req[w].op = "pause")
  <2>1. CASE WritePause(w)
    <3>1. tracking' = [tracking EXCEPT ![k] = [old EXCEPT !.pausedAt = req[w].at]]
      BY <2>1 DEF WritePause
    <3>2. req[w].at # Nil /\ req[w].op = "pause"
      <4>1. Nil \notin Time
        BY ConstantsOK DEF Time
      <4> QED
        BY <1>1, <2>1, <4>1 DEF Request, WritePause, At
    <3>3. old.paused >= old.paused
      BY <1>2 DEF TrackingRow
    <3> QED
      BY <1>1, <1>2, <3>1, <3>2, <3>3 DEF TrackingRow
  <2>2. CASE WriteResume(w)
    <3> DEFINE shift == AtLeastOne(req[w].at - old.pausedAt)
    <3>1. shift \in Nat
      <4>1. req[w].seen[k].pausedAt # Nil
        BY <1>1, <2>2 DEF WriteResume, At, Shape
      <4>2. old.pausedAt \in Int /\ req[w].at \in Int
        BY <1>1, <1>2, <1>3, <4>1 DEF TrackingRow, Request, Stamp, Time
      <4>3. req[w].at - old.pausedAt \in Int
        BY <4>2
      <4> QED
        BY <4>3, AtLeastOneNat
    <3>2. tracking' = [tracking EXCEPT ![k] = [old EXCEPT
            !.pausedAt = Nil, !.paused = old.paused + shift,
            !.response = old.response + shift, !.resolution = old.resolution + shift]]
      BY <1>3, <2>2 DEF WriteResume
    <3> HIDE DEF shift
    <3>3. old.paused + shift >= old.paused
      BY <1>2, <3>1 DEF TrackingRow
    <3>4. req[w].op = "resume"
      BY <2>2 DEF WriteResume, At
    <3> QED
      BY <1>1, <1>2, <3>2, <3>3, <3>4 DEF TrackingRow
  <2> QED
    BY <2>1, <2>2
<1> HIDE DEF k, old
<1>6. NothingMeanwhile(req[w])' /\ PauseWritten(req[w])'
  BY <1>4, <1>5 DEF NothingMeanwhile, PauseWritten
<1>7. NeverPaused'
  BY <1>1, <1>5 DEF PauseInv, NeverPaused
<1>8. OnlyBreachesDated'
  BY <1>5 DEF PauseInv, OnlyBreachesDated, old
<1>9. ASSUME NEW t \in Tickets, tracking'[t].exists, t # k
      PROVE  (tracking'[t].pausedAt # Nil) = (ledger'[t] = "SLA_PAUSED")
  <2>1. \A v \in Workers : ~(req[v].pc = "record" /\ req[v].tk = t)
    BY <1>1, <1>2
  <2> QED
    BY <1>1, <1>5, <1>9, <2>1 DEF PauseInv, PausesAccounted
<1>10. PauseInv'
  BY <1>4, <1>6, <1>7, <1>8, <1>9, PauseRequest
<1>11. ASSUME NEW t \in Tickets
       PROVE  /\ tracking'[t].paused >= tracking[t].paused
              /\ tracking'[t].status = tracking[t].status
              /\ tracking'[t].breachedAt = tracking[t].breachedAt
  <2>1. tracking[t].paused >= tracking[t].paused
    BY <1>1 DEF TrackingRow
  <2> QED
    BY <1>5, <2>1 DEF old
<1> QED
  BY <1>10, <1>11

\* The record that follows says what was written.
LEMMA RecordAccounts ==
  ASSUME OneAtATime, SafeInv, PauseInv, NEW w \in Workers, RecordPause(w)
  PROVE  PauseInv'
<1> DEFINE k == req[w].tk
<1>1. /\ req[w] \in Request /\ req \in [Workers -> Request] /\ Shape(req[w])
      /\ ledger \in [Tickets -> {Nil, "SLA_PAUSED", "SLA_RESUMED"}]
      /\ UNCHANGED <<tickets, tracking>> /\ \A v \in Workers : v = w
  BY DEF SafeInv, TypeInv, TypeOK, RecordPause, OneAtATime
<1>2. /\ req[w].pc = "record" /\ k \in Tickets /\ req[w].op \in {"pause", "resume"}
      /\ tickets[k].life # "deleted" /\ req'[w] = Idle
      /\ ledger'[k] = IF req[w].op = "pause" THEN "SLA_PAUSED" ELSE "SLA_RESUMED"
      /\ \A t \in Tickets \ {k} : ledger'[t] = ledger[t]
  BY <1>1 DEF RecordPause, Shape, Live, Finish
<1>3. tracking[k].exists /\ ((tracking[k].pausedAt # Nil) <=> (req[w].op = "pause"))
  BY <1>2 DEF PauseInv, PauseWritten
<1> HIDE DEF k
<1>4. NeverPaused' /\ OnlyBreachesDated'
  BY <1>1, <1>2, <1>3 DEF PauseInv, NeverPaused, OnlyBreachesDated
<1>5. NothingMeanwhile(req[w])' /\ PauseWritten(req[w])'
  BY <1>2, EmptyRows DEF NothingMeanwhile, PauseWritten
<1>6. ASSUME NEW t \in Tickets, tracking'[t].exists
      PROVE  (tracking'[t].pausedAt # Nil) = (ledger'[t] = "SLA_PAUSED")
  <2>1. CASE t = k
    BY <1>1, <1>2, <1>3, <2>1
  <2>2. CASE t # k
    <3>1. \A v \in Workers : ~(req[v].pc = "record" /\ req[v].tk = t)
      BY <1>1, <2>2 DEF k
    <3> QED
      BY <1>1, <1>2, <1>6, <2>2, <3>1 DEF PauseInv, PausesAccounted
  <2> QED
    BY <2>1, <2>2
<1> QED
  BY <1>4, <1>5, <1>6, PauseRequest

LEMMA PauseStep ==
  ASSUME OneAtATime, SafeInv, SafeInv', PauseInv, [Next]_vars
  PROVE  PauseInv'
<1>1. CASE UNCHANGED vars
  BY <1>1, CalmKeeps DEF vars, Calm, PauseInv, NeverPaused
<1>2. CASE Around
  BY <1>2, CalmAround
<1>3. ASSUME NEW w \in Workers, StartRun(w) \/ ReadTracking(w) \/ Proceed(w) \/ Die(w)
      PROVE  PauseInv'
  <2>1. ~Die(w)
    BY DEF Die, OneAtATime
  <2> QED
    BY <1>3, <2>1, CalmRequests, ReadsAccount, EvaluateAccounts, WritesAccount,
       RecordAccounts DEF Proceed
<1> QED
  BY <1>1, <1>2, <1>3 DEF Next

\* What a step of the whole does to the pause of a ticket.
PauseStays ==
  \A t \in Tickets : tracking[t].exists /\ tracking'[t].exists =>
    /\ tracking'[t].paused >= tracking[t].paused
    /\ tracking[t].pausedAt # Nil =>
         /\ tracking'[t].status = tracking[t].status
         /\ tracking'[t].breachedAt = tracking[t].breachedAt

LEMMA PauseStaysStep ==
  ASSUME OneAtATime, SafeInv, PauseInv, Next
  PROVE  PauseStays
<1>1. \A t \in Tickets : tracking[t].paused >= tracking[t].paused
  BY DEF SafeInv, TypeInv, TypeOK, TrackingRow
<1>2. CASE Around
  BY <1>1, <1>2, AroundStays DEF RowsStay, PauseStays, NoTracking
<1>3. ASSUME NEW w \in Workers, StartRun(w) \/ ReadTracking(w) \/ Die(w)
      PROVE  PauseStays
  <2>1. UNCHANGED tracking
    BY <1>3 DEF StartRun, ReadTracking, Die
  <2> QED
    BY <1>1, <2>1 DEF PauseStays
<1>4. ASSUME NEW w \in Workers, Proceed(w)
      PROVE  PauseStays
  <2>1. CASE Evaluate(w) \/ WritePause(w) \/ WriteResume(w)
    BY <2>1, EvaluateAccounts, WritesAccount DEF PauseStays
  <2>2. CASE ~(Evaluate(w) \/ WritePause(w) \/ WriteResume(w))
    <3>1. UNCHANGED tracking
      BY <1>4, <2>2 DEF Proceed, AssignDefault, ReadTickets, ReadTrackings, RunFails, Notify,
         LogChange, EndRun, RecordPause, RowGone
    <3> QED
      BY <1>1, <3>1 DEF PauseStays
  <2> QED
    BY <2>1, <2>2
<1> QED
  BY <1>2, <1>3, <1>4 DEF Next

\* Served one at a time, a tracking is paused if and only if the latest record says
\* so, its minutes are kept, and while it is paused its status is too.
THEOREM PausesAreKept == ASSUME OneAtATime PROVE Spec => PausesHold
<1>1. Init => SafeInv /\ PauseInv
  BY SafeInit, PauseInit
<1>2. SafeInv /\ PauseInv /\ [Next]_vars => (SafeInv /\ PauseInv)'
  BY SafeStep, PauseStep
<1>3. PauseInv => PausesAccounted
  BY DEF PauseInv
<1>4. SafeInv /\ PauseInv /\ [Next]_vars => [PauseStays]_vars
  BY PauseStaysStep
<1>5. Spec => [](SafeInv /\ PauseInv)
  BY <1>1, <1>2, PTL DEF Spec
<1>6. Spec => [][PauseStays]_vars
  BY <1>4, <1>5, PTL DEF Spec
<1>7. Spec => PauseKept
  BY <1>6 DEF PauseKept, PauseStays
<1> QED
  BY <1>3, <1>5, <1>7, PTL DEF PausesHold
=============================================================================
