-------------------------------- MODULE Sla --------------------------------
(***************************************************************************)
(* Service levels: the engine that evaluates every ticket against its      *)
(* policy, and the requests that pause and resume the tracking of one.     *)
(*                                                                         *)
(* Neither runs in a transaction: each statement commits on its own, and   *)
(* the engine works through snapshots of tickets and trackings it read at  *)
(* the start of its run. Runs start from a timer (auto) or from a request  *)
(* (manual), and nothing keeps two of them, or a run and a pause, apart.   *)
(*                                                                         *)
(* Time is counted in minutes and policies run around the clock (no        *)
(* calendar). OPEN stands for OPEN, IN_PROGRESS and PENDING, which the     *)
(* engine treats alike. What nothing reads back (nextEscalationAt, the     *)
(* activities, the run's summary) is left out. The ticket service's        *)
(* transactions are single steps here: Tickets looks into them.            *)
(***************************************************************************)
EXTENDS Integers, FiniteSets

CONSTANTS
  Workers,         \* requests and runs in progress at one time
  Engines,         \* those of them that may be runs of the engine
  Tickets,         \* primary keys of the Ticket table
  Policies,        \* SlaPolicy rows, numbered from the oldest on
  Terms,           \* what a policy may say
  ResponseRisk,    \* minutes before a deadline at which it is AT_RISK:
  ResolutionRisk,  \* 10 and 20 in the code
  Handlers,        \* endpoints the clients call in this instance
  Asked,           \* statuses a PATCH body or a macro may set
  MaxTime,         \* bound on the clock
  LastOpening,     \* bound on the time at which a ticket is opened
  MaxPaused,       \* bound on the minutes after which a ticket is not paused again
  Crashes,         \* whether a request or a run may die half way
  Nil              \* SQL NULL

Handler == {"answer", "patch", "decide", "policy", "delete", "pause", "resume"}
SlaStatus == {"ON_TRACK", "AT_RISK", "BREACHED", "MET"}
TicketStatus == {"OPEN", "RESOLVED", "CLOSED", "CANCELLED"}
Term == [active: BOOLEAN, response: Nat \ {0}, resolution: Nat \ {0}]

ASSUME ConstantsOK ==
  /\ Engines \subseteq Workers
  /\ Policies \subseteq Nat
  /\ Terms \subseteq Term
  /\ ResponseRisk \in Nat /\ ResolutionRisk \in Nat /\ MaxTime \in Nat
  /\ Handlers \subseteq Handler /\ Asked \subseteq TicketStatus
  /\ Crashes \in BOOLEAN
  /\ Nil \notin Int \cup Tickets \cup Terms \cup SlaStatus
              \cup {"run", "pause", "resume", "SLA_PAUSED", "SLA_RESUMED"}

VARIABLES
  now,       \* the clock
  policies,  \* the terms of each SlaPolicy row, Nil before it is created
  tickets,   \* the columns of Ticket that the engine reads
  tracking,  \* the TicketSlaTracking row of each ticket
  told,      \* the status in the latest SLA notification about each ticket
  log,       \* the latest SLA_STATUS_CHANGED record of each ticket
  ledger,    \* its latest SLA_PAUSED or SLA_RESUMED record
  req        \* the request or run each worker is serving

vars == <<now, policies, tickets, tracking, told, log, ledger, req>>

-----------------------------------------------------------------------------
(* Rows                                                                    *)

Time == 0..MaxTime
Stamp == Time \cup {Nil}

TicketRow == [life: {"unborn", "live", "deleted"},
              status: TicketStatus,
              policy: Policies \cup {Nil}, created: Time,
              answered: Stamp,                  \* the first comment of the staff
              resolvedAt: Stamp, closedAt: Stamp]

TrackingRow == [exists: BOOLEAN, response: Nat, resolution: Nat,
                breachedAt: Stamp, pausedAt: Stamp, paused: Nat,
                status: SlaStatus]

NoTicket == [life |-> "unborn", status |-> "OPEN", policy |-> Nil, created |-> 0,
             answered |-> Nil, resolvedAt |-> Nil, closedAt |-> Nil]
NoTracking == [exists |-> FALSE, response |-> 0, resolution |-> 0,
               breachedAt |-> Nil, pausedAt |-> Nil, paused |-> 0,
               status |-> "ON_TRACK"]
NoChange == [from |-> Nil, to |-> Nil]

Live(t) == tickets[t].life = "live"

\* ticket.resolvedAt ?? ticket.closedAt
Done(row) == IF row.resolvedAt # Nil THEN row.resolvedAt ELSE row.closedAt

-----------------------------------------------------------------------------
(* Requests and runs. A worker's record is what its handler has in memory: *)
(*   at       the time it took at the start                                *)
(*   policy   the default policy of the run                                *)
(*   todo     tickets of the run still to evaluate                         *)
(*   rows     what the run read of them: deadlines, first answer, end      *)
(*   seen     the tracking rows as read                                    *)
(*   tk, from, to   the ticket under way and its change of status          *)

NoRow == [response |-> 0, resolution |-> 0, answered |-> Nil, done |-> Nil]

Idle == [op |-> Nil, pc |-> "idle", at |-> 0, policy |-> Nil,
         todo |-> {}, rows |-> [t \in Tickets |-> NoRow],
         seen |-> [t \in Tickets |-> NoTracking],
         tk |-> Nil, from |-> Nil, to |-> Nil]

Request == [op: {Nil, "run", "pause", "resume"},
            pc: {"idle", "assign", "tickets", "trackings", "loop", "notify",
                 "log", "write", "record"},
            at: Time, policy: Policies \cup {Nil},
            todo: SUBSET Tickets,
            rows: [Tickets -> [response: Nat, resolution: Nat,
                               answered: Stamp, done: Stamp]],
            seen: [Tickets -> TrackingRow],
            tk: Tickets \cup {Nil}, from: SlaStatus \cup {Nil},
            to: SlaStatus \cup {Nil}]

At(w, op, pc) == req[w].op = op /\ req[w].pc = pc
Finish(w) == req' = [req EXCEPT ![w] = Idle]

Init ==
  /\ now = 0
  /\ policies = [p \in Policies |-> Nil]
  /\ tickets = [t \in Tickets |-> NoTicket]
  /\ tracking = [t \in Tickets |-> NoTracking]
  /\ told = [t \in Tickets |-> Nil]
  /\ log = [t \in Tickets |-> NoChange]
  /\ ledger = [t \in Tickets |-> Nil]
  /\ req = [w \in Workers |-> Idle]

-----------------------------------------------------------------------------
(* What goes on around the engine                                          *)

Tick ==
  /\ now < MaxTime
  /\ now' = now + 1
  /\ UNCHANGED <<policies, tickets, tracking, told, log, ledger, req>>

\* POST /sla/policies and PATCH /sla/policies/:id. Deadlines already computed
\* stay until the next run.
SavePolicy(p) ==
  /\ "policy" \in Handlers \/ policies[p] = Nil
  /\ \E terms \in Terms : policies' = [policies EXCEPT ![p] = terms]
  /\ UNCHANGED <<now, tickets, tracking, told, log, ledger, req>>

Saved == {p \in Policies : policies[p] # Nil}

Open(t) ==
  /\ tickets[t].life = "unborn" /\ now =< LastOpening
  /\ \E p \in Saved \cup {Nil} :
       tickets' = [tickets EXCEPT ![t] =
         [NoTicket EXCEPT !.life = "live", !.policy = p, !.created = now]]
  /\ UNCHANGED <<now, policies, tracking, told, log, ledger, req>>

\* POST /tickets/:id/comments by an administrator or an agent. The engine
\* looks for the first such comment only.
Answer(t) ==
  /\ "answer" \in Handlers
  /\ Live(t) /\ tickets[t].answered = Nil
  /\ tickets' = [tickets EXCEPT ![t].answered = now]
  /\ UNCHANGED <<now, policies, tracking, told, log, ledger, req>>

\* PATCH /tickets/:id and macros: a new status, or an edit of other columns,
\* which stamps the dates of the status the ticket has once more.
Patched(row, next, p) ==
  [row EXCEPT !.status = next, !.policy = p,
              !.resolvedAt = IF next = "RESOLVED" THEN now ELSE @,
              !.closedAt = IF next = "CLOSED" THEN now ELSE @]

Patch(t) ==
  /\ "patch" \in Handlers
  /\ Live(t)
  /\ \E next \in Asked \cup {tickets[t].status},
        p \in {tickets[t].policy} \cup (IF "policy" \in Handlers THEN Saved \cup {Nil} ELSE {}) :
       tickets' = [tickets EXCEPT ![t] = Patched(@, next, p)]
  /\ UNCHANGED <<now, policies, tracking, told, log, ledger, req>>

\* A decision cancels the ticket and closes it, or opens it and forgets the
\* date it was closed.
Decide(t) ==
  /\ "decide" \in Handlers
  /\ Live(t)
  /\ \/ /\ tickets[t].status # "CANCELLED"
        /\ tickets' = [tickets EXCEPT ![t].status = "CANCELLED", ![t].closedAt = now]
     \/ /\ tickets[t].status = "OPEN"
        /\ tickets' = [tickets EXCEPT ![t].closedAt = Nil]
  /\ UNCHANGED <<now, policies, tracking, told, log, ledger, req>>

\* The tracking row goes with the ticket (ON DELETE CASCADE).
Delete(t) ==
  /\ "delete" \in Handlers
  /\ Live(t)
  /\ tickets' = [tickets EXCEPT ![t] = [NoTicket EXCEPT !.life = "deleted"]]
  /\ tracking' = [tracking EXCEPT ![t] = NoTracking]
  /\ UNCHANGED <<now, policies, told, log, ledger, req>>

-----------------------------------------------------------------------------
(* A run of the engine                                                     *)

Active(p) == p \in Saved /\ policies[p].active

\* The oldest active policy, if there is one.
IsDefault(p) ==
  IF p = Nil THEN \A q \in Policies : ~Active(q)
  ELSE Active(p) /\ (\A q \in Policies : Active(q) => p =< q)

StartRun(w) ==
  /\ w \in Engines /\ req[w] = Idle
  /\ \E p \in Policies \cup {Nil} :
       /\ IsDefault(p)
       /\ req' = [req EXCEPT ![w] = [Idle EXCEPT
            !.op = "run", !.pc = "assign", !.at = now, !.policy = p]]
  /\ UNCHANGED <<now, policies, tickets, tracking, told, log, ledger>>

\* Fault: a run that finds tickets without a policy leaves them so.
AssignNothing(w) ==
  /\ At(w, "run", "assign")
  /\ req' = [req EXCEPT ![w].pc = "tickets"]
  /\ UNCHANGED <<now, policies, tickets, tracking, told, log, ledger>>

\* Open tickets without a policy get the default one.
AssignDefault(w) ==
  /\ At(w, "run", "assign")
  /\ tickets' = [t \in Tickets |->
       IF Live(t) /\ tickets[t].policy = Nil /\ tickets[t].status = "OPEN"
       THEN [tickets[t] EXCEPT !.policy = req[w].policy] ELSE tickets[t]]
  /\ req' = [req EXCEPT ![w].pc = "tickets"]
  /\ UNCHANGED <<now, policies, tracking, told, log, ledger>>

\* Cancelled tickets are not evaluated, nor those whose policy is inactive.
Watched == {t \in Tickets : /\ Live(t) /\ tickets[t].status # "CANCELLED"
                            /\ tickets[t].policy # Nil
                            /\ Active(tickets[t].policy)}

ReadTickets(w) ==
  /\ At(w, "run", "tickets")
  /\ req' = [req EXCEPT ![w] = [@ EXCEPT
       !.pc = "trackings", !.todo = Watched,
       !.rows = [t \in Tickets |->
         IF t \notin Watched THEN NoRow ELSE
           [response |-> tickets[t].created + policies[tickets[t].policy].response,
            resolution |-> tickets[t].created + policies[tickets[t].policy].resolution,
            answered |-> tickets[t].answered, done |-> Done(tickets[t])]]]]
  /\ UNCHANGED <<now, policies, tickets, tracking, told, log, ledger>>

ReadTrackings(w) ==
  /\ At(w, "run", "trackings")
  /\ req' = [req EXCEPT ![w] = [@ EXCEPT
       !.pc = "loop",
       !.seen = [t \in Tickets |-> IF t \in req[w].todo THEN tracking[t] ELSE NoTracking]]]
  /\ UNCHANGED <<now, policies, tickets, tracking, told, log, ledger>>

\* Fault: the minute of a deadline counts as past it.
ResolvedSharply(row, at) ==
  IF row.done # Nil
  THEN IF row.done < row.resolution THEN "MET" ELSE "BREACHED"
  ELSE CASE \/ row.answered = Nil /\ at >= row.response
            \/ at >= row.resolution -> "BREACHED"
         [] \/ row.answered = Nil /\ at >= row.response - ResponseRisk
            \/ at >= row.resolution - ResolutionRisk -> "AT_RISK"
         [] OTHER -> "ON_TRACK"

\* resolveSlaStatus
Resolved(row, at) ==
  IF row.done # Nil
  THEN IF row.done =< row.resolution THEN "MET" ELSE "BREACHED"
  ELSE CASE \/ row.answered = Nil /\ at > row.response
            \/ at > row.resolution -> "BREACHED"
         [] \/ row.answered = Nil /\ at >= row.response - ResponseRisk
            \/ at >= row.resolution - ResolutionRisk -> "AT_RISK"
         [] OTHER -> "ON_TRACK"

\* Fault: pauses do not stop the status.
VerdictUnpaused(row, seen, at) == Resolved(row, at)

\* The status of a paused tracking does not move.
Verdict(row, seen, at) ==
  IF seen.pausedAt # Nil THEN seen.status ELSE Resolved(row, at)

\* Faults: the run forgets the pause; it dates every breach anew.
EvaluatedUnpaused(row, seen, at) ==
  [exists |-> TRUE, response |-> row.response, resolution |-> row.resolution,
   breachedAt |-> IF Verdict(row, seen, at) # "BREACHED" THEN Nil
                  ELSE IF seen.breachedAt # Nil THEN seen.breachedAt ELSE at,
   pausedAt |-> Nil, paused |-> seen.paused, status |-> Verdict(row, seen, at)]
EvaluatedAnew(row, seen, at) ==
  [exists |-> TRUE, response |-> row.response, resolution |-> row.resolution,
   breachedAt |-> IF Verdict(row, seen, at) = "BREACHED" THEN at ELSE Nil,
   pausedAt |-> seen.pausedAt, paused |-> seen.paused,
   status |-> Verdict(row, seen, at)]

\* The row the run writes: deadlines from the policy, pause and minutes paused
\* from the snapshot.
Evaluated(row, seen, at) ==
  LET status == Verdict(row, seen, at)
  IN  [exists |-> TRUE, response |-> row.response, resolution |-> row.resolution,
       breachedAt |-> IF status # "BREACHED" THEN Nil
                      ELSE IF seen.breachedAt # Nil THEN seen.breachedAt ELSE at,
       pausedAt |-> seen.pausedAt, paused |-> seen.paused, status |-> status]

\* Fault: the tracking row is written without a look at its foreign key.
EvaluateBlindly(w) ==
  LET r == req[w]
  IN  /\ At(w, "run", "loop")
      /\ \E t \in r.todo :
           /\ tracking' = [tracking EXCEPT ![t] = Evaluated(r.rows[t], r.seen[t], r.at)]
           /\ req' = [req EXCEPT ![w].todo = @ \ {t}]
      /\ UNCHANGED <<now, policies, tickets, told, log, ledger>>

\* The upsert of one ticket. A first evaluation is told to nobody.
Evaluate(w) ==
  LET r == req[w]
  IN  /\ At(w, "run", "loop")
      /\ \E t \in r.todo :
           LET next == Evaluated(r.rows[t], r.seen[t], r.at)
           IN  /\ Live(t)
               /\ tracking' = [tracking EXCEPT ![t] = next]
               /\ req' = [req EXCEPT ![w] =
                    IF r.seen[t].exists /\ r.seen[t].status # next.status
                    THEN [r EXCEPT !.todo = @ \ {t}, !.pc = "notify", !.tk = t,
                                   !.from = r.seen[t].status, !.to = next.status]
                    ELSE [r EXCEPT !.todo = @ \ {t}]]
      /\ UNCHANGED <<now, policies, tickets, told, log, ledger>>

\* The upsert of a ticket deleted since it was read fails on its foreign key
\* and ends the run. The client of a manual run gets the error; nobody handles
\* it in a run that the timer started: the process exits, and everything under
\* way with it.
RunFails(w) ==
  /\ At(w, "run", "loop")
  /\ \E t \in req[w].todo : ~Live(t)
  /\ Finish(w) \/ req' = [v \in Workers |-> Idle]
  /\ UNCHANGED <<now, policies, tickets, tracking, told, log, ledger>>

\* Fault: nobody is told of a risk.
NotifyLate(w) ==
  LET r == req[w]
  IN  /\ At(w, "run", "notify")
      /\ told' = IF r.to \in {"BREACHED", "MET"} THEN [told EXCEPT ![r.tk] = r.to] ELSE told
      /\ req' = [req EXCEPT ![w].pc = "log"]
      /\ UNCHANGED <<now, policies, tickets, tracking, log, ledger>>

\* Every status but ON_TRACK has a type of notification.
Notify(w) ==
  LET r == req[w]
  IN  /\ At(w, "run", "notify")
      /\ told' = IF r.to = "ON_TRACK" THEN told ELSE [told EXCEPT ![r.tk] = r.to]
      /\ req' = [req EXCEPT ![w].pc = "log"]
      /\ UNCHANGED <<now, policies, tickets, tracking, log, ledger>>

\* Fault: a change without a notification leaves no record either.
LogTold(w) ==
  LET r == req[w]
  IN  /\ At(w, "run", "log")
      /\ log' = IF r.to = "ON_TRACK" THEN log
                ELSE [log EXCEPT ![r.tk] = [from |-> r.from, to |-> r.to]]
      /\ req' = [req EXCEPT ![w] = [r EXCEPT
           !.pc = "loop", !.tk = Nil, !.from = Nil, !.to = Nil]]
      /\ UNCHANGED <<now, policies, tickets, tracking, told, ledger>>

LogChange(w) ==
  LET r == req[w]
  IN  /\ At(w, "run", "log")
      /\ log' = [log EXCEPT ![r.tk] = [from |-> r.from, to |-> r.to]]
      /\ req' = [req EXCEPT ![w] = [r EXCEPT
           !.pc = "loop", !.tk = Nil, !.from = Nil, !.to = Nil]]
      /\ UNCHANGED <<now, policies, tickets, tracking, told, ledger>>

EndRun(w) ==
  /\ At(w, "run", "loop")
  /\ req[w].todo = {}
  /\ Finish(w)
  /\ UNCHANGED <<now, policies, tickets, tracking, told, log, ledger>>

-----------------------------------------------------------------------------
(* PATCH /sla/tracking/:ticketId/pause and .../resume. A pause of a paused *)
(* tracking and a resumption of one that runs return what they read.       *)

ReadTracking(w) ==
  /\ req[w] = Idle
  /\ \E op \in Handlers \cap {"pause", "resume"}, t \in Tickets :
       /\ tracking[t].exists
       /\ (op = "pause") = (tracking[t].pausedAt = Nil)
       /\ op = "pause" => tracking[t].paused < MaxPaused
       /\ req' = [req EXCEPT ![w] = [Idle EXCEPT
            !.op = op, !.pc = "write", !.at = now, !.tk = t,
            !.seen[t] = tracking[t]]]
  /\ UNCHANGED <<now, policies, tickets, tracking, told, log, ledger>>

WritePause(w) ==
  LET r == req[w]
  IN  /\ At(w, "pause", "write")
      /\ tracking[r.tk].exists
      /\ tracking' = [tracking EXCEPT ![r.tk].pausedAt = r.at]
      /\ req' = [req EXCEPT ![w].pc = "record"]
      /\ UNCHANGED <<now, policies, tickets, told, log, ledger>>

AtLeastOne(n) == IF n < 1 THEN 1 ELSE n

\* Fault: the deadlines move the wrong way.
WriteResumeEarlier(w) ==
  LET r == req[w]
      seen == r.seen[r.tk]
      shift == AtLeastOne(r.at - seen.pausedAt)
  IN  /\ At(w, "resume", "write")
      /\ tracking[r.tk].exists
      /\ tracking' = [tracking EXCEPT ![r.tk] = [@ EXCEPT
           !.pausedAt = Nil,
           !.paused = seen.paused + shift,
           !.response = seen.response - shift,
           !.resolution = seen.resolution - shift]]
      /\ req' = [req EXCEPT ![w].pc = "record"]
      /\ UNCHANGED <<now, policies, tickets, told, log, ledger>>

\* Every column is computed from the row as read.
WriteResume(w) ==
  LET r == req[w]
      seen == r.seen[r.tk]
      shift == AtLeastOne(r.at - seen.pausedAt)
  IN  /\ At(w, "resume", "write")
      /\ tracking[r.tk].exists
      /\ tracking' = [tracking EXCEPT ![r.tk] = [@ EXCEPT
           !.pausedAt = Nil,
           !.paused = seen.paused + shift,
           !.response = seen.response + shift,
           !.resolution = seen.resolution + shift]]
      /\ req' = [req EXCEPT ![w].pc = "record"]
      /\ UNCHANGED <<now, policies, tickets, told, log, ledger>>

\* The activity, which needs the ticket, and the audit record.
RecordPause(w) ==
  LET r == req[w]
  IN  /\ r.op \in {"pause", "resume"} /\ r.pc = "record"
      /\ Live(r.tk)
      /\ ledger' = [ledger EXCEPT ![r.tk] =
           IF r.op = "pause" THEN "SLA_PAUSED" ELSE "SLA_RESUMED"]
      /\ Finish(w)
      /\ UNCHANGED <<now, policies, tickets, tracking, told, log>>

\* The row or its ticket was deleted meanwhile: the statement fails.
RowGone(w) ==
  /\ req[w].op \in {"pause", "resume"}
  /\ ~Live(req[w].tk)
  /\ Finish(w)
  /\ UNCHANGED <<now, policies, tickets, tracking, told, log, ledger>>

Die(w) ==
  /\ Crashes
  /\ req[w] # Idle
  /\ Finish(w)
  /\ UNCHANGED <<now, policies, tickets, tracking, told, log, ledger>>

-----------------------------------------------------------------------------
Proceed(w) ==
  \/ AssignDefault(w) \/ ReadTickets(w) \/ ReadTrackings(w)
  \/ Evaluate(w) \/ RunFails(w) \/ Notify(w) \/ LogChange(w) \/ EndRun(w)
  \/ WritePause(w) \/ WriteResume(w) \/ RecordPause(w) \/ RowGone(w)

Around ==
  \/ Tick
  \/ \E p \in Policies : SavePolicy(p)
  \/ \E t \in Tickets : Open(t) \/ Answer(t) \/ Patch(t) \/ Decide(t) \/ Delete(t)

Next ==
  \/ Around
  \/ \E w \in Workers : StartRun(w) \/ ReadTracking(w) \/ Proceed(w) \/ Die(w)

Spec == Init /\ [][Next]_vars

\* The timer starts a run at every interval, and Node and PostgreSQL serve
\* what is under way.
FairSpec ==
  /\ Spec
  /\ \A w \in Workers : WF_vars(Proceed(w))
  /\ \A w \in Engines : WF_vars(StartRun(w))

-----------------------------------------------------------------------------
(* Properties that hold however runs, requests and failures interleave     *)

TypeOK ==
  /\ now \in Time
  /\ policies \in [Policies -> Terms \cup {Nil}]
  /\ tickets \in [Tickets -> TicketRow]
  /\ tracking \in [Tickets -> TrackingRow]
  /\ told \in [Tickets -> SlaStatus \cup {Nil}]
  /\ log \in [Tickets -> [from: SlaStatus \cup {Nil}, to: SlaStatus \cup {Nil}]]
  /\ ledger \in [Tickets -> {Nil, "SLA_PAUSED", "SLA_RESUMED"}]
  /\ req \in [Workers -> Request]

\* A tracking row never outlives its ticket, although a run may still hold the
\* ticket in its snapshot when it is deleted.
TrackingHasTicket == \A t \in Tickets : tracking[t].exists => Live(t)

\* One of the deadlines that the terms set was missed: its time is over and
\* what it waited for did not happen, or happened late.
Missed(t, terms) ==
  LET row == tickets[t]
      Late(due, stamp) == now > due /\ (stamp = Nil \/ stamp > due)
  IN  \/ Late(row.created + terms.response, row.answered)
      \/ Late(row.created + terms.resolution, Done(row))

\* While all policies say the same, a ticket is reported BREACHED only if it
\* did miss a deadline: a run that works from old snapshots may report a
\* breach late, and never one that an answer or a resolution had averted.
NoFalseBreach ==
  \A t \in Tickets, terms \in Terms :
    tracking[t].exists /\ tracking[t].status = "BREACHED" => Missed(t, terms)

-----------------------------------------------------------------------------
(* Properties of one engine that no crash interrupts, while requests pause *)
(* and resume. Two runs at once break them.                                *)

\* Once a ticket is BREACHED, the date of the breach stays.
BreachTimeKept ==
  [][\A t \in Tickets :
       tracking[t].status = "BREACHED" /\ tracking'[t].status = "BREACHED"
         => tracking'[t].breachedAt = tracking[t].breachedAt]_vars

Reporting(w, t) == req[w].pc \in {"notify", "log"} /\ req[w].tk = t

\* Except while the run is about to say so, the latest record of a change of
\* status and the latest notification tell the status the tracking has.
ChangesTold ==
  \A t \in Tickets :
    tracking[t].exists /\ log[t] # NoChange /\ (\A w \in Workers : ~Reporting(w, t)) =>
      /\ log[t].to = tracking[t].status
      /\ tracking[t].status # "ON_TRACK" => told[t] = tracking[t].status

\* The records of a ticket's changes form a chain: each starts from the status
\* the one before it ended with.
ChangesChained ==
  [][\A t \in Tickets : log'[t] # log[t] /\ log[t] # NoChange =>
       log'[t].from = log[t].to]_vars

-----------------------------------------------------------------------------
(* Properties of runs and requests served one at a time. A pause or a      *)
(* resumption in the middle of a run breaks them.                          *)

\* A tracking is paused if and only if the latest audit record says so.
PausesAccounted ==
  \A t \in Tickets :
    tracking[t].exists /\ (\A w \in Workers : ~(req[w].pc = "record" /\ req[w].tk = t)) =>
      (tracking[t].pausedAt # Nil) = (ledger[t] = "SLA_PAUSED")

\* Minutes spent in a pause are never forgotten, and a paused ticket keeps the
\* status and the breach date it was paused with.
PauseKept ==
  [][\A t \in Tickets : tracking[t].exists /\ tracking'[t].exists =>
       /\ tracking'[t].paused >= tracking[t].paused
       /\ tracking[t].pausedAt # Nil =>
            /\ tracking'[t].status = tracking[t].status
            /\ tracking'[t].breachedAt = tracking[t].breachedAt]_vars

\* Pauses and resumptions are all that pauses and resumes.
PausesHold == []PausesAccounted /\ PauseKept

-----------------------------------------------------------------------------
(* What the documents and the tests say of the program, and it does not do *)

\* sla.service.spec.ts: "resume tracking desplaza deadlines y acumula minutos
\* de pausa". The next run computes the deadline without those minutes.
PauseExtendsDeadline ==
  \A t \in Tickets, terms \in Terms :
    tracking[t].exists =>
      tracking[t].resolution >= tickets[t].created + terms.resolution + tracking[t].paused

-----------------------------------------------------------------------------
(* Liveness                                                                *)

\* Ticket t is past its deadline, open, not paused, and a policy applies.
Overdue(t) ==
  /\ Live(t) /\ tickets[t].status = "OPEN" /\ Done(tickets[t]) = Nil
  /\ tracking[t].pausedAt = Nil
  /\ \A terms \in Terms : now > tickets[t].created + terms.resolution
  /\ IF tickets[t].policy = Nil THEN \E p \in Policies : Active(p)
                               ELSE Active(tickets[t].policy)

\* The engine reports every overdue ticket, unless it stops being overdue.
OverdueReported ==
  \A t \in Tickets : Overdue(t) ~> tracking[t].status = "BREACHED" \/ ~Overdue(t)
=============================================================================
