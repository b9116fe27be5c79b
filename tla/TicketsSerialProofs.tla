------------------------ MODULE TicketsSerialProofs ------------------------
(***************************************************************************)
(* Proofs about requests served one at a time: whatever their number and   *)
(* order, the history of a ticket follows its status, the approvals decide *)
(* when it leaves PENDING, and every request acts as one atomic step. What *)
(* they rest on is that a lone request never relies on a stale read.       *)
(***************************************************************************)
EXTENDS TicketsRefinement, TicketsProofs

\* The server takes a request when the one before has ended.
OneAtATime == \A v, w \in Workers : v = w

-----------------------------------------------------------------------------
(* What a request keeps in memory, in terms of the committed rows.         *)

Opened(status) == [NoTicket EXCEPT !.life = "live", !.status = status]
Asks(t, u) == [life |-> "live", ticket |-> t, status |-> "PENDING", approver |-> u]
Decides(row, decision, u) ==
  [row EXCEPT !.status = decision, !.approver = IF @ = Nil THEN u ELSE @]

CreateKnows(r) == r.op = "create" =>
  \/ /\ r.row = Opened("OPEN") /\ r.entry = [from |-> Nil, to |-> "OPEN"]
     /\ r.approval = NoApproval
  \/ /\ r.row = Opened("PENDING") /\ r.entry = [from |-> Nil, to |-> "PENDING"]
     /\ r.ap \in Approvals /\ \E u \in Admins \cup {Nil} : r.approval = Asks(r.tk, u)

\* The status that findOne returned is still that of the ticket.
Reads(r) == \/ r.op \in {"update", "macro", "approve"}
            \/ r.op = "remove" /\ r.pc # "audit"
ReadKnows(r) == Reads(r) =>
  Live(r.tk) /\ r.seen = tickets[r.tk].status /\ r.ask \in Asked \cup {Nil}

UpdateKnows(r) == r.op = "update" /\ r.pc # "read" =>
  /\ r.row = Stamped(tickets[r.tk], r.ask, IF r.ask = Nil THEN r.seen ELSE r.ask)
  /\ r.entry = EntryFor(r.seen, r.ask)

MacroKnows(r) == r.op = "macro" /\ r.pc # "read" =>
  r.row = Stamped(tickets[r.tk], r.ask, r.ask) /\ r.entry = EntryFor(r.seen, r.ask)

ApproveKnows(r) == r.op = "approve" =>
  /\ r.pc # "read" => \E u \in Staff \cup {Nil} : r.approval = Asks(r.tk, u)
  /\ r.pc = "commit" => r.row = [tickets[r.tk] EXCEPT !.status = "PENDING"]
  /\ r.entry = NoHistory

\* A decision has read the approval, counted the other ones and looked at the
\* ticket, and all three readings still hold.
DecideKnows(r) == r.op = "decide" =>
  /\ LiveApproval(r.ap) /\ approvals[r.ap].ticket = r.tk
  /\ \E u \in Staff, decision \in Decision :
       /\ u \in Admins \/ approvals[r.ap].approver \in {u, Nil}
       /\ r.approval = Decides(approvals[r.ap], decision, u)
  /\ r.pc \notin {"read", "count"} => r.quiet = (PendingOf(r.tk) \ {r.ap} = {})
  /\ r.pc \in {"apply", "audit", "notify", "commit"} => r.seen = tickets[r.tk].status

DecideWrites(r) == r.op = "decide" /\ r.pc \in {"audit", "notify", "commit"} =>
  LET next == NextStatus(r.approval.status, r.quiet, r.seen) IN
  IF next = Nil THEN r.row = NoTicket /\ r.entry = NoHistory
  ELSE /\ r.row = [tickets[r.tk] EXCEPT !.status = next, !.closedAt = (next = "CANCELLED")]
       /\ r.entry = [from |-> r.seen, to |-> next]

Knows(r) ==
  /\ CreateKnows(r) /\ ReadKnows(r) /\ UpdateKnows(r) /\ MacroKnows(r)
  /\ ApproveKnows(r) /\ DecideKnows(r) /\ DecideWrites(r)

\* A row that is not in the table has no columns.
Blank ==
  /\ \A t \in Tickets : tickets[t].life = "unborn" => tickets[t] = NoTicket
  /\ \A a \in Approvals : approvals[a].life = "unborn" => approvals[a] = NoApproval

SerialInv == Blank /\ \A w \in Workers : Knows(req[w])

-----------------------------------------------------------------------------
\* What a request knows depends on the committed rows alone.
LEMMA KnowsKept ==
  ASSUME UNCHANGED <<tickets, approvals>>, NEW r
  PROVE  Knows(r) <=> Knows(r)'
<1>1. CreateKnows(r) <=> CreateKnows(r)'
  BY DEF CreateKnows
<1>2. ReadKnows(r) <=> ReadKnows(r)'
  BY DEF ReadKnows, Live
<1>3. UpdateKnows(r) <=> UpdateKnows(r)'
  BY DEF UpdateKnows
<1>4. MacroKnows(r) <=> MacroKnows(r)'
  BY DEF MacroKnows
<1>5. ApproveKnows(r) <=> ApproveKnows(r)'
  BY DEF ApproveKnows
<1>6. DecideKnows(r) <=> DecideKnows(r)'
  BY DEF DecideKnows, LiveApproval, PendingOf, ApprovalsOf
<1>7. DecideWrites(r) <=> DecideWrites(r)'
  BY DEF DecideWrites
<1> QED BY <1>1, <1>2, <1>3, <1>4, <1>5, <1>6, <1>7 DEF Knows

\* What the tables tell after a step of what is then in memory.
LEMMA KnowsNext ==
  ASSUME NEW v \in Workers, NEW r, req'[v] = r, Knows(r)'
  PROVE  Knows(req[v])'
<1>1. CreateKnows(req[v])'
  BY DEF Knows, CreateKnows
<1>2. ReadKnows(req[v])'
  BY DEF Knows, ReadKnows, Reads
<1>3. UpdateKnows(req[v])'
  BY DEF Knows, UpdateKnows
<1>4. MacroKnows(req[v])'
  BY DEF Knows, MacroKnows
<1>5. ApproveKnows(req[v])'
  BY DEF Knows, ApproveKnows
<1>6. DecideKnows(req[v])'
  BY DEF Knows, DecideKnows
<1>7. DecideWrites(req[v])'
  BY DEF Knows, DecideWrites
<1> QED BY <1>1, <1>2, <1>3, <1>4, <1>5, <1>6, <1>7 DEF Knows

\* A step that writes no table and leaves in memory what the tables say.
LEMMA LearnsInMemory ==
  ASSUME OneAtATime, Inv, SerialInv, NEW w \in Workers, NEW r, Knows(r),
         req' = [req EXCEPT ![w] = r], UNCHANGED <<tickets, approvals>>
  PROVE  SerialInv'
<1>1. Blank'
  BY DEF SerialInv, Blank
<1>2. ASSUME NEW v \in Workers PROVE Knows(req[v])'
  <2>1. v = w /\ req'[v] = r
    BY DEF OneAtATime, Inv, TypeOK
  <2>2. Knows(r)'
    BY KnowsKept
  <2> QED BY <2>1, <2>2, KnowsNext
<1> QED BY <1>1, <1>2 DEF SerialInv

\* An idle worker knows nothing.
LEMMA IdleKnows == Knows(Idle)
BY ConstantsOK DEF Idle, Knows, CreateKnows, ReadKnows, Reads, UpdateKnows, MacroKnows,
     ApproveKnows, DecideKnows, DecideWrites, Handler

\* Each handler has to know what concerns it.
LEMMA KnowsByHandler ==
  ASSUME NEW r
  PROVE  /\ r.op = "create" => (CreateKnows(r) => Knows(r))
         /\ r.op = "update" => (ReadKnows(r) /\ UpdateKnows(r) => Knows(r))
         /\ r.op = "macro" => (ReadKnows(r) /\ MacroKnows(r) => Knows(r))
         /\ r.op = "approve" => (ReadKnows(r) /\ ApproveKnows(r) => Knows(r))
         /\ r.op = "decide" => (DecideKnows(r) /\ DecideWrites(r) => Knows(r))
         /\ r.op = "remove" => (ReadKnows(r) => Knows(r))
BY DEF Knows, CreateKnows, ReadKnows, Reads, UpdateKnows, MacroKnows, ApproveKnows,
     DecideKnows, DecideWrites

-----------------------------------------------------------------------------
(* The steps of the handlers.                                              *)

\* A request that arrives has read what it keeps.
LEMMA ArriveKnows ==
  ASSUME OneAtATime, Inv, SerialInv, NEW w \in Workers, Arrive(w)
  PROVE  SerialInv'
<1>1. CASE CreateInsert(w)
  <2>1. UNCHANGED <<tickets, approvals>>
    BY <1>1 DEF CreateInsert
  <2> DEFINE Plain(t) == [Idle EXCEPT
                !.op = "create", !.pc = "workflow", !.tk = t, !.lock = "update",
                !.row = [NoTicket EXCEPT !.life = "live", !.status = "OPEN"],
                !.entry = [from |-> Nil, to |-> "OPEN"]]
             Gated(t, a, u) == [Idle EXCEPT
                 !.op = "create", !.pc = "workflow", !.tk = t, !.ap = a,
                 !.lock = "update",
                 !.row = [NoTicket EXCEPT !.life = "live", !.status = "PENDING"],
                 !.approval = [life |-> "live", ticket |-> t,
                               status |-> "PENDING", approver |-> u],
                 !.entry = [from |-> Nil, to |-> "PENDING"]]
  <2>2. ASSUME NEW t, req' = [req EXCEPT ![w] = Plain(t)] PROVE SerialInv'
    <3>1. Plain(t).op = "create" /\ CreateKnows(Plain(t))
      BY DEF CreateKnows, Idle, Opened
    <3>2. Knows(Plain(t))
      BY <3>1, KnowsByHandler
    <3> HIDE DEF Plain
    <3> QED BY <2>1, <2>2, <3>2, LearnsInMemory
  <2>3. ASSUME NEW t, NEW a \in Approvals, NEW u \in Admins \cup {Nil},
               req' = [req EXCEPT ![w] = Gated(t, a, u)]
        PROVE  SerialInv'
    <3>1. Gated(t, a, u).op = "create" /\ CreateKnows(Gated(t, a, u))
      BY DEF CreateKnows, Idle, Opened, Asks
    <3>2. Knows(Gated(t, a, u))
      BY <3>1, KnowsByHandler
    <3> HIDE DEF Gated
    <3> QED BY <2>1, <2>3, <3>2, LearnsInMemory
  <2>4. \E t \in FreshTickets :
          \/ req' = [req EXCEPT ![w] = Plain(t)]
          \/ \E a \in FreshApprovals, u \in Admins \cup {Nil} :
               req' = [req EXCEPT ![w] = Gated(t, a, u)]
    BY <1>1, Zenon DEF CreateInsert
  <2> HIDE DEF Plain, Gated
  <2> QED BY <2>2, <2>3, <2>4 DEF FreshApprovals
<1>2. CASE ReadTicket(w)
  <2> DEFINE Reading(t, op, ask, a) == [Idle EXCEPT
             !.op = op, !.pc = "read", !.tk = t, !.ap = a, !.ask = ask,
             !.seen = tickets[t].status]
  <2>1. PICK t \in Tickets, op \in Handlers \cap {"update", "macro", "approve", "remove"},
             ask \in Asked \cup {Nil}, a \in FreshApprovals \cup {Nil} :
          /\ Live(t)
          /\ op \notin {"update", "macro"} => ask = Nil
          /\ (op = "approve") = (a # Nil)
          /\ req' = [req EXCEPT ![w] = Reading(t, op, ask, a)]
    BY <1>2, Zenon DEF ReadTicket
  <2> DEFINE r == Reading(t, op, ask, a)
  <2>2. /\ r.op = op /\ r.pc = "read" /\ r.tk = t /\ r.ask = ask
        /\ r.seen = tickets[t].status /\ r.entry = NoHistory
    BY DEF Idle
  <2>3. UNCHANGED <<tickets, approvals>> /\ req' = [req EXCEPT ![w] = r]
    BY <1>2, <2>1 DEF ReadTicket
  <2> HIDE DEF r
  <2>4. ReadKnows(r) /\ UpdateKnows(r) /\ MacroKnows(r) /\ ApproveKnows(r)
    BY <2>1, <2>2 DEF ReadKnows, UpdateKnows, MacroKnows, ApproveKnows
  <2>5. Knows(r)
    BY <2>2, <2>4, KnowsByHandler
  <2> QED BY <2>3, <2>5, LearnsInMemory
<1>3. CASE ReadApproval(w)
  <2> DEFINE Reading(a, decision, u) == [Idle EXCEPT
             !.op = "decide", !.pc = "read", !.ap = a, !.tk = approvals[a].ticket,
             !.approval = [approvals[a] EXCEPT !.status = decision,
                             !.approver = IF @ = Nil THEN u ELSE @]]
  <2>1. PICK a \in Approvals, decision \in Decision, u \in Staff :
          /\ LiveApproval(a)
          /\ u \in Admins \/ approvals[a].approver \in {u, Nil}
          /\ req' = [req EXCEPT ![w] = Reading(a, decision, u)]
    BY <1>3, Zenon DEF ReadApproval
  <2> DEFINE r == Reading(a, decision, u)
  <2>2. /\ r.op = "decide" /\ r.pc = "read" /\ r.ap = a /\ r.tk = approvals[a].ticket
        /\ r.approval = Decides(approvals[a], decision, u)
    BY DEF Idle, Decides
  <2>3. UNCHANGED <<tickets, approvals>> /\ req' = [req EXCEPT ![w] = r]
    BY <1>3, <2>1 DEF ReadApproval
  <2> HIDE DEF r
  <2>4. DecideKnows(r) /\ DecideWrites(r)
    BY <2>1, <2>2 DEF DecideKnows, DecideWrites
  <2>5. Knows(r)
    BY <2>2, <2>4, KnowsByHandler
  <2> QED BY <2>3, <2>5, LearnsInMemory
<1> QED BY <1>1, <1>2, <1>3 DEF Arrive

\* A request that moves on without learning anything.
LEMMA MovesOn ==
  ASSUME OneAtATime, Inv, SerialInv, NEW w \in Workers, NEW pc,
         req' = [req EXCEPT ![w].pc = pc], UNCHANGED <<tickets, approvals>>,
         \/ req[w].op = "create"
         \/ req[w].op \in {"update", "macro"} /\ req[w].pc # "read"
         \/ req[w].op = "decide" /\ req[w].pc = "read" /\ pc = "count"
         \/ req[w].op = "decide" /\ req[w].pc \in {"audit", "notify"}
  PROVE  SerialInv'
<1> DEFINE r == [req[w] EXCEPT !.pc = pc]
<1>1. /\ r.op = req[w].op /\ r.pc = pc /\ r.tk = req[w].tk /\ r.ap = req[w].ap
      /\ r.ask = req[w].ask /\ r.seen = req[w].seen /\ r.quiet = req[w].quiet
      /\ r.row = req[w].row /\ r.approval = req[w].approval /\ r.entry = req[w].entry
  BY Current DEF Request
<1>2. Knows(req[w]) /\ req' = [req EXCEPT ![w] = r]
  BY DEF SerialInv
<1> HIDE DEF r
<1>3. r.op = "create" => CreateKnows(r)
  BY <1>1, <1>2 DEF Knows, CreateKnows
<1>4. r.op = "update" => ReadKnows(r) /\ UpdateKnows(r)
  BY <1>1, <1>2 DEF Knows, ReadKnows, Reads, UpdateKnows
<1>5. r.op = "macro" => ReadKnows(r) /\ MacroKnows(r)
  BY <1>1, <1>2 DEF Knows, ReadKnows, Reads, MacroKnows
<1>6. r.op = "decide" => DecideKnows(r) /\ DecideWrites(r)
  BY <1>1, <1>2 DEF Knows, DecideKnows, DecideWrites
<1>7. Knows(r)
  BY <1>1, <1>3, <1>4, <1>5, <1>6, KnowsByHandler
<1> QED BY <1>2, <1>7, LearnsInMemory

\* The UPDATE of a PATCH writes over the row that was read.
LEMMA UpdateTicketKnows ==
  ASSUME OneAtATime, Inv, SerialInv, NEW w \in Workers, UpdateTicket(w)
  PROVE  SerialInv'
<1> DEFINE row == Stamped(tickets[req[w].tk], req[w].ask,
                    IF req[w].ask = Nil THEN req[w].seen ELSE req[w].ask)
           entry == EntryFor(req[w].seen, req[w].ask)
           r == [req[w] EXCEPT !.pc = "workflow", !.lock = "update", !.row = row, !.entry = entry]
<1>1. req' = [req EXCEPT ![w] = r] /\ UNCHANGED <<tickets, approvals>> /\ req[w].op = "update"
  BY DEF UpdateTicket, At
<1>2. /\ r.op = req[w].op /\ r.tk = req[w].tk /\ r.ask = req[w].ask /\ r.seen = req[w].seen
      /\ r.row = row /\ r.entry = entry
  <2> HIDE DEF row, entry
  <2> QED BY Current DEF Request
<1> HIDE DEF r
<1>3. ReadKnows(r) /\ UpdateKnows(r)
  <2>1. ReadKnows(req[w])
    BY DEF SerialInv, Knows
  <2> QED BY <1>1, <1>2, <2>1 DEF ReadKnows, Reads, UpdateKnows
<1>4. Knows(r)
  BY <1>1, <1>2, <1>3, KnowsByHandler
<1> QED BY <1>1, <1>4, LearnsInMemory

\* So does the UPDATE of a macro.
LEMMA ApplyMacroKnows ==
  ASSUME OneAtATime, Inv, SerialInv, NEW w \in Workers, ApplyMacro(w)
  PROVE  SerialInv'
<1> DEFINE row == Stamped(tickets[req[w].tk], req[w].ask, req[w].ask)
           entry == EntryFor(req[w].seen, req[w].ask)
           r == [req[w] EXCEPT !.pc = "commit", !.lock = "update", !.row = row, !.entry = entry]
<1>1. req' = [req EXCEPT ![w] = r] /\ UNCHANGED <<tickets, approvals>> /\ req[w].op = "macro"
  BY DEF ApplyMacro, At
<1>2. /\ r.op = req[w].op /\ r.tk = req[w].tk /\ r.ask = req[w].ask /\ r.seen = req[w].seen
      /\ r.row = row /\ r.entry = entry
  <2> HIDE DEF row, entry
  <2> QED BY Current DEF Request
<1> HIDE DEF r
<1>3. ReadKnows(r) /\ MacroKnows(r)
  <2>1. ReadKnows(req[w])
    BY DEF SerialInv, Knows
  <2> QED BY <1>1, <1>2, <2>1 DEF ReadKnows, Reads, MacroKnows
<1>4. Knows(r)
  BY <1>1, <1>2, <1>3, KnowsByHandler
<1> QED BY <1>1, <1>4, LearnsInMemory

\* The inserted approval is PENDING and of the ticket.
LEMMA InsertApprovalKnows ==
  ASSUME OneAtATime, Inv, SerialInv, NEW w \in Workers, InsertApproval(w)
  PROVE  SerialInv'
<1> DEFINE r(u) == [req[w] EXCEPT !.pc = "reopen", !.lock = "share",
                      !.approval = [life |-> "live", ticket |-> req[w].tk,
                                    status |-> "PENDING", approver |-> u]]
<1>1. PICK u \in Staff \cup {Nil} : req' = [req EXCEPT ![w] = r(u)]
  BY DEF InsertApproval
<1>2. UNCHANGED <<tickets, approvals>> /\ req[w].op = "approve"
  BY DEF InsertApproval, At
<1>3. /\ r(u).op = req[w].op /\ r(u).pc = "reopen" /\ r(u).tk = req[w].tk
      /\ r(u).ask = req[w].ask /\ r(u).seen = req[w].seen
      /\ r(u).approval = Asks(req[w].tk, u) /\ r(u).entry = req[w].entry
  BY Current DEF Request, Asks
<1> HIDE DEF r
<1>4. ReadKnows(r(u)) /\ ApproveKnows(r(u))
  <2>1. ReadKnows(req[w]) /\ ApproveKnows(req[w])
    BY DEF SerialInv, Knows
  <2> QED BY <1>2, <1>3, <2>1 DEF ReadKnows, Reads, ApproveKnows
<1>5. Knows(r(u))
  BY <1>2, <1>3, <1>4, KnowsByHandler
<1> QED BY <1>1, <1>2, <1>5, LearnsInMemory

\* The ticket goes to PENDING from the row in the table.
LEMMA SetPendingKnows ==
  ASSUME OneAtATime, Inv, SerialInv, NEW w \in Workers, SetPending(w)
  PROVE  SerialInv'
<1> DEFINE row == [tickets[req[w].tk] EXCEPT !.status = "PENDING"]
           r == [req[w] EXCEPT !.pc = "commit", !.lock = "update", !.row = row]
<1>1. /\ req' = [req EXCEPT ![w] = r] /\ UNCHANGED <<tickets, approvals>>
      /\ req[w].op = "approve" /\ req[w].pc = "reopen"
  BY DEF SetPending, At
<1>2. /\ r.op = req[w].op /\ r.tk = req[w].tk /\ r.ask = req[w].ask /\ r.seen = req[w].seen
      /\ r.row = row /\ r.approval = req[w].approval /\ r.entry = req[w].entry
  <2> HIDE DEF row
  <2> QED BY Current DEF Request
<1> HIDE DEF r
<1>3. ReadKnows(r) /\ ApproveKnows(r)
  <2>1. ReadKnows(req[w]) /\ ApproveKnows(req[w])
    BY DEF SerialInv, Knows
  <2> QED BY <1>1, <1>2, <2>1 DEF ReadKnows, Reads, ApproveKnows
<1>4. Knows(r)
  BY <1>1, <1>2, <1>3, KnowsByHandler
<1> QED BY <1>1, <1>4, LearnsInMemory

\* The count is what the tables say.
LEMMA CountPendingKnows ==
  ASSUME OneAtATime, Inv, SerialInv, NEW w \in Workers, CountPending(w)
  PROVE  SerialInv'
<1> DEFINE quiet == PendingOf(req[w].tk) \ {req[w].ap} = {}
           r == [req[w] EXCEPT !.pc = "look", !.quiet = quiet]
<1>1. /\ req' = [req EXCEPT ![w] = r] /\ UNCHANGED <<tickets, approvals>>
      /\ req[w].op = "decide"
  BY DEF CountPending, At
<1>2. /\ r.op = req[w].op /\ r.pc = "look" /\ r.tk = req[w].tk /\ r.ap = req[w].ap
      /\ r.quiet = quiet /\ r.approval = req[w].approval
  <2> HIDE DEF quiet
  <2> QED BY Current DEF Request
<1> HIDE DEF r
<1>3. DecideKnows(r) /\ DecideWrites(r)
  <2>1. DecideKnows(req[w])
    BY DEF SerialInv, Knows
  <2> QED BY <1>1, <1>2, <2>1 DEF DecideKnows, DecideWrites
<1>4. Knows(r)
  BY <1>1, <1>2, <1>3, KnowsByHandler
<1> QED BY <1>1, <1>4, LearnsInMemory

\* The second read is what the tables say.
LEMMA LookAtTicketKnows ==
  ASSUME OneAtATime, Inv, SerialInv, NEW w \in Workers, LookAtTicket(w)
  PROVE  SerialInv'
<1> DEFINE r == [req[w] EXCEPT !.pc = "apply", !.seen = tickets[req[w].tk].status]
<1>1. /\ req' = [req EXCEPT ![w] = r] /\ UNCHANGED <<tickets, approvals>>
      /\ req[w].op = "decide" /\ req[w].pc = "look"
  BY DEF LookAtTicket, At
<1>2. /\ r.op = req[w].op /\ r.pc = "apply" /\ r.tk = req[w].tk /\ r.ap = req[w].ap
      /\ r.quiet = req[w].quiet /\ r.approval = req[w].approval
      /\ r.seen = tickets[req[w].tk].status
  BY Current DEF Request
<1> HIDE DEF r
<1>3. DecideKnows(r) /\ DecideWrites(r)
  <2>1. DecideKnows(req[w])
    BY DEF SerialInv, Knows
  <2> QED BY <1>1, <1>2, <2>1 DEF DecideKnows, DecideWrites
<1>4. Knows(r)
  BY <1>1, <1>2, <1>3, KnowsByHandler
<1> QED BY <1>1, <1>4, LearnsInMemory

\* The decision writes over the row that was read.
LEMMA ApplyDecisionKnows ==
  ASSUME OneAtATime, Inv, SerialInv, NEW w \in Workers, ApplyDecision(w)
  PROVE  SerialInv'
<1> DEFINE next == NextStatus(req[w].approval.status, req[w].quiet, req[w].seen)
           row == IF next = Nil THEN NoTicket
                  ELSE [tickets[req[w].tk] EXCEPT !.status = next,
                          !.closedAt = (next = "CANCELLED")]
           lock == IF next = Nil THEN "share" ELSE "update"
           entry == IF next = Nil THEN NoHistory ELSE [from |-> req[w].seen, to |-> next]
           r == [req[w] EXCEPT !.pc = "audit", !.lock = lock, !.row = row, !.entry = entry]
<1>1. /\ req' = [req EXCEPT ![w] = r] /\ UNCHANGED <<tickets, approvals>>
      /\ req[w].op = "decide" /\ req[w].pc = "apply"
  BY DEF ApplyDecision, At
<1>2. /\ r.op = req[w].op /\ r.pc = "audit" /\ r.tk = req[w].tk /\ r.ap = req[w].ap
      /\ r.quiet = req[w].quiet /\ r.approval = req[w].approval /\ r.seen = req[w].seen
      /\ r.row = row /\ r.entry = entry
  <2> HIDE DEF row, lock, entry
  <2> QED BY Current DEF Request
<1> HIDE DEF r, lock
<1>3. DecideKnows(r)
  <2>1. DecideKnows(req[w])
    BY DEF SerialInv, Knows
  <2> QED BY <1>1, <1>2, <2>1 DEF DecideKnows
<1>4. DecideWrites(r)
  BY <1>2 DEF DecideWrites
<1>5. Knows(r)
  BY <1>1, <1>2, <1>3, <1>4, KnowsByHandler
<1> QED BY <1>1, <1>5, LearnsInMemory

\* The row that a deletion locks is the row it read.
LEMMA LockForDeleteKnows ==
  ASSUME OneAtATime, Inv, SerialInv, NEW w \in Workers, LockForDelete(w)
  PROVE  SerialInv'
<1> DEFINE r == [req[w] EXCEPT !.pc = "cascade", !.lock = "delete"]
<1>1. /\ req' = [req EXCEPT ![w] = r] /\ UNCHANGED <<tickets, approvals>>
      /\ req[w].op = "remove" /\ req[w].pc = "read"
  BY DEF LockForDelete, At
<1>2. /\ r.op = req[w].op /\ r.tk = req[w].tk /\ r.ask = req[w].ask /\ r.seen = req[w].seen
  BY Current DEF Request
<1> HIDE DEF r
<1>3. ReadKnows(r)
  <2>1. ReadKnows(req[w])
    BY DEF SerialInv, Knows
  <2> QED BY <1>1, <1>2, <2>1 DEF ReadKnows, Reads
<1>4. Knows(r)
  BY <1>1, <1>2, <1>3, KnowsByHandler
<1> QED BY <1>1, <1>4, LearnsInMemory

\* A commit writes the rows of the request and leaves the others alone.
LEMMA CommitWrites ==
  ASSUME Inv, SerialInv, NEW w \in Workers, Commit(w)
  PROVE  /\ req[w].pc = "commit" /\ req[w].tk \in Tickets
         /\ tickets' = IF req[w].row.life = "live"
                       THEN [tickets EXCEPT ![req[w].tk] = req[w].row] ELSE tickets
         /\ approvals' = IF req[w].approval.life = "live"
                         THEN [approvals EXCEPT ![req[w].ap] = req[w].approval] ELSE approvals
         /\ req[w].op \in {"create", "update", "macro", "approve", "decide"}
<1>1. req[w].pc = "commit" /\ Shape(req[w]) /\ req[w] \in Request
  BY Current DEF Commit
<1>2. req[w].op # Nil
  BY <1>1 DEF Shape, Idle
<1> QED BY <1>1, <1>2 DEF Commit, Shape, Request, Handler

\* A commit leaves nobody with stale readings: its request was the only one.
LEMMA CommitKnows ==
  ASSUME OneAtATime, Inv, SerialInv, NEW w \in Workers, Commit(w)
  PROVE  SerialInv'
<1>1. \A t \in Tickets : tickets'[t] = tickets[t] \/ tickets'[t].life = "live"
  BY CommitWrites DEF Inv, TypeOK
<1>2. \A a \in Approvals : approvals'[a] = approvals[a] \/ approvals'[a].life = "live"
  BY CommitWrites DEF Inv, TypeOK
<1>3. Blank'
  BY <1>1, <1>2 DEF SerialInv, Blank
<1>4. \A v \in Workers : req'[v].op = Nil
  BY DEF OneAtATime, Commit, Finish, Idle, Inv, TypeOK
<1>5. /\ "create" # Nil /\ "update" # Nil /\ "macro" # Nil
      /\ "approve" # Nil /\ "decide" # Nil /\ "remove" # Nil
  BY ConstantsOK DEF Handler
<1>6. \A v \in Workers : Knows(req[v])'
  BY <1>4, <1>5 DEF Knows, CreateKnows, ReadKnows, Reads, UpdateKnows, MacroKnows,
     ApproveKnows, DecideKnows, DecideWrites
<1> QED BY <1>3, <1>6 DEF SerialInv

\* Nor does a deletion.
LEMMA DeleteCascadeKnows ==
  ASSUME OneAtATime, Inv, SerialInv, NEW w \in Workers, DeleteCascade(w)
  PROVE  SerialInv'
<1>1. \A t \in Tickets : tickets'[t] = tickets[t] \/ tickets'[t].life = "deleted"
  BY DEF DeleteCascade, NoTicket, Inv, TypeOK
<1>2. \A a \in Approvals : approvals'[a] = approvals[a] \/ approvals'[a].life = "deleted"
  BY DEF DeleteCascade, NoApproval
<1>3. Blank'
  BY <1>1, <1>2 DEF SerialInv, Blank
<1> DEFINE r == [req[w] EXCEPT !.pc = "audit", !.lock = "none"]
<1>4. r.op = "remove" /\ r.pc = "audit" /\ req' = [req EXCEPT ![w] = r]
  BY Current DEF DeleteCascade, At, Request
<1> HIDE DEF r
<1>5. ASSUME NEW s, s = r PROVE Knows(s)'
  BY <1>4, <1>5 DEF Knows, CreateKnows, ReadKnows, Reads, UpdateKnows, MacroKnows,
     ApproveKnows, DecideKnows, DecideWrites
<1>6. \A v \in Workers : req'[v] = r
  BY <1>4 DEF OneAtATime, Inv, TypeOK
<1>7. \A v \in Workers : Knows(req[v])'
  BY <1>5, <1>6, KnowsNext
<1> QED BY <1>3, <1>7 DEF SerialInv

\* Every step keeps what a lone request knows.
LEMMA NextSerial == ASSUME OneAtATime PROVE Inv /\ SerialInv /\ [Next]_vars => SerialInv'
<1> SUFFICES ASSUME Inv, SerialInv, [Next]_vars PROVE SerialInv'
  OBVIOUS
<1>1. CASE UNCHANGED vars
  <2>1. Blank'
    BY <1>1 DEF vars, SerialInv, Blank
  <2>2. ASSUME NEW v \in Workers PROVE Knows(req[v])'
    <3> DEFINE r == req[v]
    <3>1. UNCHANGED <<tickets, approvals>> /\ req' = req /\ Knows(r)
      BY <1>1 DEF vars, SerialInv
    <3>2. ASSUME NEW s, s = r PROVE Knows(s)'
      BY <3>1, <3>2, KnowsKept
    <3> QED BY <3>1, <3>2, KnowsNext
  <2> QED BY <2>1, <2>2 DEF SerialInv
<1>2. ASSUME NEW w \in Workers, Arrive(w) PROVE SerialInv'
  BY <1>2, ArriveKnows
<1>3. ASSUME NEW w \in Workers, Finish(w), UNCHANGED <<tickets, approvals>> PROVE SerialInv'
  BY <1>3, IdleKnows, LearnsInMemory DEF Finish
<1>4. ASSUME NEW w \in Workers, Proceed(w) PROVE SerialInv'
  <2>1. CASE ApplyWorkflowRules(w)
    <3>1. \/ req[w].op = "create"
          \/ req[w].op \in {"update", "macro"} /\ req[w].pc # "read"
      BY <2>1, Current DEF ApplyWorkflowRules, Shape, Request, Handler, Idle
    <3> DEFINE pc == IF req[w].op = "create" THEN "commit" ELSE "audit"
    <3>2. req' = [req EXCEPT ![w].pc = pc] /\ UNCHANGED <<tickets, approvals>>
      BY <2>1 DEF ApplyWorkflowRules
    <3> HIDE DEF pc
    <3> QED BY <3>1, <3>2, MovesOn
  <2>2. CASE AuditUpdate(w) \/ UpdateApproval(w) \/ AuditDecision(w) \/ NotifyDecision(w)
    <3>1. CASE AuditUpdate(w)
      BY <3>1, MovesOn DEF AuditUpdate, At
    <3>2. CASE UpdateApproval(w)
      BY <3>2, MovesOn DEF UpdateApproval, At
    <3>3. CASE AuditDecision(w)
      BY <3>3, MovesOn DEF AuditDecision, At
    <3>4. CASE NotifyDecision(w)
      BY <3>4, MovesOn DEF NotifyDecision, At
    <3> QED BY <2>2, <3>1, <3>2, <3>3, <3>4
  <2>3. CASE AuditDelete(w) \/ RowGone(w) \/ DeadlockVictim(w)
    BY <1>3, <2>3 DEF AuditDelete, RowGone, DeadlockVictim
  <2> QED BY <1>4, <2>1, <2>2, <2>3, UpdateTicketKnows, ApplyMacroKnows, InsertApprovalKnows,
       SetPendingKnows, CountPendingKnows, LookAtTicketKnows, ApplyDecisionKnows,
       LockForDeleteKnows, DeleteCascadeKnows, CommitKnows DEF Proceed
<1>5. ASSUME NEW w \in Workers, Die(w) PROVE SerialInv'
  BY <1>3, <1>5 DEF Die
<1> QED BY <1>1, <1>2, <1>4, <1>5 DEF Next

\* What a lone request has read is what the tables say.
THEOREM NothingIsStale == ASSUME OneAtATime PROVE Spec => []SerialInv
<1>1. Init => SerialInv
  <2> SUFFICES ASSUME Init PROVE SerialInv
    OBVIOUS
  <2> QED BY IdleKnows DEF Init, SerialInv, Blank
<1> QED BY <1>1, NextSerial, Invariant, PTL DEF Spec

-----------------------------------------------------------------------------
(* Each commit, and each cascade of a deletion, is one step of             *)
(* AtomicTickets; everything else leaves its rows alone.                   *)

\* Opening a ticket as AtomicTickets writes it.
TicketsWith(t, s) == [tickets EXCEPT ![t].life = "live", ![t].status = s]

\* A row inserted into the table is the row opened there column by column.
LEMMA OpenedRow ==
  ASSUME Inv, NEW t \in Tickets, tickets[t] = NoTicket, NEW s
  PROVE  /\ Opened(s).life = "live"
         /\ TicketsWith(t, s) = [tickets EXCEPT ![t] = Opened(s)]
<1>1. Opened(s).life = "live"
  BY DEF Opened, NoTicket
<1> DEFINE new == TicketsWith(t, s)
<1>2. tickets = [x \in Tickets |-> tickets[x]]
  BY DEF Inv, TypeOK
<1>3. new = [x \in Tickets |-> IF x = t THEN new[t] ELSE tickets[x]]
  BY <1>2 DEF TicketsWith
<1>4. new[t] = [[tickets[t] EXCEPT !.life = "live"] EXCEPT !.status = s]
  BY <1>2 DEF TicketsWith
<1>5. new[t] = Opened(s)
  BY <1>4 DEF Opened
<1> HIDE DEF new
<1>6. new = [tickets EXCEPT ![t] = Opened(s)]
  BY <1>2, <1>3, <1>5
<1> QED BY <1>1, <1>6 DEF new

\* The commit of a creation opens the ticket, with its approval if it has one.
LEMMA CreateIsAtomic ==
  ASSUME Inv, SerialInv, NEW w \in Workers, Commit(w), req[w].op = "create"
  PROVE  Atomic!Next
<1> DEFINE t == req[w].tk
<1>1. t \in Tickets /\ tickets[t] = NoTicket /\ tickets \in [Tickets -> TicketRow]
  BY Current, CommitWrites DEF Fits, SerialInv, Blank, Inv, TypeOK
<1>2. CreateKnows(req[w])
  BY DEF SerialInv, Knows
<1>3. \A s : /\ Opened(s).life = "live"
             /\ TicketsWith(t, s) = [tickets EXCEPT ![t] = Opened(s)]
  <2> HIDE DEF t
  <2> QED BY <1>1, OpenedRow
<1>4. CASE /\ req[w].row = Opened("OPEN") /\ req[w].approval = NoApproval
  <2>0. /\ req[w].row.life = "live" /\ req[w].approval.life # "live"
        /\ TicketsWith(t, "OPEN") = [tickets EXCEPT ![t] = Opened("OPEN")]
    BY <1>4, <1>3 DEF NoApproval
  <2>1. tickets' = [tickets EXCEPT ![t] = Opened("OPEN")] /\ UNCHANGED approvals
    BY <1>4, <2>0, CommitWrites
  <2>2. Atomic!Open(t)
    BY <1>1, <2>0, <2>1 DEF Atomic!Open, NoTicket, TicketsWith
  <2> QED BY <1>1, <2>2 DEF Atomic!Next
<1>5. ASSUME req[w].row = Opened("PENDING"), req[w].ap \in Approvals,
             NEW u \in Admins \cup {Nil}, req[w].approval = Asks(t, u)
      PROVE  Atomic!Next
  <2>0. /\ req[w].row.life = "live" /\ req[w].approval.life = "live"
        /\ TicketsWith(t, "PENDING") = [tickets EXCEPT ![t] = Opened("PENDING")]
    BY <1>5, <1>3 DEF Asks
  <2>1. /\ tickets' = [tickets EXCEPT ![t] = Opened("PENDING")]
        /\ approvals' = [approvals EXCEPT ![req[w].ap] = Asks(t, u)]
    BY <1>5, <2>0, CommitWrites
  <2>2. approvals[req[w].ap].life = "unborn"
    BY <1>5, Current, ConstantsOK DEF Fits, NewApproval
  <2>3. Atomic!OpenForApproval(t, req[w].ap, u)
    BY <1>1, <2>0, <2>1, <2>2 DEF Atomic!OpenForApproval, Atomic!Request, NoTicket, Asks,
         TicketsWith
  <2> QED BY <1>1, <1>5, <2>3 DEF Atomic!Next
<1> QED BY <1>2, <1>4, <1>5 DEF CreateKnows

\* The commit of a PATCH or a macro sets the status and stamps it, or nothing.
LEMMA EditIsAtomic ==
  ASSUME Inv, SerialInv, NEW w \in Workers, Commit(w), req[w].op \in {"update", "macro"}
  PROVE  Atomic!Next \/ UNCHANGED <<tickets, approvals>>
<1> DEFINE t == req[w].tk
           ask == req[w].ask
           s == IF ask = Nil THEN tickets[t].status ELSE ask
<1>1. /\ t \in Tickets /\ Live(t) /\ tickets[t] \in TicketRow /\ req[w].pc = "commit"
      /\ req[w].seen = tickets[t].status /\ ask \in Asked \cup {Nil}
      /\ ReadKnows(req[w]) /\ UpdateKnows(req[w]) /\ MacroKnows(req[w])
      /\ ask \in Status \cup {Nil}
  BY Current, CommitWrites DEF SerialInv, Knows, ReadKnows, Reads, Inv, TypeOK, Request
<1>2. UNCHANGED approvals
  BY Current, CommitWrites DEF ApprovalShape
<1>3. \/ req[w].row = Stamped(tickets[t], ask, s)
      \/ ask = Nil /\ req[w].row = Stamped(tickets[t], Nil, Nil)
  BY <1>1 DEF UpdateKnows, MacroKnows
<1>4. ASSUME req[w].row = Stamped(tickets[t], ask, s) PROVE Atomic!Next
  <2>1. tickets' = [tickets EXCEPT ![t] = Stamped(tickets[t], ask, s)]
    BY <1>1, <1>4, CommitWrites, StampedRow DEF Live
  <2>2. Stamped(tickets[t], ask, s) =
          [tickets[t] EXCEPT !.status = s, !.resolvedAt = @ \/ s = "RESOLVED",
                             !.closedAt = @ \/ s = "CLOSED"]
    BY <1>1 DEF Stamped, TicketRow
  <2>3. Atomic!SetStatus(t, s)
    BY <1>1, <1>2, <2>1, <2>2 DEF Atomic!SetStatus, Atomic!Exists, Live, Inv, TypeOK
  <2> QED BY <1>1, <2>3 DEF Atomic!Next
<1>5. ASSUME ask = Nil, req[w].row = Stamped(tickets[t], Nil, Nil)
      PROVE  UNCHANGED <<tickets, approvals>>
  <2>1. Stamped(tickets[t], Nil, Nil) = tickets[t]
    BY <1>1, ConstantsOK DEF Stamped, TicketRow, Status
  <2> QED BY <1>1, <1>2, <1>5, <2>1, CommitWrites DEF Inv, TypeOK
<1> QED BY <1>3, <1>4, <1>5

\* The commit of a new approval takes the ticket to PENDING with it.
LEMMA ApproveIsAtomic ==
  ASSUME Inv, SerialInv, NEW w \in Workers, Commit(w), req[w].op = "approve"
  PROVE  Atomic!Next
<1> DEFINE t == req[w].tk
           a == req[w].ap
<1>1. /\ t \in Tickets /\ Live(t) /\ tickets[t] \in TicketRow
      /\ req[w].row = [tickets[t] EXCEPT !.status = "PENDING"]
      /\ a \in Approvals /\ approvals[a].life = "unborn"
  BY Current, CommitWrites, ConstantsOK
     DEF SerialInv, Knows, ReadKnows, Reads, ApproveKnows, Inv, TypeOK, Shape, Fits, NewApproval
<1>2. PICK u \in Staff \cup {Nil} : req[w].approval = Asks(t, u)
  BY CommitWrites DEF SerialInv, Knows, ApproveKnows
<1>3. /\ tickets' = [tickets EXCEPT ![t] = req[w].row]
      /\ approvals' = [approvals EXCEPT ![a] = Asks(t, u)]
  BY <1>1, <1>2, CommitWrites DEF Asks, TicketRow, Live
<1>4. Atomic!AskApproval(t, a, u)
  BY <1>1, <1>3 DEF Atomic!AskApproval, Atomic!Exists, Atomic!Request, Live, Asks, Inv, TypeOK
<1> QED BY <1>1, <1>4 DEF Atomic!Next

\* A decision cancels the ticket, opens it, or leaves it alone, on what the
\* tables say when it commits.
LEMMA DecideIsAtomic ==
  ASSUME Inv, SerialInv, NEW w \in Workers, Commit(w), req[w].op = "decide"
  PROVE  Atomic!Next
<1> DEFINE t == req[w].tk
           a == req[w].ap
           r == req[w]
           next == NextStatus(r.approval.status, r.quiet, r.seen)
<1>1. /\ t \in Tickets /\ a \in Approvals /\ LiveApproval(a) /\ approvals[a].ticket = t
      /\ approvals[a] \in ApprovalRow /\ Live(t) /\ tickets[t] \in TicketRow
      /\ r.quiet = (PendingOf(t) \ {a} = {}) /\ r.seen = tickets[t].status
      /\ DecideWrites(r) /\ r.pc = "commit" /\ r.approval.life = "live"
  BY Current, CommitWrites
     DEF SerialInv, Knows, DecideKnows, Inv, TypeOK, ApprovalShape, NoOrphanApproval
<1>2. PICK u \in Staff, decision \in Decision :
        /\ u \in Admins \/ approvals[a].approver \in {u, Nil}
        /\ r.approval = Decides(approvals[a], decision, u)
  BY DEF SerialInv, Knows, DecideKnows
<1>3. r.approval.status = decision
  BY <1>1, <1>2 DEF Decides, ApprovalRow
<1>4. approvals' = [approvals EXCEPT ![a] = Decides(approvals[a], decision, u)]
  BY <1>1, <1>2, CommitWrites
<1>5. Atomic!Belongs(a, t) /\ Atomic!MayDecide(a, u) /\ Atomic!Decided(a, decision, u)
  <2>1. approvals \in [Approvals -> ApprovalRow]
    BY DEF Inv, TypeOK
  <2>2. Atomic!Belongs(a, t) /\ Atomic!MayDecide(a, u)
    BY <1>1, <1>2 DEF Atomic!Belongs, Atomic!MayDecide, LiveApproval
  <2>3. Atomic!Decided(a, decision, u)
    BY <1>1, <1>4, <2>1 DEF Atomic!Decided, Decides
  <2> QED BY <2>2, <2>3
<1>6. PendingOf(t) = Atomic!Waiting(t)
  BY <1>1 DEF PendingOf, ApprovalsOf, LiveApproval, Atomic!Waiting, Atomic!Belongs
<1>7. tickets' = IF next = Nil THEN tickets
                 ELSE [tickets EXCEPT ![t].status = next, ![t].closedAt = (next = "CANCELLED")]
  <2>1. next # Nil => [tickets[t] EXCEPT !.status = next,
                         !.closedAt = (next = "CANCELLED")].life = "live"
    BY <1>1 DEF Live, TicketRow
  <2>2. CASE next = Nil
    BY <1>1, <2>2, CommitWrites DEF DecideWrites, NoTicket
  <2>3. CASE next # Nil
    <3>1. tickets' = [tickets EXCEPT ![t] = [tickets[t] EXCEPT !.status = next,
                                               !.closedAt = (next = "CANCELLED")]]
      BY <1>1, <2>1, <2>3, CommitWrites DEF DecideWrites
    <3> HIDE DEF next
    <3> QED BY <1>1, <2>3, <3>1 DEF Inv, TypeOK
  <2> QED BY <2>2, <2>3
<1>8. CASE decision = "REJECTED"
  <2>1. next = IF tickets[t].status = "CANCELLED" THEN Nil ELSE "CANCELLED"
    BY <1>1, <1>3, <1>8 DEF NextStatus
  <2>2. IF tickets[t].status = "CANCELLED" THEN UNCHANGED tickets
        ELSE tickets' = [tickets EXCEPT ![t].status = "CANCELLED", ![t].closedAt = TRUE]
    BY <1>7, <2>1, ConstantsOK DEF Status
  <2>3. Atomic!Reject(t, a, u)
    BY <1>5, <1>8, <2>2 DEF Atomic!Reject
  <2> QED BY <1>1, <2>3 DEF Atomic!Next
<1>9. CASE decision = "APPROVED"
  <2>1. next = IF tickets[t].status = "PENDING" /\ PendingOf(t) \subseteq {a} THEN "OPEN" ELSE Nil
    BY <1>1, <1>3, <1>9 DEF NextStatus
  <2>2. IF tickets[t].status = "PENDING" /\ Atomic!Waiting(t) \subseteq {a}
        THEN tickets' = [tickets EXCEPT ![t].status = "OPEN", ![t].closedAt = FALSE]
        ELSE UNCHANGED tickets
    BY <1>6, <1>7, <2>1, ConstantsOK DEF Status
  <2>3. Atomic!Approve(t, a, u)
    BY <1>5, <1>9, <2>2 DEF Atomic!Approve
  <2> QED BY <1>1, <2>3 DEF Atomic!Next
<1> QED BY <1>8, <1>9 DEF Decision

\* The cascade deletes the ticket and its approvals in one step.
LEMMA DeleteIsAtomic ==
  ASSUME Inv, SerialInv, NEW w \in Workers, DeleteCascade(w)
  PROVE  Atomic!Next
<1> DEFINE t == req[w].tk
<1>1. t \in Tickets /\ Live(t)
  BY Current, ConstantsOK DEF DeleteCascade, At, Shape, Fits, Handler
<1>2. Atomic!Delete(t)
  BY <1>1 DEF DeleteCascade, Atomic!Delete, Atomic!Exists, Atomic!Belongs, Atomic!Unborn,
     Atomic!NoApproval, NoTicket, NoApproval, ApprovalsOf, LiveApproval, Live
<1> QED BY <1>1, <1>2 DEF Atomic!Next

\* Every other step leaves tickets and approvals alone.
LEMMA StepIsAtomic ==
  ASSUME Inv, SerialInv, [Next]_vars
  PROVE  [Atomic!Next]_(Atomic!vars)
<1>1. ASSUME NEW w \in Workers, Commit(w) PROVE [Atomic!Next]_(Atomic!vars)
  BY <1>1, CommitWrites, CreateIsAtomic, EditIsAtomic, ApproveIsAtomic, DecideIsAtomic
     DEF Atomic!vars
<1>2. ASSUME NEW w \in Workers, DeleteCascade(w) PROVE [Atomic!Next]_(Atomic!vars)
  BY <1>2, DeleteIsAtomic
<1>3. CASE UNCHANGED <<tickets, approvals>>
  BY <1>3 DEF Atomic!vars
<1> QED BY ZenonT(60), <1>1, <1>2, <1>3 DEF Next, Arrive, Proceed, vars, CreateInsert, ReadTicket,
     ReadApproval, ApplyWorkflowRules, UpdateTicket, AuditUpdate, ApplyMacro, InsertApproval,
     SetPending, UpdateApproval, CountPending, LookAtTicket, ApplyDecision, AuditDecision,
     NotifyDecision, LockForDelete, AuditDelete, RowGone, DeadlockVictim, Die

\* Served one at a time, the requests implement AtomicTickets: reads, counts,
\* locks and commits add up to one step on the current rows.
THEOREM ServiceIsAtomic == ASSUME OneAtATime PROVE Spec => RequestsAreAtomic
<1>1. Init => Atomic!Init
  BY DEF Init, Atomic!Init, NoTicket, NoApproval, Atomic!Unborn, Atomic!NoApproval
<1>2. Inv /\ SerialInv /\ [Next]_vars => [Atomic!Next]_(Atomic!vars)
  BY StepIsAtomic
<1> QED BY <1>1, <1>2, Invariant, NothingIsStale, PTL DEF Spec, RequestsAreAtomic, Atomic!Spec

-----------------------------------------------------------------------------
(* What the approvals of a ticket decide, read off the atomic steps.       *)

Rejects(a) ==
  LiveApproval(a)' /\ approvals'[a].status = "REJECTED" /\ approvals'[a] # approvals[a] =>
    tickets'[approvals'[a].ticket].status = "CANCELLED"

Releases(a) ==
  /\ LiveApproval(a) /\ LiveApproval(a)'
  /\ approvals'[a].status = "APPROVED" /\ approvals[a].status # "APPROVED"
  =>
  LET t == approvals[a].ticket IN
  tickets[t].status = "PENDING" =>
    tickets'[t].status = IF PendingOf(t)' = {} THEN "OPEN" ELSE "PENDING"

\* A new approval starts PENDING, whichever request asks for it.
LEMMA RequestGates ==
  ASSUME Inv, NEW b \in Approvals, NEW t \in Tickets, NEW u, Atomic!Request(b, t, u),
         NEW a \in Approvals
  PROVE  Rejects(a) /\ Releases(a)
BY DEF Atomic!Request, Rejects, Releases, Inv, TypeOK, LiveApproval

\* A rejection leaves the ticket CANCELLED.
LEMMA RejectGates ==
  ASSUME Inv, NEW b \in Approvals, NEW t \in Tickets, NEW u, Atomic!Reject(t, b, u),
         NEW a \in Approvals
  PROVE  Rejects(a) /\ Releases(a)
<1>1. /\ tickets \in [Tickets -> TicketRow] /\ approvals \in [Approvals -> ApprovalRow]
  BY DEF Inv, TypeOK
<1>2. /\ approvals'[b].status = "REJECTED" /\ approvals'[b].ticket = t
      /\ a # b => approvals'[a] = approvals[a]
  BY <1>1 DEF Atomic!Reject, Atomic!Decided, Atomic!Belongs, ApprovalRow
<1>3. tickets'[t].status = "CANCELLED"
  BY <1>1 DEF Atomic!Reject, TicketRow
<1> QED BY <1>2, <1>3 DEF Rejects, Releases

\* A grant opens a ticket that waits for no other approval.
LEMMA ApproveGates ==
  ASSUME Inv, NEW b \in Approvals, NEW t \in Tickets, NEW u, Atomic!Approve(t, b, u),
         NEW a \in Approvals
  PROVE  Rejects(a) /\ Releases(a)
<1>1. /\ tickets \in [Tickets -> TicketRow] /\ approvals \in [Approvals -> ApprovalRow]
  BY DEF Inv, TypeOK
<1>2. /\ approvals[b].ticket = t /\ approvals'[b].ticket = t
      /\ approvals'[b].status = "APPROVED"
      /\ \A x \in Approvals \ {b} : approvals'[x] = approvals[x]
  BY <1>1 DEF Atomic!Approve, Atomic!Decided, Atomic!Belongs, ApprovalRow
<1>3. Rejects(a)
  BY <1>2 DEF Rejects
<1>4. PendingOf(t)' = PendingOf(t) \ {b}
  BY <1>2 DEF PendingOf, ApprovalsOf, LiveApproval
<1>5. Atomic!Waiting(t) = PendingOf(t)
  BY DEF PendingOf, ApprovalsOf, LiveApproval, Atomic!Waiting, Atomic!Belongs
<1>6. ASSUME tickets[t].status = "PENDING"
      PROVE  tickets'[t].status = IF PendingOf(t) \subseteq {b} THEN "OPEN" ELSE "PENDING"
  BY <1>1, <1>5, <1>6 DEF Atomic!Approve, TicketRow
<1>7. \A s : s = t => (PendingOf(s)' = {} <=> PendingOf(t) \subseteq {b})
  BY <1>4 DEF PendingOf, ApprovalsOf, LiveApproval
<1>8. Releases(a)
  <2>1. CASE a = b
    <3> SUFFICES ASSUME tickets[t].status = "PENDING"
                 PROVE  tickets'[t].status = IF PendingOf(approvals[a].ticket)' = {}
                                             THEN "OPEN" ELSE "PENDING"
      BY <1>2, <2>1 DEF Releases
    <3> QED BY <1>2, <1>6, <1>7, <2>1
  <2>2. CASE a # b
    BY <1>2, <2>2 DEF Releases
  <2> QED BY <2>1, <2>2
<1> QED BY <1>3, <1>8

\* No other step decides an approval.
LEMMA StepGates ==
  ASSUME Inv, [Atomic!Next]_(Atomic!vars), NEW a \in Approvals
  PROVE  Rejects(a) /\ Releases(a)
<1>1. ASSUME approvals' = approvals PROVE Rejects(a) /\ Releases(a)
  BY <1>1 DEF Rejects, Releases
<1>2. ASSUME NEW t \in Tickets, NEW b \in Approvals, NEW u,
             Atomic!OpenForApproval(t, b, u) \/ Atomic!AskApproval(t, b, u)
      PROVE  Rejects(a) /\ Releases(a)
  BY <1>2, RequestGates DEF Atomic!OpenForApproval, Atomic!AskApproval
<1>3. ASSUME NEW t \in Tickets, Atomic!Delete(t) PROVE Rejects(a) /\ Releases(a)
  <2>1. approvals'[a] = approvals[a] \/ approvals'[a].life = "deleted"
    BY <1>3 DEF Atomic!Delete, Atomic!NoApproval
  <2> QED BY <2>1 DEF Rejects, Releases, LiveApproval
<1> QED BY <1>1, <1>2, <1>3, RejectGates, ApproveGates
       DEF Atomic!Next, Atomic!vars, Atomic!Open, Atomic!SetStatus

\* One rejection cancels the ticket and the last approval opens it, as long as
\* the requests are served one at a time.
THEOREM ApprovalsDecide == ASSUME OneAtATime PROVE Spec => ApprovalsGate
<1>1. Inv /\ SerialInv /\ [Next]_vars => [\A a \in Approvals : Rejects(a) /\ Releases(a)]_vars
  BY StepIsAtomic, StepGates
<1>2. Spec => [][\A a \in Approvals : Rejects(a) /\ Releases(a)]_vars
  BY <1>1, Invariant, NothingIsStale, PTL DEF Spec
<1>3. [\A a \in Approvals : Rejects(a) /\ Releases(a)]_vars
        => [\A a \in Approvals : Rejects(a)]_vars /\ [\A a \in Approvals : Releases(a)]_vars
  OBVIOUS
<1>4. Spec => RejectionCancels
  BY <1>2, <1>3, PTL DEF RejectionCancels, Rejects
<1>5. Spec => GateReleases
  BY <1>2, <1>3, PTL DEF GateReleases, Releases
<1> QED BY <1>4, <1>5 DEF ApprovalsGate

-----------------------------------------------------------------------------
(* The history of a ticket.                                                *)

Replaces(t) == trail'[t] # trail[t] /\ Live(t)' => trail'[t].from = tickets[t].status

Recorded(t) ==
  Live(t)' /\ tickets'[t].status \notin {tickets[t].status, "PENDING"} =>
    trail'[t].to = tickets'[t].status

\* A request's history row goes from the status in the table to the status it
\* writes, and there is one unless it writes PENDING or what is there already.
LEMMA EntryIsTrue ==
  ASSUME Inv, SerialInv, NEW w \in Workers, Commit(w)
  PROVE  /\ req[w].entry # NoHistory => req[w].entry.from = tickets[req[w].tk].status
         /\ req[w].row.life = "live" =>
              \/ req[w].row.status \in {tickets[req[w].tk].status, "PENDING"}
              \/ req[w].entry # NoHistory /\ req[w].entry.to = req[w].row.status
<1> DEFINE r == req[w]
           old == tickets[r.tk]
<1>1. /\ r.tk \in Tickets /\ old \in TicketRow /\ r.pc = "commit"
      /\ Knows(r) /\ Fits(r) /\ r \in Request
  BY CommitWrites, Current DEF SerialInv, Inv, TypeOK
<1>2. CASE r.op = "create"
  <2>1. old.status = Nil
    BY <1>1, <1>2 DEF Fits, SerialInv, Blank, NoTicket
  <2>2. PICK s \in {"OPEN", "PENDING"} : r.row = Opened(s) /\ r.entry = [from |-> Nil, to |-> s]
    BY <1>1, <1>2 DEF Knows, CreateKnows
  <2>3. r.row.status = s
    BY <2>2 DEF Opened, NoTicket
  <2>4. r.entry.from = Nil /\ r.entry.to = s /\ r.entry # NoHistory
    BY <2>2, ConstantsOK DEF NoHistory, Status
  <2> QED BY <2>1, <2>3, <2>4
<1>3. CASE r.op \in {"update", "macro"}
  <2>1. /\ r.seen = old.status /\ r.ask \in Status \cup {Nil}
        /\ r.entry = EntryFor(r.seen, r.ask)
        /\ \E next : r.row = Stamped(old, r.ask, next)
    BY <1>1, <1>3 DEF Knows, ReadKnows, Reads, UpdateKnows, MacroKnows, Request
  <2>2. r.row.status = IF r.ask = Nil THEN old.status ELSE r.ask
    BY <1>1, <2>1 DEF Stamped, TicketRow
  <2> QED BY <2>1, <2>2 DEF EntryFor, NoHistory
<1>4. CASE r.op = "approve"
  BY <1>1, <1>4 DEF Knows, ApproveKnows, TicketRow
<1>5. CASE r.op = "decide"
  <2> DEFINE next == NextStatus(r.approval.status, r.quiet, r.seen)
  <2>1. r.seen = old.status /\ DecideWrites(r)
    BY <1>1, <1>5 DEF Knows, DecideKnows
  <2>2. CASE next = Nil
    BY <1>1, <1>5, <2>1, <2>2 DEF DecideWrites, NoTicket
  <2>3. CASE next # Nil
    <3>1. /\ r.row = [old EXCEPT !.status = next, !.closedAt = (next = "CANCELLED")]
          /\ r.entry = [from |-> r.seen, to |-> next]
      BY <1>1, <1>5, <2>1, <2>3 DEF DecideWrites
    <3> HIDE DEF next
    <3> QED BY <1>1, <2>1, <2>3, <3>1 DEF TicketRow, NoHistory
  <2> QED BY <2>2, <2>3
<1> QED BY <1>2, <1>3, <1>4, <1>5, CommitWrites

\* No step but a commit touches the history of a ticket that stays.
LEMMA StepKeepsHistory ==
  ASSUME Inv, SerialInv, [Next]_vars, NEW t \in Tickets
  PROVE  Replaces(t) /\ Recorded(t)
<1>1. CASE UNCHANGED <<tickets, trail>>
  BY <1>1 DEF Replaces, Recorded, Live
<1>2. ASSUME NEW w \in Workers, DeleteCascade(w) PROVE Replaces(t) /\ Recorded(t)
  <2>1. \/ tickets'[t] = tickets[t] /\ trail'[t] = trail[t]
        \/ tickets'[t].life = "deleted"
    BY <1>2 DEF DeleteCascade, NoTicket, Inv, TypeOK
  <2> QED BY <2>1 DEF Replaces, Recorded, Live
<1>3. ASSUME NEW w \in Workers, Commit(w) PROVE Replaces(t) /\ Recorded(t)
  <2>1. /\ req[w].tk \in Tickets
        /\ tickets'[t] = IF req[w].row.life = "live" /\ t = req[w].tk
                         THEN req[w].row ELSE tickets[t]
        /\ trail'[t] = IF req[w].entry # NoHistory /\ t = req[w].tk
                       THEN req[w].entry ELSE trail[t]
    BY <1>3, CommitWrites DEF Commit, Inv, TypeOK
  <2> QED BY <1>3, <2>1, EntryIsTrue DEF Replaces, Recorded
<1> QED BY ZenonT(60), <1>1, <1>2, <1>3 DEF Next, Arrive, Proceed, vars, CreateInsert, ReadTicket,
     ReadApproval, ApplyWorkflowRules, UpdateTicket, AuditUpdate, ApplyMacro, InsertApproval,
     SetPending, UpdateApproval, CountPending, LookAtTicket, ApplyDecision, AuditDecision,
     NotifyDecision, LockForDelete, AuditDelete, RowGone, DeadlockVictim, Die

\* A history row starts from the status that was replaced, and every change of
\* status but the one to PENDING is the latest row, as long as the requests are
\* served one at a time.
THEOREM HistoryIsTrue == ASSUME OneAtATime PROVE Spec => HistoryFollowsStatus
<1>1. Inv /\ SerialInv /\ [Next]_vars => [\A t \in Tickets : Replaces(t) /\ Recorded(t)]_vars
  BY StepKeepsHistory
<1>2. Spec => [][\A t \in Tickets : Replaces(t) /\ Recorded(t)]_vars
  BY <1>1, Invariant, NothingIsStale, PTL DEF Spec
<1>3. [\A t \in Tickets : Replaces(t) /\ Recorded(t)]_vars
        => [\A t \in Tickets : Replaces(t)]_vars /\ [\A t \in Tickets : Recorded(t)]_vars
  OBVIOUS
<1>4. Spec => EntryReplacesStatus
  BY <1>2, <1>3, PTL DEF EntryReplacesStatus, Replaces
<1>5. Spec => ChangesRecorded
  BY <1>2, <1>3, PTL DEF ChangesRecorded, Recorded
<1> QED BY <1>4, <1>5 DEF HistoryFollowsStatus
=============================================================================
