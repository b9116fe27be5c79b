------------------------------- MODULE Inbox -------------------------------
(***************************************************************************)
(* Notifications: a broadcast reads which recipients are active and then   *)
(* inserts a row for each, a recipient marks one row or all of them read,  *)
(* and the audit log is told afterwards.                                   *)
(***************************************************************************)
CONSTANTS Workers, Users, Notes, Nil

(***************************************************************************)
(* notes[n] is the row: whom it is for (Nil while there is none) and       *)
(* whether it is read; active are the active users; told holds <<u, n>>    *)
(* when the audit log says that u read n.                                  *)
(***************************************************************************)
VARIABLES notes, active, told, req

vars == <<notes, active, told, req>>

NoNote == [to |-> Nil, isRead |-> FALSE]
Request == [pc : {"idle", "insert", "mark", "record"}, by : Users \cup {Nil},
            to : SUBSET Users, marked : SUBSET Notes]
Idle == [pc |-> "idle", by |-> Nil, to |-> {}, marked |-> {}]

Inbox(u) == {n \in Notes : notes[n].to = u}
Unread(u) == {n \in Inbox(u) : ~notes[n].isRead}
Free == {n \in Notes : notes[n].to = Nil}

At(w, pc) == req[w].pc = pc
Arrive(w, r) == At(w, "idle") /\ req' = [req EXCEPT ![w] = r]
Finish(w) == req' = [req EXCEPT ![w] = Idle]

Init ==
  /\ notes = [n \in Notes |-> NoNote]
  /\ active = Users
  /\ told = {}
  /\ req = [w \in Workers |-> Idle]

-----------------------------------------------------------------------------
\* The listed users, each once, as far as they are active now; none, no row.
Broadcast(w, ids) ==
  /\ ids \cap active # {}
  /\ Arrive(w, [Idle EXCEPT !.pc = "insert", !.to = ids \cap active])
  /\ UNCHANGED <<notes, active, told>>

\* create tells one user without asking whether it is active.
Create(w, u) ==
  /\ Arrive(w, [Idle EXCEPT !.pc = "insert", !.to = {u}])
  /\ UNCHANGED <<notes, active, told>>

\* One statement inserts the rows, under new keys.
Insert(w) ==
  /\ At(w, "insert")
  /\ \E row \in [req[w].to -> Free] :
       /\ \A u, v \in req[w].to : row[u] = row[v] => u = v
       /\ notes' = [n \in Notes |-> IF \E u \in req[w].to : row[u] = n
                    THEN [to |-> CHOOSE u \in req[w].to : row[u] = n, isRead |-> FALSE]
                    ELSE notes[n]]
  /\ Finish(w) /\ UNCHANGED <<active, told>>

MarkAnyAsRead(w, u, n) ==  \* Fault: whosever row it is
  /\ notes[n].to # Nil /\ ~notes[n].isRead
  /\ Arrive(w, [Idle EXCEPT !.pc = "mark", !.by = u, !.marked = {n}])
  /\ UNCHANGED <<notes, active, told>>

\* The row is the caller's and was not read when the handler looked.
MarkAsRead(w, u, n) ==
  /\ n \in Unread(u)
  /\ Arrive(w, [Idle EXCEPT !.pc = "mark", !.by = u, !.marked = {n}])
  /\ UNCHANGED <<notes, active, told>>

Read(marked) == notes' = [n \in Notes |->
  IF n \in marked THEN [notes[n] EXCEPT !.isRead = TRUE] ELSE notes[n]]

UpdateRead(w) ==
  /\ At(w, "mark")
  /\ Read(req[w].marked)
  /\ req' = [req EXCEPT ![w].pc = "record"]
  /\ UNCHANGED <<active, told>>

\* Fault: rows that another request is about to mark are left to its record
MarkAllOthers(w, u) ==
  LET others == UNION {req[v].marked : v \in Workers} IN
  /\ Read(Unread(u))
  /\ Arrive(w, [Idle EXCEPT !.pc = "record", !.by = u, !.marked = Unread(u) \ others])
  /\ UNCHANGED <<active, told>>

\* One statement marks what is unread when it runs and counts it.
MarkAllAsRead(w, u) ==
  /\ Read(Unread(u))
  /\ Arrive(w, [Idle EXCEPT !.pc = "record", !.by = u, !.marked = Unread(u)])
  /\ UNCHANGED <<active, told>>

Record(w) ==
  /\ At(w, "record")
  /\ told' = told \cup ({req[w].by} \X req[w].marked)
  /\ Finish(w) /\ UNCHANGED <<notes, active>>

\* users.service.ts enables or disables an account.
Switch(u) ==
  /\ active' = IF u \in active THEN active \ {u} ELSE active \cup {u}
  /\ UNCHANGED <<notes, told, req>>

Next ==
  \/ \E w \in Workers :
       \/ \E ids \in SUBSET Users : Broadcast(w, ids)
       \/ \E u \in Users : Create(w, u) \/ MarkAllAsRead(w, u)
       \/ \E u \in Users, n \in Notes : MarkAsRead(w, u, n)
       \/ Insert(w) \/ UpdateRead(w) \/ Record(w)
  \/ \E u \in Users : Switch(u)

Spec == Init /\ [][Next]_vars

-----------------------------------------------------------------------------
\* Rows, records and requests keep to their types.
TypeOK ==
  /\ notes \in [Notes -> [to : Users \cup {Nil}, isRead : BOOLEAN]]
  /\ active \subseteq Users
  /\ told \subseteq Users \X Notes
  /\ req \in [Workers -> Request]

\* Every read row is told, or about to be, by its recipient, whichever of two
\* requests that mark it gets there first. (markAsRead, markAllAsRead.)
ReadIsTold ==
  \A n \in Notes : notes[n].isRead =>
    \/ <<notes[n].to, n>> \in told
    \/ \E w \in Workers : At(w, "record") /\ req[w].by = notes[n].to /\ n \in req[w].marked

\* What the audit log says was read is read, and the reader is its recipient.
ToldIsTrue == \A t \in told : notes[t[2]].isRead /\ notes[t[2]].to = t[1]

\* The log and the bell agree on what has been read, and by whom.
LogAgrees == ReadIsTold /\ ToldIsTrue
=============================================================================
