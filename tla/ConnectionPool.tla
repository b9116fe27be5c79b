--------------------------- MODULE ConnectionPool ---------------------------
(***************************************************************************)
(* The connections to the database. A handler that runs an interactive     *)
(* transaction holds one, and asks the same pool for another when it       *)
(* writes its audit record outside of the transaction. Enough of them      *)
(* wait for each other; the limits of Prisma free them.                    *)
(***************************************************************************)
EXTENDS Integers, Sequences, FiniteSets, SequencesExt

CONSTANTS Jobs, PoolSize

(***************************************************************************)
(* free counts the idle connections of the pool, queue has the jobs that   *)
(* wait for one in the order they asked. open holds the jobs whose         *)
(* transaction has a connection, lent those that hold a second one, and    *)
(* kept those whose transaction has committed.                             *)
(***************************************************************************)
VARIABLES pc, free, queue, open, lent, audited, kept

vars == <<pc, free, queue, open, lent, audited, kept>>

Init ==
  /\ pc = [j \in Jobs |-> "idle"]
  /\ free = PoolSize
  /\ queue = <<>> /\ open = {} /\ lent = {}
  /\ audited = {} /\ kept = {}

Goto(j, l) == pc' = [pc EXCEPT ![j] = l]

-----------------------------------------------------------------------------
\* $transaction asks for a connection; what the job did before is forgotten.
Begin(j) ==
  /\ pc[j] = "idle"
  /\ Goto(j, "begin")
  /\ queue' = Append(queue, j)
  /\ audited' = audited \ {j} /\ kept' = kept \ {j}
  /\ UNCHANGED <<free, open, lent>>

\* The pool serves who asked first.
Grant ==
  /\ free > 0 /\ queue # <<>>
  /\ free' = free - 1
  /\ queue' = Tail(queue)
  /\ LET j == Head(queue) IN
       IF pc[j] = "begin"
       THEN open' = open \cup {j} /\ UNCHANGED lent /\ Goto(j, "work")
       ELSE lent' = lent \cup {j} /\ UNCHANGED open /\ Goto(j, "audit")
  /\ UNCHANGED <<audited, kept>>

\* No connection within maxWait: the transaction does not begin.
GiveUp(j) ==
  /\ pc[j] = "begin"
  /\ Goto(j, "idle")
  /\ \E i \in DOMAIN queue : queue[i] = j /\ queue' = RemoveAt(queue, i)
  /\ UNCHANGED <<free, open, lent, audited, kept>>

\* The statements of the transaction. After its timeout they throw.
Work(j) ==
  /\ pc[j] = "work"
  /\ IF j \in open THEN Goto(j, "second") /\ queue' = Append(queue, j)
     ELSE Goto(j, "idle") /\ UNCHANGED queue
  /\ UNCHANGED <<free, open, lent, audited, kept>>

AuditUnheard(j) ==  \* Fault: a record that fails is passed over
  /\ pc[j] = "audit"
  /\ lent' = lent \ {j}
  /\ free' = free + 1
  /\ audited' \in {audited, audited \cup {j}}
  /\ Goto(j, "commit")
  /\ UNCHANGED <<queue, open, kept>>

\* The audit record is committed on the second connection, also when the
\* transaction has been rolled back meanwhile.
Audit(j) ==
  /\ pc[j] = "audit"
  /\ lent' = lent \ {j}
  /\ free' = free + 1
  /\ audited' = audited \cup {j}
  /\ Goto(j, "commit")
  /\ UNCHANGED <<queue, open, kept>>

ExpireLent(j) ==  \* Fault: the rolled back transaction keeps its connection
  /\ j \in open
  /\ open' = open \ {j}
  /\ UNCHANGED <<pc, free, queue, lent, audited, kept>>

ExpireOnceMore(j) ==  \* Fault: only a transaction that waits for nothing is rolled back
  /\ j \in open /\ pc[j] # "second"
  /\ open' = open \ {j}
  /\ free' = free + 1
  /\ UNCHANGED <<pc, queue, lent, audited, kept>>

\* The timeout of the transaction rolls it back, wherever its handler waits.
Expire(j) ==
  /\ j \in open
  /\ open' = open \ {j}
  /\ free' = free + 1
  /\ UNCHANGED <<pc, queue, lent, audited, kept>>

CommitExpired(j) ==  \* Fault: a transaction that has expired gives its connection back again
  /\ pc[j] = "commit"
  /\ open' = open \ {j}
  /\ free' = free + 1
  /\ kept' = IF j \in open THEN kept \cup {j} ELSE kept
  /\ Goto(j, "idle")
  /\ UNCHANGED <<queue, lent, audited>>

\* The end of the handler: the transaction commits if it is still there.
Commit(j) ==
  /\ pc[j] = "commit"
  /\ open' = open \ {j}
  /\ free' = IF j \in open THEN free + 1 ELSE free
  /\ kept' = IF j \in open THEN kept \cup {j} ELSE kept
  /\ Goto(j, "idle")
  /\ UNCHANGED <<queue, lent, audited>>

Step(j) == Work(j) \/ Audit(j) \/ Commit(j)

Next ==
  \/ \E j \in Jobs :
       Begin(j) \/ GiveUp(j) \/ Expire(j) \/ Work(j) \/ Audit(j) \/ Commit(j)
  \/ Grant

\* Handlers go on, the pool serves, and both limits pass in the end.
Fairness ==
  /\ WF_vars(Grant)
  /\ \A j \in Jobs : WF_vars(Step(j)) /\ WF_vars(Expire(j))

Spec == Init /\ [][Next]_vars
FairSpec == Spec /\ Fairness

-----------------------------------------------------------------------------
\* The jobs and the pool keep to their types.
TypeOK ==
  /\ pc \in [Jobs -> {"idle", "begin", "work", "second", "audit", "commit"}]
  /\ free \in 0..PoolSize
  /\ queue \in Seq(Jobs)
  /\ open \subseteq Jobs /\ lent \subseteq Jobs
  /\ audited \subseteq Jobs /\ kept \subseteq Jobs

\* No connection is lost or given back twice, though a transaction may time out at
\* any moment of its handler: the free ones and the held ones make up the pool.
ConnectionsAddUp == free + Cardinality(open) + Cardinality(lent) = PoolSize

\* What was committed was audited, whichever of the two a timeout hits.
KeptAreAudited == kept \subseteq audited

\* Every handler ends, even when all connections are held by transactions that
\* wait for a second one.
HandlersEnd == \A j \in Jobs : (pc[j] # "idle") ~> (pc[j] = "idle")

\* Transactions leave the pool as it was, and an audit record of what they did.
TransactionsAddUp == ConnectionsAddUp /\ KeptAreAudited
=============================================================================
