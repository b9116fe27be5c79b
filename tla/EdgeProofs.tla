----------------------------- MODULE EdgeProofs -----------------------------
(***************************************************************************)
(* Proofs about the parts around the desk, each as MCEdge has it beside    *)
(* the others: a step is a step of one part and leaves the others alone,   *)
(* so what is proved of a part holds of the whole.                         *)
(***************************************************************************)
EXTENDS MCEdge, FiniteSetTheorems, SequenceTheorems, TLAPS

-----------------------------------------------------------------------------
\* Every step is, for each of the parts, a step or a stutter.
LEMMA Areas ==
  [Next]_vars =>
    /\ [C!Next]_(C!vars) /\ [B!Next]_(B!vars) /\ [D!Next]_(D!vars)
    /\ [P!Next]_(P!vars) /\ [S!Next]_(S!vars)
BY DEF Next, vars, C!vars, B!vars, D!vars, P!vars, S!vars, AllPool, AllCalendar,
       AllScripts, AllPortal, AllScreens

\* So is every behaviour a behaviour of each.
LEMMA Parts == Spec => C!Spec /\ B!Spec /\ D!Spec /\ P!Spec /\ S!Spec
<1>1. Init => C!Init /\ B!Init /\ D!Init /\ P!Init /\ S!Init
  BY DEF Init
<1> QED
  BY <1>1, Areas, PTL DEF Spec, C!Spec, B!Spec, D!Spec, P!Spec, S!Spec

\* The pool counts with the Cardinality of FiniteSets, as the theorems about it do.
LEMMA SameCount == \A s : C!Cardinality(s) = Cardinality(s)
BY DEF C!Cardinality, Cardinality

-----------------------------------------------------------------------------
(***************************************************************************)
(* The pool: however many handlers share it, and wherever the limits       *)
(* strike, no connection is lost and nothing is committed that was not     *)
(* audited.                                                                *)
(***************************************************************************)

Waiting == {"begin", "second"}

\* Who waits is in the queue once, and who is in the queue waits.
QueueInv ==
  /\ \A i \in DOMAIN queue : pc[queue[i]] \in Waiting
  /\ \A i, k \in DOMAIN queue : queue[i] = queue[k] => i = k

\* What a job holds at each point of its handler.
HoldsInv ==
  /\ IsFiniteSet(open) /\ IsFiniteSet(lent)
  /\ \A j \in open : pc[j] \in {"work", "second", "audit", "commit"}
  /\ \A j \in Jobs : j \in lent <=> pc[j] = "audit"

\* A handler that is about to commit has its record.
AuditInv ==
  /\ \A j \in Jobs : pc[j] = "commit" => j \in audited
  /\ C!KeptAreAudited

PoolTypes ==
  /\ pc \in [Jobs -> {"idle", "begin", "work", "second", "audit", "commit"}]
  /\ free \in Nat
  /\ queue \in Seq(Jobs)
  /\ open \subseteq Jobs /\ lent \subseteq Jobs
  /\ audited \subseteq Jobs /\ kept \subseteq Jobs

PoolInv == PoolTypes /\ QueueInv /\ HoldsInv /\ AuditInv /\ C!ConnectionsAddUp

-----------------------------------------------------------------------------
\* A queue without its i-th element has the others.
LEMMA WithoutOne ==
  ASSUME NEW set, NEW q \in Seq(set), NEW i \in DOMAIN q
  PROVE  /\ C!RemoveAt(q, i) \in Seq(set)
         /\ Len(C!RemoveAt(q, i)) = Len(q) - 1
         /\ \A k \in 1..(Len(q) - 1) :
              C!RemoveAt(q, i)[k] = IF k < i THEN q[k] ELSE q[k + 1]
<1> DEFINE front == SubSeq(q, 1, i - 1)
           back == SubSeq(q, i + 1, Len(q))
<1>1. i \in 1..Len(q) /\ Len(q) \in Nat
  OBVIOUS
<1>2. front \in Seq(set) /\ Len(front) = i - 1 /\ \A k \in 1..(i - 1) : front[k] = q[k]
  BY <1>1
<1>3. back \in Seq(set) /\ Len(back) = Len(q) - i
      /\ \A k \in 1..(Len(q) - i) : back[k] = q[k + i]
  BY <1>1
<1>4. C!RemoveAt(q, i) = front \o back
  BY DEF C!RemoveAt
<1> HIDE DEF front, back
<1>5. C!RemoveAt(q, i) \in Seq(set) /\ Len(C!RemoveAt(q, i)) = Len(q) - 1
  BY <1>1, <1>2, <1>3, <1>4
<1>a. \A k \in 1..(Len(front) + Len(back)) :
        (front \o back)[k] = IF k =< Len(front) THEN front[k] ELSE back[k - Len(front)]
  BY <1>2, <1>3, ConcatProperties
<1>6. ASSUME NEW k \in 1..(Len(q) - 1)
      PROVE  C!RemoveAt(q, i)[k] = IF k < i THEN q[k] ELSE q[k + 1]
  <2>1. CASE k < i
    BY <1>1, <1>2, <1>3, <1>4, <2>1
  <2>2. CASE k >= i
    <3>a. k \in 1..(Len(front) + Len(back)) /\ ~(k =< Len(front))
      BY <1>1, <1>2, <1>3, <2>2
    <3>1. C!RemoveAt(q, i)[k] = back[k - (i - 1)]
      BY <1>2, <1>4, <1>a, <3>a
    <3> QED
      BY <1>1, <1>3, <2>2, <3>1
  <2> QED
    BY <1>1, <2>1, <2>2
<1> QED
  BY <1>5, <1>6

\* Adding or removing a job changes the number of those who hold by one.
LEMMA OneMore ==
  ASSUME NEW set, IsFiniteSet(set), NEW x, x \notin set
  PROVE  IsFiniteSet(set \cup {x}) /\ Cardinality(set \cup {x}) = Cardinality(set) + 1
BY FS_AddElement

LEMMA OneLess ==
  ASSUME NEW set, IsFiniteSet(set), NEW x \in set
  PROVE  IsFiniteSet(set \ {x}) /\ Cardinality(set \ {x}) = Cardinality(set) - 1
BY FS_RemoveElement

LEMMA Counted == PoolInv => Cardinality(open) \in Nat /\ Cardinality(lent) \in Nat
BY FS_CardinalityType DEF PoolInv, HoldsInv

-----------------------------------------------------------------------------
LEMMA PoolInitially == ASSUME PoolSize \in Nat PROVE C!Init => PoolInv
<1> SUFFICES ASSUME C!Init PROVE PoolInv
  OBVIOUS
<1>1. IsFiniteSet({}) /\ Cardinality({}) = 0
  BY FS_EmptySet
<1> QED
  BY <1>1, SameCount DEF C!Init, PoolInv, PoolTypes, QueueInv, HoldsInv, AuditInv,
                         C!KeptAreAudited, C!ConnectionsAddUp

\* A job that does not wait goes to the end of the queue.
LEMMA Queued ==
  ASSUME PoolTypes, QueueInv, NEW j \in Jobs, pc[j] \notin Waiting, NEW l \in Waiting,
         pc' = [pc EXCEPT ![j] = l], queue' = Append(queue, j)
  PROVE  QueueInv'
<1>1. \A i \in DOMAIN queue : queue[i] # j /\ queue[i] \in Jobs
  BY DEF PoolTypes, QueueInv
<1>2. \A k \in Jobs : pc'[k] = IF k = j THEN l ELSE pc[k]
  BY DEF PoolTypes
<1>3. /\ DOMAIN queue' = 1..(Len(queue) + 1) /\ DOMAIN queue = 1..Len(queue)
      /\ Len(queue) \in Nat
      /\ \A i \in DOMAIN queue' : queue'[i] = IF i = Len(queue) + 1 THEN j ELSE queue[i]
  BY DEF PoolTypes
<1>4. \A i \in DOMAIN queue' : pc'[queue'[i]] \in Waiting
  BY <1>1, <1>2, <1>3 DEF QueueInv
<1>5. \A i, k \in DOMAIN queue' : queue'[i] = queue'[k] => i = k
  BY <1>1, <1>3 DEF QueueInv
<1> QED
  BY <1>4, <1>5 DEF QueueInv, Waiting

LEMMA BeginKeeps ==
  ASSUME PoolInv, NEW j \in Jobs, C!Begin(j)
  PROVE  PoolInv'
<1>1. PoolTypes'
  BY DEF PoolInv, PoolTypes, C!Begin, C!Goto
<1>2. QueueInv'
  BY Queued DEF PoolInv, C!Begin, C!Goto, Waiting
<1>3. HoldsInv'
  BY DEF PoolInv, PoolTypes, HoldsInv, C!Begin, C!Goto
<1>4. AuditInv'
  BY DEF PoolInv, PoolTypes, AuditInv, C!KeptAreAudited, C!Begin, C!Goto
<1>5. C!ConnectionsAddUp'
  BY SameCount DEF PoolInv, C!ConnectionsAddUp, C!Begin
<1> QED
  BY <1>1, <1>2, <1>3, <1>4, <1>5 DEF PoolInv

LEMMA GrantKeeps ==
  ASSUME PoolInv, C!Grant
  PROVE  PoolInv'
<1> DEFINE j == Head(queue)
<1>1. j \in Jobs /\ j = queue[1] /\ 1 \in DOMAIN queue /\ pc[j] \in Waiting
  BY DEF PoolInv, PoolTypes, QueueInv, C!Grant
<1>2. queue' \in Seq(Jobs) /\ \A k \in DOMAIN queue' : k + 1 \in DOMAIN queue
                                                       /\ queue'[k] = queue[k + 1]
  BY DEF PoolInv, PoolTypes, C!Grant
<1>3. \A k \in DOMAIN queue' : queue'[k] # j
  BY <1>1, <1>2 DEF PoolInv, PoolTypes, QueueInv
<1>4. pc' = [pc EXCEPT ![j] = IF pc[j] = "begin" THEN "work" ELSE "audit"]
  BY DEF C!Grant, C!Goto
<1>5. PoolTypes'
  BY <1>1, <1>2, <1>4 DEF PoolInv, PoolTypes, C!Grant
<1>6. QueueInv'
  <2>1. \A k \in DOMAIN queue' : pc'[queue'[k]] \in Waiting
    BY <1>1, <1>2, <1>3, <1>4 DEF PoolInv, PoolTypes, QueueInv
  <2>2. \A k, l \in DOMAIN queue' : queue'[k] = queue'[l] => k = l
    BY <1>2 DEF PoolInv, PoolTypes, QueueInv
  <2> QED
    BY <2>1, <2>2 DEF QueueInv
<1>7. HoldsInv' /\ C!ConnectionsAddUp'
  <2>1. CASE pc[j] = "begin"
    <3>1. j \notin open /\ open' = open \cup {j} /\ lent' = lent /\ free' = free - 1
      BY <2>1 DEF PoolInv, HoldsInv, C!Grant
    <3>2. IsFiniteSet(open') /\ Cardinality(open') = Cardinality(open) + 1
      BY <3>1, OneMore DEF PoolInv, HoldsInv
    <3>3. HoldsInv'
      BY <1>1, <1>4, <2>1, <3>1, <3>2 DEF PoolInv, PoolTypes, HoldsInv
    <3> QED
      BY <3>1, <3>2, <3>3, Counted, SameCount DEF PoolInv, PoolTypes, C!ConnectionsAddUp
  <2>2. CASE pc[j] = "second"
    <3>1. j \notin lent /\ lent' = lent \cup {j} /\ open' = open /\ free' = free - 1
      BY <1>1, <2>2 DEF PoolInv, HoldsInv, C!Grant
    <3>2. IsFiniteSet(lent') /\ Cardinality(lent') = Cardinality(lent) + 1
      BY <3>1, OneMore DEF PoolInv, HoldsInv
    <3>3. HoldsInv'
      BY <1>1, <1>4, <2>2, <3>1, <3>2 DEF PoolInv, PoolTypes, HoldsInv
    <3> QED
      BY <3>1, <3>2, <3>3, Counted, SameCount DEF PoolInv, PoolTypes, C!ConnectionsAddUp
  <2> QED
    BY <1>1, <2>1, <2>2 DEF Waiting
<1>8. AuditInv'
  BY <1>1, <1>4 DEF PoolInv, PoolTypes, AuditInv, C!KeptAreAudited, C!Grant
<1> QED
  BY <1>5, <1>6, <1>7, <1>8 DEF PoolInv

LEMMA GiveUpKeeps ==
  ASSUME PoolInv, NEW j \in Jobs, C!GiveUp(j)
  PROVE  PoolInv'
<1>1. PICK i \in DOMAIN queue : queue[i] = j /\ queue' = C!RemoveAt(queue, i)
  BY DEF C!GiveUp
<1>2. /\ queue' \in Seq(Jobs) /\ Len(queue') = Len(queue) - 1
      /\ \A k \in 1..(Len(queue) - 1) :
           queue'[k] = IF k < i THEN queue[k] ELSE queue[k + 1]
  BY <1>1, WithoutOne DEF PoolInv, PoolTypes
<1>3. i \in 1..Len(queue) /\ DOMAIN queue' = 1..(Len(queue) - 1) /\ Len(queue) \in Nat
  BY <1>2 DEF PoolInv, PoolTypes
<1>4. PoolTypes'
  BY <1>2 DEF PoolInv, PoolTypes, C!GiveUp, C!Goto
<1>5. QueueInv'
  <2> DEFINE at(k) == IF k < i THEN k ELSE k + 1
  <2>1. \A k \in DOMAIN queue' :
          at(k) \in DOMAIN queue /\ at(k) # i /\ queue'[k] = queue[at(k)]
    BY <1>2, <1>3 DEF PoolInv, PoolTypes
  <2>2. \A k, l \in DOMAIN queue' : at(k) = at(l) => k = l
    BY <1>3
  <2> HIDE DEF at
  <2>3. \A k \in DOMAIN queue' : queue'[k] # j /\ queue'[k] \in Jobs
    BY <1>1, <1>2, <2>1 DEF PoolInv, PoolTypes, QueueInv
  <2>4. \A k \in DOMAIN queue' : pc'[queue'[k]] \in Waiting
    BY <2>1, <2>3 DEF PoolInv, PoolTypes, QueueInv, C!GiveUp, C!Goto
  <2>5. \A k, l \in DOMAIN queue' : queue'[k] = queue'[l] => k = l
    BY <2>1, <2>2 DEF PoolInv, QueueInv
  <2> QED
    BY <2>4, <2>5 DEF QueueInv
<1>6. HoldsInv'
  BY DEF PoolInv, PoolTypes, HoldsInv, C!GiveUp, C!Goto
<1>7. AuditInv'
  BY DEF PoolInv, PoolTypes, AuditInv, C!KeptAreAudited, C!GiveUp, C!Goto
<1>8. C!ConnectionsAddUp'
  BY SameCount DEF PoolInv, C!ConnectionsAddUp, C!GiveUp
<1> QED
  BY <1>4, <1>5, <1>6, <1>7, <1>8 DEF PoolInv

LEMMA WorkKeeps ==
  ASSUME PoolInv, NEW j \in Jobs, C!Work(j)
  PROVE  PoolInv'
<1>1. PoolTypes'
  <2>1. CASE j \in open
    <3>1. queue' = Append(queue, j) /\ pc' = [pc EXCEPT ![j] = "second"]
      BY <2>1 DEF C!Work, C!Goto
    <3>2. queue' \in Seq(Jobs)
      BY <3>1 DEF PoolInv, PoolTypes
    <3>3. pc' \in [Jobs -> {"idle", "begin", "work", "second", "audit", "commit"}]
      BY <3>1 DEF PoolInv, PoolTypes
    <3> QED
      BY <3>2, <3>3 DEF PoolInv, PoolTypes, C!Work
  <2>2. CASE j \notin open
    BY <2>2 DEF PoolInv, PoolTypes, C!Work, C!Goto
  <2> QED
    BY <2>1, <2>2
<1>2. QueueInv'
  <2>1. CASE j \in open
    BY <2>1, Queued DEF PoolInv, C!Work, C!Goto, Waiting
  <2>2. CASE j \notin open
    <3>1. \A i \in DOMAIN queue : queue[i] # j /\ queue[i] \in Jobs
      BY DEF PoolInv, PoolTypes, QueueInv, C!Work, Waiting
    <3> QED
      BY <2>2, <3>1 DEF PoolInv, PoolTypes, QueueInv, C!Work, C!Goto
  <2> QED
    BY <2>1, <2>2
<1>3. HoldsInv'
  BY DEF PoolInv, PoolTypes, HoldsInv, C!Work, C!Goto
<1>4. AuditInv'
  BY DEF PoolInv, PoolTypes, AuditInv, C!KeptAreAudited, C!Work, C!Goto
<1>5. C!ConnectionsAddUp'
  BY SameCount DEF PoolInv, C!ConnectionsAddUp, C!Work
<1> QED
  BY <1>1, <1>2, <1>3, <1>4, <1>5 DEF PoolInv

LEMMA AuditKeeps ==
  ASSUME PoolInv, NEW j \in Jobs, C!Audit(j)
  PROVE  PoolInv'
<1>1. j \in lent
  BY DEF PoolInv, HoldsInv, C!Audit
<1>2. IsFiniteSet(lent') /\ Cardinality(lent') = Cardinality(lent) - 1
  BY <1>1, OneLess DEF PoolInv, HoldsInv, C!Audit
<1>3. PoolTypes'
  BY DEF PoolInv, PoolTypes, C!Audit, C!Goto
<1>4. QueueInv'
  BY DEF PoolInv, PoolTypes, QueueInv, C!Audit, C!Goto, Waiting
<1>5. HoldsInv'
  BY <1>2 DEF PoolInv, PoolTypes, HoldsInv, C!Audit, C!Goto
<1>6. AuditInv'
  BY DEF PoolInv, PoolTypes, AuditInv, C!KeptAreAudited, C!Audit, C!Goto
<1>7. C!ConnectionsAddUp'
  BY <1>2, Counted, SameCount DEF PoolInv, PoolTypes, C!ConnectionsAddUp, C!Audit
<1> QED
  BY <1>3, <1>4, <1>5, <1>6, <1>7 DEF PoolInv

LEMMA ExpireKeeps ==
  ASSUME PoolInv, NEW j \in Jobs, C!Expire(j)
  PROVE  PoolInv'
<1>1. IsFiniteSet(open') /\ Cardinality(open') = Cardinality(open) - 1
  BY OneLess DEF PoolInv, HoldsInv, C!Expire
<1>2. PoolTypes' /\ QueueInv' /\ HoldsInv' /\ AuditInv'
  BY <1>1 DEF PoolInv, PoolTypes, QueueInv, HoldsInv, AuditInv, C!KeptAreAudited, C!Expire
<1>3. C!ConnectionsAddUp'
  <2>1. free' = free + 1 /\ lent' = lent
    BY DEF C!Expire
  <2> QED
    BY <1>1, <2>1, Counted, SameCount DEF PoolInv, PoolTypes, C!ConnectionsAddUp
<1> QED
  BY <1>2, <1>3 DEF PoolInv

LEMMA CommitKeeps ==
  ASSUME PoolInv, NEW j \in Jobs, C!Commit(j)
  PROVE  PoolInv'
<1>1. PoolTypes'
  BY DEF PoolInv, PoolTypes, C!Commit, C!Goto
<1>2. QueueInv'
  BY DEF PoolInv, PoolTypes, QueueInv, C!Commit, C!Goto, Waiting
<1>3. HoldsInv' /\ C!ConnectionsAddUp'
  <2>1. CASE j \in open
    <3>1. IsFiniteSet(open') /\ Cardinality(open') = Cardinality(open) - 1
      BY <2>1, OneLess DEF PoolInv, HoldsInv, C!Commit
    <3>2. HoldsInv'
      BY <3>1 DEF PoolInv, PoolTypes, HoldsInv, C!Commit, C!Goto
    <3> QED
      BY <2>1, <3>1, <3>2, Counted, SameCount DEF PoolInv, PoolTypes, C!ConnectionsAddUp,
             C!Commit
  <2>2. CASE j \notin open
    <3>1. open' = open
      BY <2>2 DEF C!Commit
    <3> QED
      BY <2>2, <3>1, SameCount DEF PoolInv, PoolTypes, HoldsInv, C!ConnectionsAddUp,
                                   C!Commit, C!Goto
  <2> QED
    BY <2>1, <2>2
<1>4. AuditInv'
  BY DEF PoolInv, PoolTypes, AuditInv, C!KeptAreAudited, C!Commit, C!Goto
<1> QED
  BY <1>1, <1>2, <1>3, <1>4 DEF PoolInv

LEMMA PoolKeeps == PoolInv /\ [C!Next]_(C!vars) => PoolInv'
<1> SUFFICES ASSUME PoolInv, [C!Next]_(C!vars) PROVE PoolInv'
  OBVIOUS
<1>1. CASE UNCHANGED C!vars
  BY <1>1, SameCount DEF C!vars, PoolInv, PoolTypes, QueueInv, HoldsInv, AuditInv,
                         C!KeptAreAudited, C!ConnectionsAddUp
<1>2. CASE C!Grant
  BY <1>2, GrantKeeps
<1>3. ASSUME NEW j \in Jobs,
             \/ C!Begin(j) \/ C!GiveUp(j) \/ C!Expire(j)
             \/ C!Work(j) \/ C!Audit(j) \/ C!Commit(j)
      PROVE  PoolInv'
  BY <1>3, BeginKeeps, GiveUpKeeps, ExpireKeeps, WorkKeeps, AuditKeeps, CommitKeeps
<1> QED
  BY <1>1, <1>2, <1>3 DEF C!Next

-----------------------------------------------------------------------------
\* The inductive invariant: the queue, what each handler holds, and the records.
THEOREM PoolInvariant == ASSUME PoolSize \in Nat PROVE C!Spec => []PoolInv
BY PoolInitially, PoolKeeps, PTL DEF C!Spec

\* Jobs and pool keep to their types. (The free connections are never more than
\* the pool has, as the others are held.)
THEOREM PoolTypeCorrect == ASSUME PoolSize \in Nat PROVE C!Spec => []C!TypeOK
<1>1. PoolInv => C!TypeOK
  BY Counted, SameCount DEF PoolInv, PoolTypes, C!TypeOK, C!ConnectionsAddUp
<1> QED
  BY <1>1, PoolInvariant, PTL

\* Whatever times out, all connections come back to the pool, and a transaction
\* that is committed has its audit record.
THEOREM PoolIsKept == ASSUME PoolSize \in Nat PROVE Spec => []TransactionsAddUp
<1>1. PoolInv => TransactionsAddUp
  BY DEF PoolInv, AuditInv, C!TransactionsAddUp, TransactionsAddUp
<1> QED
  BY <1>1, Parts, PoolInvariant, PTL

-----------------------------------------------------------------------------
(***************************************************************************)
(* The screens: for any number of saves, and while others write, a screen  *)
(* shows the effect of what was saved and keeps what was not.              *)
(***************************************************************************)

SaveType == [pc : {"idle", "sent", "accepted", "refetch", "done"},
             text : Texts \cup {Nil}, rev : Nat \cup {Nil}]

ScreenTypes ==
  /\ rev \in Nat /\ cache \in [rev : Nat, failed : BOOLEAN]
  /\ fetch \in [pc : {"none", "asked", "read"}, rev : Nat \cup {Nil}]
  /\ save \in [Saves -> SaveType]
  /\ posted \subseteq Texts /\ draft \in Texts \cup {Nil}

\* An answer under way is not older than the write of a save that waits for it or has
\* ended: it was dropped when the save was accepted, or read after that.
AnswerIsNew(r) ==
  /\ r.pc # "idle" => r.text \in Texts
  /\ r.pc \in {"accepted", "refetch", "done"} =>
       r.rev \in Nat /\ r.rev =< rev /\ r.text \in posted
  /\ r.pc \in {"refetch", "done"} /\ fetch.pc = "read" => fetch.rev >= r.rev
  /\ r.pc = "refetch" => fetch.pc # "none"
  /\ r.pc = "done" => cache.rev >= r.rev \/ cache.failed \/ fetch.pc # "none"

ScreenInv ==
  /\ ScreenTypes
  /\ cache.rev =< rev
  /\ fetch.pc = "read" => fetch.rev \in Nat /\ fetch.rev =< rev /\ fetch.rev >= cache.rev
  /\ \A s \in Saves : AnswerIsNew(save[s])

LEMMA ScreenInitially == S!Init => ScreenInv
BY DEF S!Init, ScreenInv, ScreenTypes, SaveType, AnswerIsNew, S!NoSave, S!NoFetch

\* One save goes on, and for the others nothing is lost.
LEMMA SaveGoesOn ==
  ASSUME ScreenInv, NEW s \in Saves, NEW r \in SaveType, save' = [save EXCEPT ![s] = r],
         \A f : f = r => AnswerIsNew(f)', UNCHANGED <<cache, fetch>>, rev' \in Nat, rev' >= rev,
         posted \subseteq posted', posted' \subseteq Texts, draft' \in Texts \cup {Nil}
  PROVE  ScreenInv'
<1>1. /\ save' \in [Saves -> SaveType]
      /\ \A q \in Saves : save'[q] = IF q = s THEN r ELSE save[q]
  BY DEF ScreenInv, ScreenTypes
<1>2. ScreenTypes'
  BY <1>1 DEF ScreenInv, ScreenTypes
<1>3. ASSUME NEW q \in Saves PROVE AnswerIsNew(save[q])'
  <2>1. CASE q = s
    BY <1>1, <2>1 DEF AnswerIsNew
  <2>2. CASE q # s
    BY <1>1, <2>2 DEF ScreenInv, ScreenTypes, AnswerIsNew
  <2> QED
    BY <2>1, <2>2
<1>4. /\ cache'.rev =< rev'
      /\ fetch'.pc = "read" => fetch'.rev \in Nat /\ fetch'.rev =< rev'
                               /\ fetch'.rev >= cache'.rev
  BY DEF ScreenInv, ScreenTypes
<1> QED
  BY <1>2, <1>3, <1>4 DEF ScreenInv

LEMMA EasyScreenSteps ==
  ASSUME ScreenInv, S!OthersWrite \/ S!Ask \/ S!Read \/ \E text \in Texts : S!Type(text)
  PROVE  ScreenInv'
<1>1. save' = save /\ posted' = posted /\ cache' = cache /\ rev' \in Nat /\ rev' >= rev
  BY DEF ScreenInv, ScreenTypes, S!OthersWrite, S!Ask, S!Read, S!Type
<1>2. \/ fetch' = fetch
      \/ fetch.pc = "none" /\ fetch' = [pc |-> "asked", rev |-> Nil]
      \/ fetch.pc = "asked" /\ fetch' = [pc |-> "read", rev |-> rev] /\ rev' = rev
  BY DEF S!OthersWrite, S!Ask, S!Asked, S!Read, S!Type
<1>3. ScreenTypes'
  BY <1>1, <1>2 DEF ScreenInv, ScreenTypes, S!OthersWrite, S!Ask, S!Read, S!Type
<1>4. ASSUME NEW s \in Saves PROVE AnswerIsNew(save[s])'
  BY <1>1, <1>2 DEF ScreenInv, ScreenTypes, AnswerIsNew
<1>5. /\ cache'.rev =< rev'
      /\ fetch'.pc = "read" => fetch'.rev \in Nat /\ fetch'.rev =< rev'
                               /\ fetch'.rev >= cache'.rev
  BY <1>1, <1>2 DEF ScreenInv, ScreenTypes
<1> QED
  BY <1>3, <1>4, <1>5 DEF ScreenInv

\* What a save becomes when the fetch that it waits for has ended.
LEMMA ReleasedSave ==
  ASSUME ScreenInv, NEW s \in Saves
  PROVE  /\ S!Released[s] \in SaveType
         /\ S!Released[s].rev = save[s].rev /\ S!Released[s].text = save[s].text
         /\ S!Released[s].pc = IF save[s].pc = "refetch" THEN "done" ELSE save[s].pc
BY DEF ScreenInv, ScreenTypes, SaveType, S!Released, S!At

LEMMA FetchEnds ==
  ASSUME ScreenInv, S!Arrive \/ S!FetchFails
  PROVE  ScreenInv'
<1>1. /\ save' = S!Released /\ fetch' = S!NoFetch
      /\ rev' = rev /\ posted' = posted /\ draft' = draft
  BY DEF S!Arrive, S!FetchFails
<1>2. /\ cache' \in [rev : Nat, failed : BOOLEAN]
      /\ cache'.rev =< rev
      /\ cache'.failed \/ (fetch.pc = "read" /\ cache'.rev = fetch.rev)
  <2>1. CASE S!Arrive
    <3>1. fetch.pc = "read" /\ cache' = [rev |-> fetch.rev, failed |-> FALSE]
      BY <2>1 DEF S!Arrive
    <3>2. fetch.rev \in Nat /\ fetch.rev =< rev
      BY <3>1 DEF ScreenInv
    <3> QED
      BY <3>1, <3>2
  <2>2. CASE S!FetchFails
    <3>1. cache' = [cache EXCEPT !.failed = TRUE] /\ cache \in [rev : Nat, failed : BOOLEAN]
      BY <2>2 DEF S!FetchFails, ScreenInv, ScreenTypes
    <3>2. cache'.rev = cache.rev /\ cache'.failed /\ cache' \in [rev : Nat, failed : BOOLEAN]
      BY <3>1
    <3> QED
      BY <3>2 DEF ScreenInv
  <2> QED
    BY <2>1, <2>2
<1>3. save' \in [Saves -> SaveType]
  BY <1>1, ReleasedSave DEF S!Released
<1>4. ScreenTypes'
  BY <1>1, <1>2, <1>3 DEF ScreenInv, ScreenTypes, S!NoFetch
<1>5. ASSUME NEW s \in Saves PROVE AnswerIsNew(save[s])'
  BY <1>1, <1>2, ReleasedSave DEF ScreenInv, ScreenTypes, SaveType, AnswerIsNew, S!NoFetch
<1> QED
  BY <1>1, <1>2, <1>4, <1>5 DEF ScreenInv, S!NoFetch

LEMMA SubmitKeeps ==
  ASSUME ScreenInv, NEW s \in Saves, S!Submit(s)
  PROVE  ScreenInv'
<1> DEFINE r == [pc |-> "sent", text |-> draft, rev |-> Nil]
<1>1. /\ rev \in Nat /\ posted \subseteq Texts /\ draft \in Texts
      /\ save' = [save EXCEPT ![s] = r] /\ UNCHANGED <<rev, posted, cache, fetch, draft>>
  BY DEF ScreenInv, ScreenTypes, S!Submit, S!Becomes
<1>2. r \in SaveType
  BY <1>1 DEF SaveType
<1>3. \A f : f = r => AnswerIsNew(f)'
  BY <1>1 DEF AnswerIsNew
<1>4. /\ rev' \in Nat /\ rev' >= rev /\ posted \subseteq posted' /\ posted' \subseteq Texts
      /\ draft' \in Texts \cup {Nil} /\ UNCHANGED <<cache, fetch>>
  BY <1>1
<1> HIDE DEF r
<1>5. save' = [save EXCEPT ![s] = r]
  BY <1>1 DEF r
<1> QED
  BY <1>2, <1>3, <1>4, <1>5, SaveGoesOn

LEMMA AcceptKeeps ==
  ASSUME ScreenInv, NEW s \in Saves, S!Accept(s)
  PROVE  ScreenInv'
<1> DEFINE r == [save[s] EXCEPT !.pc = "accepted", !.rev = rev + 1]
<1>1. /\ save[s] \in SaveType /\ rev \in Nat /\ rev' = rev + 1 /\ posted \subseteq Texts
      /\ posted' = posted \cup {save[s].text} /\ UNCHANGED <<cache, fetch, draft>>
      /\ draft \in Texts \cup {Nil} /\ save[s].pc = "sent" /\ AnswerIsNew(save[s])
      /\ save' = [save EXCEPT ![s] = r]
  BY DEF ScreenInv, ScreenTypes, S!Accept, S!At, S!Becomes
<1>2. rev + 1 \in Nat /\ rev + 1 >= rev /\ save[s].text \in Texts
  BY <1>1 DEF AnswerIsNew
<1>3. /\ r \in SaveType /\ r.pc = "accepted" /\ r.rev = rev + 1
      /\ r.text = save[s].text
  <2> DEFINE n == rev + 1
  <2>1. n \in Nat
    BY <1>2
  <2> HIDE DEF n
  <2>2. /\ [save[s] EXCEPT !.pc = "accepted", !.rev = n] \in SaveType
        /\ [save[s] EXCEPT !.pc = "accepted", !.rev = n].pc = "accepted"
        /\ [save[s] EXCEPT !.pc = "accepted", !.rev = n].rev = n
        /\ [save[s] EXCEPT !.pc = "accepted", !.rev = n].text = save[s].text
    BY <1>1, <2>1 DEF SaveType
  <2> QED
    BY <2>2 DEF n
<1> HIDE DEF r
<1>4. \A f : f = r => AnswerIsNew(f)'
  BY <1>1, <1>2, <1>3 DEF AnswerIsNew
<1>5. /\ rev' \in Nat /\ rev' >= rev /\ posted \subseteq posted' /\ posted' \subseteq Texts
      /\ draft' \in Texts \cup {Nil} /\ UNCHANGED <<cache, fetch>>
  BY <1>1, <1>2
<1>6. save' = [save EXCEPT ![s] = r]
  BY <1>1
<1> QED
  BY <1>3, <1>4, <1>5, <1>6, SaveGoesOn

LEMMA FailResetKeeps ==
  ASSUME ScreenInv, NEW s \in Saves, S!Fail(s) \/ S!Reset(s)
  PROVE  ScreenInv'
<1>1. S!NoSave \in SaveType
  BY DEF SaveType, S!NoSave
<1>2. \A f : f = S!NoSave => AnswerIsNew(f)'
  BY DEF AnswerIsNew, S!NoSave
<1>3. save' = [save EXCEPT ![s] = S!NoSave]
  BY DEF S!Fail, S!Reset, S!Becomes
<1>4. /\ rev' \in Nat /\ rev' >= rev /\ posted \subseteq posted' /\ posted' \subseteq Texts
      /\ draft' \in Texts \cup {Nil} /\ UNCHANGED <<cache, fetch>>
  BY DEF ScreenInv, ScreenTypes, S!Fail, S!Reset
<1> HIDE DEF S!NoSave
<1> QED
  BY <1>1, <1>2, <1>3, <1>4, SaveGoesOn

\* The fetch that is dropped lets the others go on, for a new one is under way.
LEMMA InvalidateKeeps ==
  ASSUME ScreenInv, NEW s \in Saves, S!Invalidate(s)
  PROVE  ScreenInv'
<1> DEFINE r == [save[s] EXCEPT !.pc = "refetch"]
<1>1. /\ save[s] \in SaveType /\ save[s].pc = "accepted" /\ AnswerIsNew(save[s])
      /\ UNCHANGED <<rev, posted, cache, draft>> /\ fetch' = [pc |-> "asked", rev |-> Nil]
  BY DEF ScreenInv, ScreenTypes, S!Invalidate, S!At, S!Asked
<1>2. r \in SaveType /\ r.pc = "refetch" /\ r.rev = save[s].rev /\ r.text = save[s].text
  BY <1>1 DEF SaveType
<1>3. save' = [S!Released EXCEPT ![s] = r]
  BY DEF S!Invalidate
<1> HIDE DEF r
<1>4. /\ save' \in [Saves -> SaveType]
      /\ \A q \in Saves : save'[q] = IF q = s THEN r ELSE S!Released[q]
  BY <1>2, <1>3, ReleasedSave DEF S!Released
<1>5. ScreenTypes'
  BY <1>1, <1>4 DEF ScreenInv, ScreenTypes
<1>6. ASSUME NEW q \in Saves PROVE AnswerIsNew(save[q])'
  <2>1. CASE q = s
    BY <1>1, <1>2, <1>4, <2>1 DEF AnswerIsNew
  <2>2. CASE q # s
    BY <1>1, <1>4, <2>2, ReleasedSave DEF ScreenInv, ScreenTypes, AnswerIsNew
  <2> QED
    BY <2>1, <2>2
<1> QED
  BY <1>1, <1>5, <1>6 DEF ScreenInv

LEMMA ScreenKeeps == ASSUME ScreenInv, S!Next PROVE ScreenInv'
<1>1. \/ S!OthersWrite \/ S!Ask \/ S!Read \/ \E text \in Texts : S!Type(text)
      \/ S!Arrive \/ S!FetchFails
      \/ \E s \in Saves : S!Submit(s) \/ S!Accept(s) \/ S!Fail(s)
                          \/ S!Invalidate(s) \/ S!Reset(s)
  BY DEF S!Next
<1> QED
  BY <1>1, EasyScreenSteps, FetchEnds, SubmitKeeps, AcceptKeeps, FailResetKeeps,
     InvalidateKeeps

\* An empty form has been sent: only the reset at the end of a save empties it.
LEMMA ScreenStepsKeepDrafts ==
  ASSUME Nil \notin Nat, Nil \notin Texts, ScreenInv, S!Next, draft # Nil, draft' = Nil
  PROVE  \E s \in Saves : save[s].text \in posted /\ save[s].rev # Nil
<1>1. PICK s \in Saves : S!Reset(s)
  BY DEF ScreenInv, ScreenTypes, S!Next, S!OthersWrite, S!Ask, S!Read, S!Type, S!Arrive,
         S!FetchFails, S!Submit, S!Accept, S!Fail, S!Invalidate
<1>2. save[s].pc = "done" /\ AnswerIsNew(save[s])
  BY <1>1 DEF ScreenInv, S!Reset, S!At
<1> QED
  BY <1>2 DEF AnswerIsNew

\* The invariant holds whichever part of the portal the behaviour is about.
THEOREM ScreenInvariant == Spec => []ScreenInv
<1>1. Init => ScreenInv
  BY ScreenInitially DEF Init
<1>2. ScreenInv /\ [Next]_vars => ScreenInv'
  <2> SUFFICES ASSUME ScreenInv, [Next]_vars PROVE ScreenInv'
    OBVIOUS
  <2>1. CASE S!Next
    BY <2>1, ScreenKeeps
  <2>2. CASE UNCHANGED S!vars
    BY <2>2 DEF S!vars, ScreenInv, ScreenTypes, AnswerIsNew
  <2> QED
    BY <2>1, <2>2, Areas
<1> QED
  BY <1>1, <1>2, PTL DEF Spec

\* A save that has ended is shown, and a draft leaves the form only when what was
\* sent has been posted (Screens.ScreenHolds), for any number of saves and writes.
THEOREM ScreensHold ==
  ASSUME Nil \notin Nat, Nil \notin Texts
  PROVE  Spec => ScreenHolds
<1>1. ScreenInv => S!EffectIsShown
  BY DEF ScreenInv, AnswerIsNew, S!EffectIsShown, S!At
<1>2. ScreenInv /\ [Next]_vars =>
        [draft # Nil /\ draft' = Nil =>
           \E s \in Saves : save[s].text \in posted /\ save[s].rev # Nil]_(S!vars)
  <2> SUFFICES ASSUME ScreenInv, [Next]_vars
               PROVE  [draft # Nil /\ draft' = Nil =>
                         \E s \in Saves : save[s].text \in posted /\ save[s].rev # Nil]_(S!vars)
    OBVIOUS
  <2>1. CASE S!Next
    BY <2>1, ScreenStepsKeepDrafts
  <2>2. CASE UNCHANGED S!vars
    BY <2>2
  <2> QED
    BY <2>1, <2>2, Areas
<1> QED
  BY <1>1, <1>2, ScreenInvariant, PTL DEF Spec, ScreenHolds, S!ScreenHolds, S!DraftIsKept

-----------------------------------------------------------------------------
(***************************************************************************)
(* The script: other programs may take and leave ports between any two of  *)
(* its steps, and its processes may end in any order.                      *)
(***************************************************************************)

Ready == {"frontend", "backend", "start"}
States == {"idle", "frontend", "backend", "start", "run", "exit"}
Fates == {"none", "running", "stopped", "ended"}

\* What the script has in hand; before it has been told, nothing.
MainType ==
  [pc : States, run : SUBSET D!Servers, prefer : [D!Servers -> Ports \cup {Nil}],
   next : Nat \cup {Nil}, ipv4 : BOOLEAN, port : [D!Servers -> Ports \cup {Nil}]]

\* A candidate has been counted up from the port the server prefers; one that was
\* free on IPv4 is still the candidate, and not the port of the other server.
CandidateInv(m) ==
  /\ m.pc \in D!Servers =>
       /\ m.next \in Nat /\ m.next >= m.prefer[m.pc]
       /\ m.ipv4 => m.next \in Ports /\ m.next < m.prefer[m.pc] + Tries
                    /\ \A s \in D!Servers : m.next # m.port[s]
  /\ m.pc = "idle" => ~m.ipv4
  /\ m.pc \in {"idle", "frontend"} => m.port["frontend"] = Nil
  /\ m.pc \in {"idle", "frontend", "backend"} => m.port["backend"] = Nil
  /\ m.pc # "idle" => m.prefer \in [D!Servers -> Ports]

\* The ports that are settled (DevOrchestrator.PortsDiffer).
PortsInv(m) ==
  /\ m.port["frontend"] # Nil => m.port["frontend"] # m.port["backend"]
  /\ \A s \in D!Servers : m.port[s] # Nil =>
       m.port[s] \in m.prefer[s]..(m.prefer[s] + Tries - 1)

\* No process runs that has not been told to stop, once anything has ended.
EndInv ==
  /\ main.pc \in Ready \cup {"idle"} =>
       ~shuttingDown /\ \A s \in D!Servers : processes[s] = "none"
  /\ shuttingDown \/ main.pc = "exit" =>
       code = first /\ \A s \in D!Servers : processes[s] # "running"

ScriptTypes ==
  /\ taken \subseteq Ports /\ main \in MainType /\ processes \in [D!Servers -> Fates]
  /\ shuttingDown \in BOOLEAN /\ code \in Codes \cup {0, 1}

ScriptInv == ScriptTypes /\ CandidateInv(main) /\ PortsInv(main) /\ EndInv

LEMMA ScriptInitially == ASSUME D!Init PROVE ScriptInv
<1>1. ScriptTypes
  <2>1. main \in MainType
    BY DEF D!Init, MainType, States
  <2>2. processes \in [D!Servers -> Fates] /\ taken \subseteq Ports
    BY DEF D!Init, Fates
  <2>3. shuttingDown \in BOOLEAN /\ code \in Codes \cup {0, 1}
    BY DEF D!Init
  <2> QED
    BY <2>1, <2>2, <2>3 DEF ScriptTypes
<1>2. /\ main.pc = "idle" /\ main.ipv4 = FALSE
      /\ \A s \in D!Servers : main.port[s] = Nil
  BY DEF D!Init
<1>3. CandidateInv(main) /\ PortsInv(main)
  BY <1>2 DEF CandidateInv, PortsInv, D!Servers
<1>4. EndInv
  BY <1>2 DEF D!Init, EndInv
<1> QED
  BY <1>1, <1>3, <1>4 DEF ScriptInv


\* What the steps of the search have in common: only main changes.
LEMMA SearchGoesOn ==
  ASSUME ScriptInv, NEW m \in MainType, main' = m, m.pc \in Ready \cup {"idle"},
         main.pc \in Ready \cup {"idle"}, CandidateInv(m), PortsInv(m), taken' \subseteq Ports,
         UNCHANGED <<processes, shuttingDown, code, first>>
  PROVE  ScriptInv'
<1>1. ScriptTypes' /\ EndInv'
  BY DEF ScriptInv, ScriptTypes, EndInv, Ready
<1>2. CandidateInv(main)' /\ PortsInv(main)'
  BY DEF CandidateInv, PortsInv, D!Servers
<1> QED
  BY <1>1, <1>2 DEF ScriptInv

LEMMA LaunchKeeps ==
  ASSUME Nil \notin Nat, ScriptInv, NEW run \in SUBSET D!Servers \ {{}},
         NEW prefer \in [D!Servers -> Ports], D!Launch(run, prefer)
  PROVE  ScriptInv'
<1> DEFINE m == [main EXCEPT !.pc = "frontend", !.run = run, !.prefer = prefer,
                             !.next = prefer["frontend"]]
<1>1. main.pc = "idle" /\ main' = m /\ UNCHANGED <<taken, processes, shuttingDown, code, first>>
  BY DEF D!Launch
<1>2. prefer["frontend"] \in Nat /\ run \in SUBSET D!Servers
      /\ prefer \in [D!Servers -> Ports \cup {Nil}]
  BY DEF Ports, D!Servers
<1>3. /\ main \in MainType /\ main.port["frontend"] = Nil /\ main.port["backend"] = Nil
  BY <1>1 DEF ScriptInv, ScriptTypes, CandidateInv
<1>4. /\ m \in MainType /\ m.pc = "frontend" /\ m.prefer = prefer /\ m.port = main.port
      /\ m.next = prefer["frontend"] /\ m.ipv4 = main.ipv4
  BY <1>2, <1>3 DEF MainType, States
<1> HIDE DEF m
<1>5. m.ipv4 = FALSE
  BY <1>1, <1>4 DEF ScriptInv, CandidateInv, ScriptTypes, MainType
<1>6. CandidateInv(m) /\ PortsInv(m)
  BY <1>2, <1>3, <1>4, <1>5 DEF CandidateInv, PortsInv, D!Servers
<1>7. taken' \subseteq Ports /\ m.pc \in Ready \cup {"idle"} /\ main.pc \in Ready \cup {"idle"}
  BY <1>1, <1>4 DEF Ready, ScriptInv, ScriptTypes
<1> QED
  BY <1>1, <1>4, <1>6, <1>7, SearchGoesOn

LEMMA TakeKeeps ==
  ASSUME ScriptInv, NEW p \in Ports, D!Take(p)
  PROVE  ScriptInv'
<1>1. taken' \subseteq Ports /\ UNCHANGED <<main, processes, shuttingDown, code, first>>
  BY DEF ScriptInv, ScriptTypes, D!Take
<1> QED
  BY <1>1 DEF ScriptInv, ScriptTypes, CandidateInv, PortsInv, EndInv

\* A script that looks for the port of s.
LookingFor(s) ==
  /\ main \in MainType /\ main.pc = s /\ main.next \in Nat /\ main.next >= main.prefer[s]
  /\ main.prefer \in [D!Servers -> Ports]
  /\ main.prefer["frontend"] \in Nat /\ main.prefer["backend"] \in Nat
  /\ main.port["backend"] = Nil /\ (s = "frontend" => main.port["frontend"] = Nil)
  /\ main.pc \in Ready \cup {"idle"} /\ PortsInv(main) /\ CandidateInv(main)

LEMMA Looking ==
  ASSUME ScriptInv, NEW s \in D!Servers, main.pc = s
  PROVE  LookingFor(s)
<1>1. main \in MainType /\ CandidateInv(main) /\ PortsInv(main)
  BY DEF ScriptInv, ScriptTypes
<1>2. main.prefer \in [D!Servers -> Ports]
  BY <1>1 DEF CandidateInv, D!Servers
<1> QED
  BY <1>1, <1>2 DEF CandidateInv, D!Servers, LookingFor, Ready, Ports

\* Once s has been served, or skipped, the search goes on at the port that the backend
\* prefers.
LEMMA OnwardKeeps ==
  ASSUME ScriptInv, NEW s \in D!Servers, LookingFor(s), NEW n \in MainType,
         n.pc = s, n.prefer = main.prefer, PortsInv(n),
         s = "frontend" => n.port["backend"] = Nil,
         main' = D!Onward(s, n), UNCHANGED <<taken, processes, shuttingDown, code, first>>
  PROVE  ScriptInv'
<1> DEFINE m == [n EXCEPT !.pc = D!Then(s), !.next = n.prefer["backend"], !.ipv4 = FALSE]
<1>1. n.prefer["backend"] \in Nat /\ n.prefer \in [D!Servers -> Ports]
  BY DEF LookingFor
<1>2. /\ m \in MainType /\ m.pc = D!Then(s) /\ m.prefer = n.prefer /\ m.port = n.port
      /\ m.next = n.prefer["backend"] /\ m.ipv4 = FALSE
  BY <1>1 DEF MainType, States, D!Then
<1>3. main' = m
  BY DEF D!Onward
<1> HIDE DEF m
<1>4. (m.pc = "backend" /\ s = "frontend") \/ m.pc = "start"
  BY <1>2 DEF D!Then, D!Servers
<1>5. CandidateInv(m) /\ PortsInv(m)
  BY <1>1, <1>2, <1>4 DEF CandidateInv, PortsInv, D!Servers
<1>6. taken' \subseteq Ports /\ m.pc \in Ready \cup {"idle"} /\ main.pc \in Ready \cup {"idle"}
  BY <1>4 DEF Ready, LookingFor, ScriptInv, ScriptTypes
<1> QED
  BY <1>2, <1>3, <1>5, <1>6, SearchGoesOn

\* The next candidate is one further.
LEMMA NextPortKeeps ==
  ASSUME ScriptInv, NEW s \in D!Servers, LookingFor(s), D!NextPort,
         UNCHANGED <<taken, processes, shuttingDown, code, first>>
  PROVE  ScriptInv'
<1> DEFINE k == main.next + 1
           m == [main EXCEPT !.next = k, !.ipv4 = FALSE]
<1>1. main' = m /\ main \in MainType
  BY DEF D!NextPort, LookingFor
<1>2. k \in Nat /\ k >= main.prefer[s]
  BY DEF LookingFor, D!Servers
<1> HIDE DEF k
<1>3. /\ m \in MainType /\ m.pc = main.pc /\ m.prefer = main.prefer /\ m.port = main.port
      /\ m.next = k /\ m.ipv4 = FALSE
  BY <1>1, <1>2 DEF MainType
<1> HIDE DEF m
<1>4. CandidateInv(m) /\ PortsInv(m)
  BY <1>2, <1>3 DEF CandidateInv, PortsInv, LookingFor, D!Servers
<1>5. taken' \subseteq Ports /\ m.pc \in Ready \cup {"idle"} /\ main.pc \in Ready \cup {"idle"}
  BY <1>3 DEF Ready, LookingFor, ScriptInv, ScriptTypes
<1> QED
  BY <1>1, <1>3, <1>4, <1>5, SearchGoesOn

LEMMA SkipServerKeeps ==
  ASSUME ScriptInv, NEW s \in D!Servers, D!SkipServer(s)
  PROVE  ScriptInv'
<1>1. main.pc = s /\ main' = D!Onward(s, main)
      /\ UNCHANGED <<taken, processes, shuttingDown, code, first>>
  BY DEF D!SkipServer
<1>2. LookingFor(s)
  BY <1>1, Looking
<1>3. /\ main \in MainType /\ PortsInv(main)
      /\ s = "frontend" => main.port["backend"] = Nil
  BY <1>2 DEF LookingFor
<1> QED
  BY <1>1, <1>2, <1>3, OnwardKeeps

\* Free on IPv4: nobody has been promised it, and it is not too far.
LEMMA BindIPv4Keeps ==
  ASSUME Tries \in Nat, ScriptInv, NEW s \in D!Servers, D!BindIPv4(s)
  PROVE  ScriptInv'
<1>1. /\ main.pc = s /\ ~D!Exhausted(s) /\ main.next \notin D!Reserved
      /\ D!NextPort \/ main' = [main EXCEPT !.ipv4 = TRUE]
      /\ UNCHANGED <<taken, processes, shuttingDown, code, first>>
  BY DEF D!BindIPv4, D!Search
<1>2. LookingFor(s)
  BY <1>1, Looking
<1>3. CASE main' = [main EXCEPT !.ipv4 = TRUE]
  <2> DEFINE m == [main EXCEPT !.ipv4 = TRUE]
  <2>1. /\ m \in MainType /\ m.pc = main.pc /\ m.prefer = main.prefer /\ m.port = main.port
        /\ m.next = main.next /\ m.ipv4 = TRUE
    BY <1>2 DEF MainType, LookingFor
  <2>2. main' = m
    BY <1>3
  <2> HIDE DEF m
  <2>3. /\ main.next \in Ports /\ main.next < main.prefer[s] + Tries
        /\ \A q \in D!Servers : main.next # main.port[q]
    <3>1. main.prefer[s] + Tries \in Nat /\ main.next \in Nat
      BY <1>2 DEF LookingFor, D!Servers
    <3> QED
      BY <1>1, <3>1 DEF D!Exhausted, D!Reserved
  <2>4. CandidateInv(m) /\ PortsInv(m)
    BY <1>2, <2>1, <2>3 DEF CandidateInv, PortsInv, LookingFor, D!Servers
  <2>5. taken' \subseteq Ports /\ m.pc \in Ready \cup {"idle"} /\ main.pc \in Ready \cup {"idle"}
    BY <1>1, <1>2, <2>1 DEF Ready, LookingFor, ScriptInv, ScriptTypes
  <2> QED
    BY <1>1, <2>1, <2>2, <2>4, <2>5, SearchGoesOn
<1> QED
  BY <1>1, <1>2, <1>3, NextPortKeeps

\* Free on IPv6 too: it is the port of s.
LEMMA BindIPv6Keeps ==
  ASSUME Tries \in Nat, ScriptInv, NEW s \in D!Servers, D!BindIPv6(s)
  PROVE  ScriptInv'
<1>1. /\ main.pc = s /\ main.ipv4
      /\ D!NextPort \/ main' = D!Onward(s, [main EXCEPT !.port[s] = main.next])
      /\ UNCHANGED <<taken, processes, shuttingDown, code, first>>
  BY DEF D!BindIPv6, D!Search
<1>2. LookingFor(s)
  BY <1>1, Looking
<1>3. CASE main' = D!Onward(s, [main EXCEPT !.port[s] = main.next])
  <2> DEFINE n == [main EXCEPT !.port[s] = main.next]
  <2>1. /\ main.next \in Ports /\ main.next \in Nat /\ main.next < main.prefer[s] + Tries
        /\ main.next >= main.prefer[s] /\ \A q \in D!Servers : main.next # main.port[q]
    BY <1>1, <1>2 DEF LookingFor, CandidateInv
  <2>2. /\ n \in MainType /\ n.pc = s /\ n.prefer = main.prefer
        /\ n.port = [main.port EXCEPT ![s] = main.next]
    BY <1>1, <1>2, <2>1 DEF MainType, LookingFor
  <2>3. main' = D!Onward(s, n)
    BY <1>3
  <2> HIDE DEF n
  <2>4. /\ \A q \in D!Servers : n.port[q] = IF q = s THEN main.next ELSE main.port[q]
        /\ \A q \in D!Servers : main.prefer[q] \in Nat
    BY <1>2, <2>2 DEF LookingFor, MainType, D!Servers
  <2>5. PortsInv(n)
    BY <1>2, <2>1, <2>2, <2>4 DEF PortsInv, LookingFor, D!Servers
  <2>6. s = "frontend" => n.port["backend"] = Nil
    BY <1>2, <2>4 DEF LookingFor, D!Servers
  <2> QED
    BY <1>1, <1>2, <2>2, <2>3, <2>5, <2>6, OnwardKeeps
<1> QED
  BY <1>1, <1>2, <1>3, NextPortKeeps

LEMMA SkipPortKeeps ==
  ASSUME ScriptInv, NEW s \in D!Servers, D!SkipPort(s)
  PROVE  ScriptInv'
<1>1. main.pc = s /\ D!NextPort /\ UNCHANGED <<taken, processes, shuttingDown, code, first>>
  BY DEF D!SkipPort, D!Search
<1> QED
  BY <1>1, Looking, NextPortKeeps

\* Without a port the script ends, and no process has been started.
LEMMA NoPortKeeps ==
  ASSUME ScriptInv, NEW s \in D!Servers, D!NoPort(s)
  PROVE  ScriptInv'
<1>1. /\ main.pc = s /\ main' = [main EXCEPT !.pc = "exit"] /\ code' = 1 /\ first' = 1
      /\ UNCHANGED <<taken, processes, shuttingDown>>
  BY DEF D!NoPort, D!Search
<1>2. LookingFor(s)
  BY <1>1, Looking
<1>3. /\ main' \in MainType /\ main'.pc = "exit" /\ main'.port = main.port
      /\ main'.prefer = main.prefer
  BY <1>1, <1>2 DEF LookingFor, MainType, States
<1>4. ScriptTypes'
  BY <1>1, <1>3 DEF ScriptInv, ScriptTypes
<1>5. CandidateInv(main)' /\ PortsInv(main)'
  BY <1>2, <1>3 DEF LookingFor, CandidateInv, PortsInv, D!Servers
<1>6. EndInv'
  BY <1>1, <1>2, <1>3 DEF ScriptInv, EndInv, LookingFor, Ready
<1> QED
  BY <1>4, <1>5, <1>6 DEF ScriptInv

\* The steps after the search change where the script is, and nothing else of main.
LEMMA AfterTheSearch ==
  ASSUME ScriptInv, main.pc \in {"start", "run"}, NEW at \in {"run", "exit"},
         main' = [main EXCEPT !.pc = at] \/ (main' = main /\ main.pc = "run")
  PROVE  /\ main' \in MainType /\ main'.pc \in {"run", "exit"}
         /\ main' = [main EXCEPT !.pc = at] => main'.pc = at
         /\ CandidateInv(main)' /\ PortsInv(main)'
<1>1. main \in MainType /\ CandidateInv(main) /\ PortsInv(main)
  BY DEF ScriptInv, ScriptTypes
<1>2. /\ main' \in MainType /\ main'.pc \in {"run", "exit"} /\ main'.port = main.port
      /\ main'.prefer = main.prefer /\ (main' = [main EXCEPT !.pc = at] => main'.pc = at)
  BY <1>1 DEF MainType, States
<1>3. CandidateInv(main)' /\ PortsInv(main)'
  BY <1>1, <1>2 DEF CandidateInv, PortsInv, D!Servers
<1> QED
  BY <1>2, <1>3

LEMMA StartKeeps == ASSUME ScriptInv, D!Start PROVE ScriptInv'
<1>1. /\ main.pc = "start" /\ main' = [main EXCEPT !.pc = "run"]
      /\ processes' = [s \in D!Servers |-> IF s \in main.run THEN "running" ELSE "none"]
      /\ UNCHANGED <<taken, shuttingDown, code, first>>
  BY DEF D!Start
<1>2. /\ main' \in MainType /\ main'.pc = "run" /\ CandidateInv(main)' /\ PortsInv(main)'
  BY <1>1, AfterTheSearch
<1>3. ScriptTypes'
  BY <1>1, <1>2 DEF ScriptInv, ScriptTypes, Fates
<1>4. EndInv'
  BY <1>1, <1>2 DEF ScriptInv, EndInv, Ready
<1> QED
  BY <1>2, <1>3, <1>4 DEF ScriptInv

\* However often something ends, the first reason stays, and all are told to stop.
LEMMA ShutdownKeeps ==
  ASSUME ScriptInv, main.pc = "run", NEW c \in Codes \cup {0}, NEW ended \in SUBSET D!Servers,
         D!Shutdown(c, ended), UNCHANGED <<taken, main>>
  PROVE  ScriptInv'
<1>1. /\ main' \in MainType /\ main'.pc = "run" /\ CandidateInv(main)' /\ PortsInv(main)'
  BY DEF ScriptInv, ScriptTypes, CandidateInv, PortsInv
<1>2. shuttingDown' = TRUE /\ processes' = D!Told(ended)
      /\ (IF shuttingDown THEN UNCHANGED <<code, first>> ELSE code' = c /\ first' = c)
  BY DEF D!Shutdown
<1>3. processes' \in [D!Servers -> Fates] /\ \A s \in D!Servers : processes'[s] # "running"
  BY <1>2 DEF D!Told, Fates, ScriptInv, ScriptTypes
<1>4. code' = first' /\ code' \in Codes \cup {0, 1}
  BY <1>2 DEF ScriptInv, ScriptTypes, EndInv
<1> QED
  BY <1>1, <1>2, <1>3, <1>4 DEF ScriptInv, ScriptTypes, EndInv, Ready

LEMMA ExitKeeps == ASSUME ScriptInv, D!Exit PROVE ScriptInv'
<1>1. /\ main.pc = "run" /\ shuttingDown /\ main' = [main EXCEPT !.pc = "exit"]
      /\ UNCHANGED <<taken, processes, shuttingDown, code, first>>
  BY DEF D!Exit
<1>2. /\ main' \in MainType /\ main'.pc = "exit" /\ CandidateInv(main)' /\ PortsInv(main)'
  BY <1>1, AfterTheSearch
<1> QED
  BY <1>1, <1>2 DEF ScriptInv, ScriptTypes, EndInv, Ready

LEMMA ScriptKeeps ==
  ASSUME Nil \notin Nat, Tries \in Nat, ScriptInv, D!Next
  PROVE  ScriptInv'
<1>1. CASE \E run \in SUBSET D!Servers \ {{}}, prefer \in [D!Servers -> Ports] :
             D!Launch(run, prefer)
  BY <1>1, LaunchKeeps
<1>2. CASE \E p \in Ports : D!Take(p)
  BY <1>2, TakeKeeps
<1>3. CASE \E s \in D!Servers : \/ D!SkipServer(s) \/ D!SkipPort(s) \/ D!BindIPv4(s)
                                \/ D!BindIPv6(s) \/ D!NoPort(s)
  BY <1>3, SkipServerKeeps, SkipPortKeeps, BindIPv4Keeps, BindIPv6Keeps, NoPortKeeps
<1>4. CASE D!Start \/ D!Exit
  BY <1>4, StartKeeps, ExitKeeps
<1>5. CASE D!Interrupt
  BY <1>5, ShutdownKeeps DEF D!Interrupt
<1>6. ASSUME NEW s \in D!Servers, NEW c \in Codes, D!Ends(s, c) PROVE ScriptInv'
  <2>1. main.pc = "run" /\ D!Shutdown(c, {s}) /\ UNCHANGED <<taken, main>>
    BY <1>6 DEF D!Ends
  <2> QED
    BY <2>1, ShutdownKeeps
<1> QED
  BY <1>1, <1>2, <1>3, <1>4, <1>5, <1>6 DEF D!Next

\* The script keeps its invariant whichever part the behaviour is about.
THEOREM ScriptInvariant ==
  ASSUME Nil \notin Nat, Tries \in Nat PROVE Spec => []ScriptInv
<1>1. ScriptInv /\ [D!Next]_(D!vars) => ScriptInv'
  <2> SUFFICES ASSUME ScriptInv, [D!Next]_(D!vars) PROVE ScriptInv'
    OBVIOUS
  <2>1. CASE UNCHANGED D!vars
    BY <2>1 DEF D!vars, ScriptInv, ScriptTypes, CandidateInv, PortsInv, EndInv
  <2> QED
    BY <2>1, ScriptKeeps
<1> QED
  BY <1>1, ScriptInitially, Parts, PTL DEF D!Spec

\* The servers get ports of their own, none far from the one it prefers, and the script
\* ends for the first reason and leaves no process that it has not told to stop
\* (DevOrchestrator.ScriptIsTidy), for any codes and any number of tries.
THEOREM ScriptIsKept ==
  ASSUME Nil \notin Nat, Tries \in Nat PROVE Spec => []ScriptIsTidy
<1>1. ScriptInv => ScriptIsTidy
  BY DEF ScriptInv, PortsInv, EndInv, ScriptIsTidy, D!ScriptIsTidy, D!PortsDiffer,
         D!EndsForTheFirstReason, D!Servers
<1> QED
  BY <1>1, ScriptInvariant, PTL

-----------------------------------------------------------------------------
(***************************************************************************)
(* The calendar: the deadline that the loop finds is the right number of   *)
(* open minutes away, on every calendar, for days of any length. Day d is  *)
(* the half minutes from d times Day on.                                   *)
(***************************************************************************)

LEMMA Division ==
  ASSUME NEW n \in Nat \ {0}, NEW t \in Nat
  PROVE  t \div n \in Nat /\ (t \div n) * n =< t /\ t < (t \div n) * n + n
OBVIOUS

LEMMA Quotient ==
  ASSUME NEW n \in Nat \ {0}, NEW t \in Nat, NEW d \in Nat, d * n =< t, t < d * n + n
  PROVE  t \div n = d
OBVIOUS

LEMMA NextMultiple ==
  ASSUME NEW n \in Nat, NEW d \in Nat
  PROVE  d * n \in Nat /\ (d + 1) * n = d * n + n
OBVIOUS

LEMMA Halves ==
  ASSUME NEW t \in Int
  PROVE  t \div 2 \in Int /\ 2 * (t \div 2) =< t /\ t < 2 * (t \div 2) + 2
OBVIOUS

Even(t) == t % 2 = 0

LEMMA TwiceIsEven == ASSUME NEW k \in Int PROVE Even(2 * k)
BY DEF Even

LEMMA EvenSum == ASSUME NEW a \in Int, NEW b \in Int, Even(a) PROVE Even(a + b) <=> Even(b)
BY DEF Even

\* The day of an instant, and the hours of that day.
LEMMA TheDay ==
  ASSUME Hours \in Nat \ {0}, NEW cal \in B!Calendar, NEW t \in Nat
  PROVE  /\ B!Day \in Nat \ {0} /\ B!DayOf(t) \in Nat /\ B!DayOf(t) * B!Day \in Nat
         /\ Even(B!DayOf(t) * B!Day) /\ Even(B!Day)
         /\ B!DayOf(t) * B!Day =< t /\ t < B!DayOf(t) * B!Day + B!Day
         /\ cal.startHour \in Nat /\ cal.endHour \in Nat /\ cal.ahead \in Nat
         /\ B!DayStart(cal, t) = B!DayOf(t) * B!Day + 2 * cal.startHour
         /\ B!DayEnd(cal, t) = B!DayOf(t) * B!Day + 2 * cal.endHour
         /\ 2 * cal.startHour < B!Day /\ 2 * cal.endHour =< B!Day
<1>1. B!Day = Hours * 2 /\ B!Day \in Nat \ {0}
  BY DEF B!Day, B!Hour, B!Minute
<1>2. B!DayOf(t) \in Nat /\ B!DayOf(t) * B!Day =< t /\ t < B!DayOf(t) * B!Day + B!Day
  BY <1>1, Division DEF B!DayOf
<1>3. B!DayOf(t) * B!Day \in Nat
  BY <1>1, <1>2, NextMultiple
<1>4. Even(B!DayOf(t) * B!Day)
  <2>1. \A d \in Nat : d * (Hours * 2) = 2 * (d * Hours) /\ d * Hours \in Nat
    OBVIOUS
  <2> QED
    BY <1>1, <1>2, <2>1, TwiceIsEven
<1>5. Even(B!Day)
  BY <1>1, TwiceIsEven
<1>6. /\ cal.startHour \in 0..(Hours - 1) /\ cal.endHour \in 1..Hours /\ cal.ahead \in 0..1
  BY DEF B!Calendar
<1>7. /\ B!DayStart(cal, t) = B!DayOf(t) * B!Day + cal.startHour * 2
      /\ B!DayEnd(cal, t) = B!DayOf(t) * B!Day + cal.endHour * 2
  BY DEF B!DayStart, B!DayEnd, B!Hour, B!Minute
<1>8. 2 * cal.startHour < B!Day /\ 2 * cal.endHour =< B!Day
      /\ cal.startHour * 2 = 2 * cal.startHour /\ cal.endHour * 2 = 2 * cal.endHour
      /\ cal.startHour \in Nat /\ cal.endHour \in Nat /\ cal.ahead \in Nat
  BY <1>1, <1>6
<1> QED
  BY <1>1, <1>2, <1>3, <1>4, <1>5, <1>7, <1>8

\* Within a day, up to its last open hour, it is the same day for the holidays too.
LEMMA OneDay ==
  ASSUME Hours \in Nat \ {0}, NEW cal \in B!Calendar, B!SameDays(cal),
         NEW t \in Nat, NEW u \in Nat, B!DayOf(t) * B!Day =< u, u < B!DayOf(t) * B!Day + B!Day
  PROVE  /\ B!DayOf(u) = B!DayOf(t)
         /\ B!DayStart(cal, u) = B!DayStart(cal, t) /\ B!DayEnd(cal, u) = B!DayEnd(cal, t)
         /\ B!Weekday(u) = B!Weekday(t)
         /\ u < B!DayEnd(cal, t) => B!DayOfUTC(cal, u) = B!DayOf(t)
<1>1. B!DayOf(u) = B!DayOf(t)
  BY TheDay, Quotient DEF B!DayOf
<1>2. ASSUME u < B!DayEnd(cal, t) PROVE B!DayOfUTC(cal, u) = B!DayOf(t)
  <2> DEFINE n == u + cal.ahead * B!Hour
             m == B!DayOf(t) * B!Day
  <2>1. cal.endHour + cal.ahead =< Hours /\ B!Day = 2 * Hours /\ n = u + 2 * cal.ahead
    <3>1. cal.ahead \in Nat /\ B!Hour = 2 /\ B!Day = Hours * 2
      BY TheDay DEF B!Hour, B!Minute, B!Day
    <3> QED
      BY <3>1 DEF B!SameDays
  <2>2. /\ B!Day \in Nat \ {0} /\ B!DayOf(t) \in Nat /\ m \in Nat
        /\ cal.endHour \in Nat /\ cal.ahead \in Nat /\ m =< u /\ u < m + 2 * cal.endHour
    BY <1>2, TheDay
  <2> HIDE DEF m, n
  <2>3. n \in Nat /\ m =< n /\ n < m + B!Day
    BY <2>1, <2>2
  <2>4. n \div B!Day = B!DayOf(t)
    BY <2>2, <2>3, Quotient DEF m
  <2>5. (u + cal.ahead * B!Hour) \div B!Day = B!DayOf(t)
    BY <2>4 DEF n
  <2> QED
    BY <2>5 DEF B!DayOfUTC
<1> QED
  BY <1>1, <1>2 DEF B!DayStart, B!DayEnd, B!Weekday

\* The day is not open any more at t, or not at all.
Closed(cal, t) == ~B!IsOpenDay(cal, t) \/ t >= B!DayEnd(cal, t)
From(cal, t) == B!Later(t, B!DayStart(cal, t))

\* What is open from t until the next day opens: the rest of the hours of this day,
\* unless it is closed.
LEMMA RestOfTheDay ==
  ASSUME Hours \in Nat \ {0}, NEW cal \in B!Calendar, B!SameDays(cal), NEW t \in Nat,
         NEW u \in Nat, t =< u, u < B!NextDay(cal, t)
  PROVE  B!Open(cal, u) <=> ~Closed(cal, t) /\ From(cal, t) =< u /\ u < B!DayEnd(cal, t)
<1> DEFINE m == B!DayOf(t) * B!Day
<1>1. /\ B!Day \in Nat \ {0} /\ B!DayOf(t) \in Nat /\ m \in Nat /\ m =< t /\ t < m + B!Day
      /\ B!DayStart(cal, t) = m + 2 * cal.startHour /\ B!DayEnd(cal, t) = m + 2 * cal.endHour
      /\ 2 * cal.startHour < B!Day /\ 2 * cal.endHour =< B!Day
      /\ cal.startHour \in Nat /\ cal.endHour \in Nat
      /\ u < m + 2 * cal.startHour + B!Day
  BY TheDay DEF B!NextDay
<1>2. CASE u < m + B!Day
  <2>1. /\ B!DayStart(cal, u) = B!DayStart(cal, t) /\ B!DayEnd(cal, u) = B!DayEnd(cal, t)
        /\ B!Weekday(u) = B!Weekday(t)
        /\ u < B!DayEnd(cal, t) => B!DayOfUTC(cal, u) = B!DayOf(t)
    <3>1. m =< u
      BY <1>1
    <3> QED
      BY <1>2, <3>1, OneDay
  <2>2. t < B!DayEnd(cal, t) => B!DayOfUTC(cal, t) = B!DayOf(t)
    BY <1>1, OneDay
  <2>3. B!DayEnd(cal, t) \in Nat /\ B!DayStart(cal, t) \in Nat
    BY <1>1
  <2>4. u < B!DayEnd(cal, t) => t < B!DayEnd(cal, t)
                                /\ (B!IsOpenDay(cal, u) <=> B!IsOpenDay(cal, t))
    BY <2>1, <2>2, <2>3 DEF B!IsOpenDay
  <2>5. From(cal, t) =< u <=> B!DayStart(cal, t) =< u
    BY <2>3 DEF From, B!Later
  <2>6. Closed(cal, t) <=> ~(B!IsOpenDay(cal, t) /\ t < B!DayEnd(cal, t))
    BY <2>3 DEF Closed
  <2> QED
    BY <2>1, <2>4, <2>5, <2>6 DEF B!Open
<1>3. CASE u >= m + B!Day
  <2>1. (B!DayOf(t) + 1) * B!Day = m + B!Day /\ B!DayOf(t) + 1 \in Nat
    BY <1>1, NextMultiple
  <2>2. B!DayOf(u) = B!DayOf(t) + 1
    <3> DEFINE d == B!DayOf(t) + 1
    <3>1. d \in Nat /\ d * B!Day = m + B!Day
      BY <2>1
    <3> HIDE DEF d, m
    <3>2. d * B!Day =< u /\ u < d * B!Day + B!Day
      BY <1>1, <1>3, <3>1
    <3>3. u \div B!Day = d
      BY <1>1, <3>1, <3>2, Quotient
    <3> QED
      BY <3>3 DEF d, B!DayOf
  <2>3. B!DayStart(cal, u) = m + B!Day + 2 * cal.startHour
    BY <2>1, <2>2, TheDay
  <2>4. ~B!Open(cal, u) /\ ~(u < B!DayEnd(cal, t))
    <3>1. ~(B!DayStart(cal, u) =< u) /\ ~(u < B!DayEnd(cal, t))
      BY <1>1, <1>3, <2>3
    <3> QED
      BY <3>1 DEF B!Open
  <2> QED
    BY <2>4
<1> QED
  BY <1>1, <1>2, <1>3

-----------------------------------------------------------------------------
Opened(cal, a, b) == {t \in a..(b - 1) : B!Open(cal, t)}
HowMany(cal, a, b) == Cardinality(Opened(cal, a, b))

LEMMA OpenedAdds ==
  ASSUME NEW cal, NEW a \in Nat, NEW b \in Nat, NEW c \in Nat, a =< b, b =< c
  PROVE  /\ HowMany(cal, a, c) = HowMany(cal, a, b) + HowMany(cal, b, c)
         /\ HowMany(cal, a, b) \in Nat /\ HowMany(cal, b, c) \in Nat
<1>1. /\ Opened(cal, a, c) = Opened(cal, a, b) \cup Opened(cal, b, c)
      /\ Opened(cal, a, b) \cap Opened(cal, b, c) = {}
  BY DEF Opened
<1>2. ASSUME NEW p \in Nat, NEW q \in Nat PROVE IsFiniteSet(Opened(cal, p, q))
  <2>1. q - 1 \in Int /\ Opened(cal, p, q) \subseteq p..(q - 1)
    BY DEF Opened
  <2> QED
    BY <2>1, FS_Interval, FS_Subset
<1>3. Cardinality({}) = 0
  BY FS_EmptySet
<1>4. /\ IsFiniteSet(Opened(cal, a, b)) /\ IsFiniteSet(Opened(cal, b, c))
      /\ HowMany(cal, a, b) \in Nat /\ HowMany(cal, b, c) \in Nat
  BY <1>2, FS_CardinalityType DEF HowMany
<1>5. Cardinality(Opened(cal, a, b) \cup Opened(cal, b, c))
        = HowMany(cal, a, b) + HowMany(cal, b, c) - 0
  BY <1>1, <1>3, <1>4, FS_Union DEF HowMany
<1> QED
  BY <1>1, <1>4, <1>5 DEF HowMany

LEMMA OpenedIsAll ==
  ASSUME NEW cal, NEW a \in Nat, NEW b \in Nat, NEW f \in Nat, NEW e \in Nat, a =< f,
         e =< b, \A u \in a..(b - 1) : B!Open(cal, u) <=> f =< u /\ u < e
  PROVE  HowMany(cal, a, b) = IF f > e THEN 0 ELSE e - f
<1>1. Opened(cal, a, b) = f..(e - 1)
  BY DEF Opened
<1>2. e - 1 \in Int
  OBVIOUS
<1>3. Cardinality(f..(e - 1)) = IF f > e - 1 THEN 0 ELSE e - 1 - f + 1
  BY <1>2, FS_Interval
<1> QED
  BY <1>1, <1>3 DEF HowMany

LEMMA OpenedIsWhole ==
  ASSUME NEW cal, NEW a \in Nat, NEW b \in Nat, NEW f \in Nat, a =< f, f =< b,
         \A u \in a..(b - 1) : B!Open(cal, u) <=> f =< u /\ u < b
  PROVE  HowMany(cal, a, b) = b - f
<1>1. b =< b /\ ~(f > b)
  OBVIOUS
<1> QED
  BY <1>1, OpenedIsAll

-----------------------------------------------------------------------------
JobType == [pc : {"loop", "done"}, cal : B!Calendar, start : Nat, minutes : Nat,
            cursor : Nat, remaining : Nat]

\* Twice the minutes counted so far, in half minutes, and what has been found open: at
\* most one half minute is lost, when the first day closes, and after that the cursor
\* stands on whole minutes.
CountInv(cal, start, cursor, counted) ==
  \/ HowMany(cal, start, cursor) = 2 * counted
  \/ HowMany(cal, start, cursor) = 2 * counted + 1 /\ Even(cursor)

JobInv(j) ==
  \/ j = B!Idle
  \/ /\ j \in JobType /\ j.start =< j.cursor /\ j.remaining =< j.minutes
     /\ j.start < B!Day /\ j.minutes \in 1..MaxMinutes /\ j.cursor =< (MaxDay + 1) * B!Day
     /\ j.pc = "done" => j.remaining = 0
     /\ B!SameDays(j.cal) =>
          /\ CountInv(j.cal, j.start, j.cursor, j.minutes - j.remaining)
          /\ j.remaining = 0 => B!Open(j.cal, j.cursor - 1)

Bounds == Hours \in Nat \ {0} /\ MaxMinutes \in Nat /\ MaxDay \in Nat

\* The loop counts from the opening hour, if it is not later: that is on the same day,
\* and it has as many minutes as fit in the hours that are left.
LEMMA FromIsToday ==
  ASSUME Bounds, NEW cal \in B!Calendar, NEW t \in Nat
  PROVE  /\ From(cal, t) \in Nat /\ t =< From(cal, t)
         /\ From(cal, t) < B!DayOf(t) * B!Day + B!Day
         /\ From(cal, t) = t \/ From(cal, t) = B!DayStart(cal, t)
         /\ B!Available(cal, From(cal, t)) = (B!DayEnd(cal, t) - From(cal, t)) \div 2
<1> DEFINE m == B!DayOf(t) * B!Day
           f == From(cal, t)
<1>1. /\ B!Day \in Nat \ {0} /\ B!DayOf(t) \in Nat /\ m \in Nat /\ m =< t /\ t < m + B!Day
      /\ B!DayStart(cal, t) = m + 2 * cal.startHour /\ 2 * cal.startHour < B!Day
      /\ cal.startHour \in Nat
  BY TheDay DEF Bounds
<1>2. f = IF t < B!DayStart(cal, t) THEN B!DayStart(cal, t) ELSE t
  BY DEF From, B!Later
<1> HIDE DEF m, f
<1>3. f \in Nat /\ t =< f /\ f < m + B!Day /\ (f = t \/ f = B!DayStart(cal, t)) /\ m =< f
  BY <1>1, <1>2
<1>4. B!DayOf(f) = B!DayOf(t)
  BY <1>1, <1>3, Quotient DEF m, B!DayOf
<1>5. B!DayEnd(cal, f) = B!DayEnd(cal, t)
  BY <1>4 DEF B!DayEnd
<1> QED
  BY <1>3, <1>5 DEF f, m, B!Available, B!Minute

\* A day in which nothing more can be counted: the next one opens a whole number of
\* minutes into it, and one half minute may have been left.
LEMMA DayIsOver ==
  ASSUME Bounds, NEW cal \in B!Calendar, B!SameDays(cal), NEW t \in Nat, NEW a \in Nat,
         a =< t, NEW k \in Nat, CountInv(cal, a, t, k),
         Closed(cal, t) \/ B!Available(cal, From(cal, t)) =< 0
  PROVE  CountInv(cal, a, B!NextDay(cal, t), k)
<1> DEFINE m == B!DayOf(t) * B!Day
           e == B!DayEnd(cal, t)
           f == From(cal, t)
           n == B!NextDay(cal, t)
<1>1. /\ B!Day \in Nat \ {0} /\ m \in Nat /\ m =< t /\ t < m + B!Day
      /\ Even(m) /\ Even(B!Day) /\ cal.startHour \in Nat /\ cal.endHour \in Nat
      /\ e = m + 2 * cal.endHour /\ n = m + 2 * cal.startHour + B!Day
      /\ B!DayStart(cal, t) = m + 2 * cal.startHour
      /\ 2 * cal.startHour < B!Day /\ 2 * cal.endHour =< B!Day
  BY TheDay DEF Bounds, B!NextDay
<1>2. /\ \A u \in t..(n - 1) : B!Open(cal, u) <=> ~Closed(cal, t) /\ f =< u /\ u < e
  BY <1>1, RestOfTheDay DEF Bounds
<1>3. /\ f = t \/ f = m + 2 * cal.startHour
      /\ t =< f /\ f =< n /\ f \in Nat
      /\ B!Available(cal, From(cal, t)) = (e - f) \div 2
  BY <1>1, FromIsToday
<1> HIDE DEF m, e, f, n
<1>4. n \in Nat /\ e \in Nat /\ f \in Nat /\ t =< n /\ e =< n
  BY <1>1, <1>3
<1>5. Even(n) /\ Even(e) /\ Even(m + 2 * cal.startHour)
  <2>1. /\ Even(2 * cal.startHour) /\ 2 * cal.startHour \in Int
        /\ Even(2 * cal.endHour) /\ 2 * cal.endHour \in Int
    BY <1>1, TwiceIsEven
  <2>2. Even(m + 2 * cal.startHour) /\ Even(m + 2 * cal.endHour)
    BY <1>1, <2>1 DEF Even
  <2>3. Even(m + 2 * cal.startHour + B!Day)
    BY <1>1, <2>1 DEF Even
  <2> QED
    BY <1>1, <2>2, <2>3
<1>6. CASE Closed(cal, t)
  <2>1. \A u \in t..(n - 1) : B!Open(cal, u) <=> t =< u /\ u < t
    BY <1>2, <1>6
  <2>2. HowMany(cal, t, n) = 0
    BY <1>4, <2>1, OpenedIsAll
  <2>3. /\ HowMany(cal, a, n) = HowMany(cal, a, t) + HowMany(cal, t, n)
        /\ HowMany(cal, a, t) \in Nat
    <3>1. a =< t /\ t =< n /\ n \in Nat
      BY <1>4
    <3>2. HowMany(cal, a, t) \in Nat /\ HowMany(cal, t, n) \in Nat
      BY <3>1, OpenedAdds
    <3> QED
      BY <3>1, <3>2, OpenedAdds
  <2>4. HowMany(cal, a, n) = HowMany(cal, a, t)
    BY <2>2, <2>3
  <2> QED
    BY <1>5, <2>4 DEF CountInv, n
<1>7. CASE ~Closed(cal, t) /\ B!Available(cal, From(cal, t)) =< 0
  <2>1. (e - f) \div 2 =< 0
    BY <1>3, <1>7
  <2>2. e - f < 2
    BY <1>4, <2>1, Halves
  <2>3. HowMany(cal, t, n) = IF f > e THEN 0 ELSE e - f
    BY ZenonT(60), <1>2, <1>3, <1>4, <1>7, OpenedIsAll
  <2>4. HowMany(cal, a, n) = HowMany(cal, a, t) + HowMany(cal, t, n)
        /\ HowMany(cal, a, t) \in Nat
    <3>1. a =< t /\ t =< n /\ n \in Nat
      BY <1>4
    <3>2. HowMany(cal, a, t) \in Nat /\ HowMany(cal, t, n) \in Nat
      BY <3>1, OpenedAdds
    <3> QED
      BY <3>1, <3>2, OpenedAdds
  <2>5. CASE f >= e
    <3>1. HowMany(cal, t, n) = 0
      BY <1>4, <2>3, <2>5
    <3>2. HowMany(cal, a, n) = HowMany(cal, a, t)
      BY <2>4, <3>1
    <3> QED
      BY <1>5, <3>2 DEF CountInv, n
  <2>6. CASE f = e - 1
    <3>1. ~Even(f)
      BY <1>4, <1>5, <2>6 DEF Even
    <3>2. ~Even(t)
      BY <1>3, <1>5, <3>1
    <3>3. HowMany(cal, t, n) = 1
      BY <1>4, <2>3, <2>6
    <3>4. HowMany(cal, a, t) = 2 * k
      BY <3>2 DEF CountInv
    <3>5. HowMany(cal, a, n) = 2 * k + 1
      BY <2>4, <3>3, <3>4
    <3> QED
      BY <1>5, <3>5 DEF CountInv, n
  <2> QED
    BY <1>4, <2>2, <2>5, <2>6
<1> QED
  BY <1>6, <1>7 DEF n

\* A day in which c minutes are counted.
LEMMA MinutesAreCounted ==
  ASSUME Bounds, NEW cal \in B!Calendar, B!SameDays(cal), NEW t \in Nat, NEW a \in Nat,
         a =< t, NEW k \in Nat, CountInv(cal, a, t, k), ~Closed(cal, t),
         NEW c \in Nat \ {0}, c =< B!Available(cal, From(cal, t)),
         NEW z, z = From(cal, t) + 2 * c
  PROVE  CountInv(cal, a, z, k + c) /\ B!Open(cal, z - 1)
<1> DEFINE m == B!DayOf(t) * B!Day
           e == B!DayEnd(cal, t)
           f == From(cal, t)
           n == B!NextDay(cal, t)
<1>1. /\ B!Day \in Nat \ {0} /\ m \in Nat /\ m =< t /\ t < m + B!Day
      /\ Even(m) /\ cal.startHour \in Nat /\ cal.endHour \in Nat
      /\ e = m + 2 * cal.endHour /\ n = m + 2 * cal.startHour + B!Day
      /\ B!DayStart(cal, t) = m + 2 * cal.startHour
      /\ 2 * cal.startHour < B!Day /\ 2 * cal.endHour =< B!Day
  BY TheDay DEF Bounds, B!NextDay
<1>2. /\ \A u \in t..(n - 1) : B!Open(cal, u) <=> f =< u /\ u < e
  BY <1>1, RestOfTheDay DEF Bounds
<1>3. /\ f = t \/ f = m + 2 * cal.startHour
      /\ t =< f /\ f =< n /\ f \in Nat /\ c =< (e - f) \div 2
  BY <1>1, FromIsToday
<1>4. z = f + 2 * c
  OBVIOUS
<1> HIDE DEF m, e, f, n
<1>5. n \in Nat /\ e \in Nat /\ z \in Nat /\ t =< z /\ z =< e /\ e =< n /\ f =< z
  <2>1. n \in Nat /\ e \in Nat /\ e =< n
    BY <1>1
  <2>2. 2 * ((e - f) \div 2) =< e - f /\ (e - f) \div 2 \in Int
    BY <1>3, <2>1, Halves
  <2> QED
    BY <1>3, <1>4, <2>1, <2>2
<1>6. \A u \in t..(z - 1) : B!Open(cal, u) <=> f =< u /\ u < z
  <2> TAKE u \in t..(z - 1)
  <2>1. u \in t..(n - 1) /\ u < z /\ u < e
    BY <1>5
  <2> QED
    BY <1>2, <2>1
<1>7. HowMany(cal, t, z) = 2 * c
  <2>1. /\ t =< f /\ f \in Nat /\ z \in Nat /\ f =< z /\ z - f = 2 * c
    BY <1>3, <1>4, <1>5
  <2> QED
    BY <1>6, <2>1, OpenedIsWhole
<1>8. HowMany(cal, a, z) = HowMany(cal, a, t) + 2 * c /\ HowMany(cal, a, t) \in Nat
  BY <1>5, <1>7, OpenedAdds
<1>9. Even(t) => Even(z)
  <2>1. Even(2 * cal.startHour) /\ 2 * cal.startHour \in Int /\ Even(2 * c) /\ 2 * c \in Int
    BY <1>1, TwiceIsEven
  <2>2. Even(m + 2 * cal.startHour)
    BY <1>1, <2>1 DEF Even
  <2>3. Even(t) => Even(f)
    BY <1>3, <2>2
  <2>4. Even(f) => Even(f + 2 * c)
    BY <1>3, <2>1, EvenSum
  <2> QED
    BY <1>4, <2>3, <2>4
<1>10. CountInv(cal, a, z, k + c)
  <2>1. HowMany(cal, a, t) = 2 * k => HowMany(cal, a, z) = 2 * (k + c)
    BY <1>8
  <2>2. HowMany(cal, a, t) = 2 * k + 1 => HowMany(cal, a, z) = 2 * (k + c) + 1
    BY <1>8
  <2> QED
    BY <1>9, <2>1, <2>2 DEF CountInv
<1>11. B!Open(cal, z - 1)
  <2>1. z - 1 \in t..(n - 1) /\ f =< z - 1 /\ z - 1 < e
    BY <1>3, <1>4, <1>5
  <2> QED
    BY <1>2, <2>1
<1> QED
  BY <1>10, <1>11

LEMMA StartJobKeeps == ASSUME Bounds, B!StartJob PROVE JobInv(job)'
<1>1. PICK cal \in B!Calendar, start \in 0..(B!Day - 1), minutes \in 1..MaxMinutes :
        job' = [pc |-> "loop", cal |-> cal, start |-> start, minutes |-> minutes,
                cursor |-> start, remaining |-> minutes]
  BY DEF B!StartJob
<1>2. B!Day \in Nat \ {0} /\ start \in Nat /\ minutes \in Nat
  BY TheDay DEF Bounds, B!Day, B!Hour, B!Minute
<1>3. job' \in JobType
  BY <1>1, <1>2 DEF JobType
<1>4. start =< (MaxDay + 1) * B!Day /\ start < B!Day
  <2>1. MaxDay * B!Day \in Nat /\ (MaxDay + 1) * B!Day = MaxDay * B!Day + B!Day
    BY <1>2, NextMultiple DEF Bounds
  <2> QED
    BY <1>2, <2>1
<1>5. HowMany(cal, start, start) = 0
  <2>1. \A u \in start..(start - 1) : B!Open(cal, u) <=> start =< u /\ u < start
    BY <1>2
  <2> QED
    BY <1>2, <2>1, OpenedIsAll
<1>6. CountInv(cal, start, start, minutes - minutes)
  BY <1>2, <1>5 DEF CountInv
<1> QED
  BY <1>1, <1>2, <1>3, <1>4, <1>6 DEF JobInv

LEMMA LoopKeeps == ASSUME Bounds, JobInv(job), B!Loop PROVE JobInv(job)'
<1> DEFINE cal == job.cal
           t == job.cursor
           k == job.minutes - job.remaining
<1>1. /\ job \in JobType /\ job.start =< t /\ job.remaining =< job.minutes
      /\ job.start < B!Day /\ job.minutes \in 1..MaxMinutes /\ job.pc = "loop"
      /\ job.remaining > 0 /\ B!DayOf(t) < MaxDay
      /\ B!SameDays(cal) => CountInv(cal, job.start, t, k)
  BY DEF JobInv, B!Loop, B!Idle
<1>2. /\ cal \in B!Calendar /\ t \in Nat /\ k \in Nat /\ job.start \in Nat
      /\ job.remaining \in Nat
  BY <1>1 DEF JobType
<1>3. /\ B!Day \in Nat \ {0} /\ B!DayOf(t) \in Nat /\ B!DayOf(t) * B!Day \in Nat
      /\ B!DayOf(t) * B!Day =< t /\ t < B!DayOf(t) * B!Day + B!Day
      /\ B!DayStart(cal, t) = B!DayOf(t) * B!Day + 2 * cal.startHour
      /\ B!DayEnd(cal, t) = B!DayOf(t) * B!Day + 2 * cal.endHour
      /\ 2 * cal.startHour < B!Day /\ 2 * cal.endHour =< B!Day
      /\ cal.startHour \in Nat /\ cal.endHour \in Nat
  BY <1>2, TheDay DEF Bounds
<1>4. B!DayOf(t) * B!Day + 2 * B!Day =< (MaxDay + 1) * B!Day
  <2>1. \A n \in Nat \ {0} : \A d \in Nat, e \in Nat : d < e => d * n + n =< e * n
    OBVIOUS
  <2>2. /\ MaxDay * B!Day \in Nat /\ (MaxDay + 1) * B!Day = MaxDay * B!Day + B!Day
        /\ B!DayOf(t) * B!Day + B!Day =< MaxDay * B!Day
    BY <1>1, <1>3, <2>1, NextMultiple DEF Bounds
  <2> QED
    BY <1>3, <2>2
<1> DEFINE c == B!Least(job.remaining, B!Available(cal, From(cal, t)))
           over == Closed(cal, t) \/ B!Available(cal, From(cal, t)) =< 0
<1>5. job' = IF over THEN [job EXCEPT !.cursor = B!NextDay(cal, t)]
             ELSE [job EXCEPT !.cursor = From(cal, t) + c * B!Minute,
                              !.remaining = job.remaining - c]
  BY DEF B!Loop, Closed, From
<1>6. CASE over
  <2> DEFINE n == B!NextDay(cal, t)
  <2>1. n \in Nat /\ t =< n /\ n =< (MaxDay + 1) * B!Day
    <3>1. n = B!DayOf(t) * B!Day + 2 * cal.startHour + B!Day
      BY <1>3 DEF B!NextDay
    <3>2. \A m \in Nat, q \in Nat, g \in Nat : t < m + q /\ 2 * g < q =>
             m + 2 * g + q \in Nat /\ t =< m + 2 * g + q /\ m + 2 * g + q =< m + 2 * q
      BY <1>2
    <3>3. n \in Nat /\ t =< n /\ n =< B!DayOf(t) * B!Day + 2 * B!Day
      <4> DEFINE m == B!DayOf(t) * B!Day
                 q == B!Day
                 g == cal.startHour
      <4>1. m \in Nat /\ q \in Nat /\ g \in Nat /\ t < m + q /\ 2 * g < q /\ n = m + 2 * g + q
        BY <1>3, <3>1
      <4> HIDE DEF m, q, g, n
      <4>2. n \in Nat /\ t =< n /\ n =< m + 2 * q
        BY <3>2, <4>1
      <4> QED
        BY <4>2 DEF m, q, n
    <3> QED
      BY <1>3, <1>4, <3>3, NextMultiple DEF Bounds
  <2>2. B!SameDays(cal) => CountInv(cal, job.start, n, k)
    BY <1>1, <1>2, <1>6, DayIsOver
  <2>3. job' = [job EXCEPT !.cursor = n]
    BY <1>5, <1>6
  <2> HIDE DEF n
  <2>4. /\ job' \in JobType /\ job'.pc = "loop" /\ job'.cal = job.cal
        /\ job'.start = job.start /\ job'.minutes = job.minutes /\ job'.cursor = n
        /\ job'.remaining = job.remaining
    BY <1>1, <2>1, <2>3 DEF JobType
  <2> QED
    BY <1>1, <1>2, <2>1, <2>2, <2>4 DEF JobInv
<1>7. CASE ~over
  <2> DEFINE z == From(cal, t) + c * B!Minute
             r == job.remaining - c
  <2>1. /\ From(cal, t) \in Nat /\ t =< From(cal, t)
        /\ B!Available(cal, From(cal, t)) = (B!DayEnd(cal, t) - From(cal, t)) \div 2
    BY <1>2, FromIsToday
  <2>2. /\ B!DayEnd(cal, t) \in Nat /\ B!DayEnd(cal, t) =< B!DayOf(t) * B!Day + 2 * B!Day
    BY <1>3
  <2>3. /\ B!Available(cal, From(cal, t)) \in Nat \ {0}
        /\ 2 * B!Available(cal, From(cal, t)) =< B!DayEnd(cal, t) - From(cal, t)
    BY <1>7, <2>1, <2>2, Halves
  <2>4. /\ c \in Nat \ {0} /\ c =< B!Available(cal, From(cal, t)) /\ c =< job.remaining
    BY <1>1, <1>2, <2>3 DEF B!Least
  <2>5. r \in Nat /\ r =< job.minutes /\ job.minutes - r = k + c
    BY <1>1, <1>2, <2>4 DEF JobType
  <2>6. z \in Nat /\ t =< z /\ z =< B!DayEnd(cal, t)
    <3>1. z = From(cal, t) + 2 * c
      BY <2>1, <2>4 DEF B!Minute
    <3> QED
      BY <1>2, <2>1, <2>2, <2>3, <2>4, <3>1
  <2>7. z =< (MaxDay + 1) * B!Day
    BY <1>3, <1>4, <2>2, <2>6, NextMultiple DEF Bounds
  <2>8. ASSUME B!SameDays(cal)
        PROVE  CountInv(cal, job.start, z, k + c) /\ B!Open(cal, z - 1)
    <3>1. CountInv(cal, job.start, t, k) /\ job.start =< t /\ ~Closed(cal, t)
      BY <1>1, <1>7, <2>8
    <3> HIDE DEF c, k, t, cal
    <3>2. z = From(cal, t) + 2 * c
      BY <2>1, <2>4 DEF B!Minute
    <3> HIDE DEF z
    <3> QED
      BY <1>2, <2>4, <2>8, <3>1, <3>2, MinutesAreCounted
  <2>9. job' = [job EXCEPT !.cursor = z, !.remaining = r]
    BY <1>5, <1>7
  <2> HIDE DEF z, r
  <2>10. /\ job' \in JobType /\ job'.pc = "loop" /\ job'.cal = job.cal
         /\ job'.start = job.start /\ job'.minutes = job.minutes /\ job'.cursor = z
         /\ job'.remaining = r
    BY <1>1, <2>5, <2>6, <2>9 DEF JobType
  <2> QED
    BY <1>1, <1>2, <2>5, <2>6, <2>7, <2>8, <2>10 DEF JobInv
<1> QED
  BY <1>6, <1>7

LEMMA JobKeeps == ASSUME Bounds, JobInv(job), [B!Next]_(B!vars) PROVE JobInv(job)'
<1>1. CASE B!StartJob
  BY <1>1, StartJobKeeps
<1>2. CASE B!Loop
  BY <1>2, LoopKeeps
<1>3. CASE B!Return
  <2>1. /\ job \in JobType /\ job.start =< job.cursor /\ job.remaining =< job.minutes
        /\ job.start < B!Day /\ job.minutes \in 1..MaxMinutes
        /\ job.cursor =< (MaxDay + 1) * B!Day /\ job.remaining = 0
        /\ B!SameDays(job.cal) =>
             /\ CountInv(job.cal, job.start, job.cursor, job.minutes - job.remaining)
             /\ B!Open(job.cal, job.cursor - 1)
    BY <1>3 DEF JobInv, B!Return, B!Idle
  <2>2. job' = [job EXCEPT !.pc = "done"]
    BY <1>3 DEF B!Return
  <2>3. /\ job' \in JobType /\ job'.cal = job.cal /\ job'.start = job.start
        /\ job'.minutes = job.minutes /\ job'.cursor = job.cursor
        /\ job'.remaining = job.remaining
    BY <2>1, <2>2 DEF JobType
  <2> QED
    BY <2>1, <2>3 DEF JobInv
<1>4. CASE B!Forget
  BY <1>4 DEF B!Forget, JobInv, B!Idle
<1>5. CASE UNCHANGED B!vars
  BY <1>5 DEF B!vars, JobInv
<1> QED
  BY <1>1, <1>2, <1>3, <1>4, <1>5 DEF B!Next

\* The search keeps its invariant whichever part the behaviour is about.
THEOREM CalendarInvariant == ASSUME Bounds PROVE Spec => []JobInv(job)
<1>1. B!Init => JobInv(job)
  BY DEF B!Init, JobInv
<1>2. JobInv(job) /\ [B!Next]_(B!vars) => JobInv(job)'
  BY JobKeeps
<1> QED
  BY <1>1, <1>2, Parts, PTL DEF B!Spec

\* The calendar counts with the Cardinality of FiniteSets.
LEMMA SameCountOfDays == \A s : B!Cardinality(s) = Cardinality(s)
BY DEF B!Cardinality, Cardinality

\* Between the start and the deadline lie the minutes of the policy and at most a half
\* more, and the deadline comes at once after an open instant
\* (BusinessCalendar.DeadlineCounts), for weeks and days of any length, on every
\* calendar the service accepts and for every policy.
THEOREM DeadlineIsRight == ASSUME Bounds PROVE Spec => []DeadlineCounts
<1>1. ASSUME JobInv(job), job.pc = "done", B!SameDays(job.cal)
      PROVE  /\ B!Cardinality({t \in job.start..(job.cursor - 1) : B!Open(job.cal, t)})
                  - job.minutes * B!Minute \in 0..(B!Minute - 1)
             /\ B!Open(job.cal, job.cursor - 1)
  <2>1. /\ job \in JobType /\ job.remaining = 0 /\ B!Open(job.cal, job.cursor - 1)
        /\ CountInv(job.cal, job.start, job.cursor, job.minutes - job.remaining)
    BY <1>1 DEF JobInv, B!Idle
  <2>2. job.minutes \in Nat /\ job.minutes - job.remaining = job.minutes
    BY <2>1 DEF JobType
  <2>3. B!Cardinality({t \in job.start..(job.cursor - 1) : B!Open(job.cal, t)})
          = HowMany(job.cal, job.start, job.cursor)
    BY SameCountOfDays DEF HowMany, Opened
  <2>4. \/ HowMany(job.cal, job.start, job.cursor) = 2 * job.minutes
        \/ HowMany(job.cal, job.start, job.cursor) = 2 * job.minutes + 1
    BY <2>1, <2>2 DEF CountInv
  <2>5. HowMany(job.cal, job.start, job.cursor) - job.minutes * B!Minute
          \in 0..(B!Minute - 1)
    BY <2>2, <2>4 DEF B!Minute
  <2> QED
    BY <2>1, <2>3, <2>5
<1>2. JobInv(job) => DeadlineCounts
  BY <1>1 DEF DeadlineCounts, B!DeadlineCounts
<1> QED
  BY <1>2, CalendarInvariant, PTL

-----------------------------------------------------------------------------
(***************************************************************************)
(* The types of all the parts.                                             *)
(***************************************************************************)

\* What was read is a revision there is.
ScreenBounds == S!TypeOK /\ (fetch.pc = "read" => fetch.rev \in 0..MaxRev)

LEMMA SavesStayTyped ==
  ASSUME MaxRev \in Nat, ScreenInv, ScreenBounds, NEW s \in Saves,
         S!Submit(s) \/ S!Accept(s) \/ S!Fail(s) \/ S!Invalidate(s) \/ S!Reset(s)
  PROVE  ScreenBounds'
<1> DEFINE Rev == 0..MaxRev
           Record == [pc : {"idle", "sent", "accepted", "refetch", "done"},
                      text : Texts \cup {Nil}, rev : Rev \cup {Nil}]
           Fetch == [pc : {"none", "asked", "read"}, rev : Rev \cup {Nil}]
           k == rev + 1
<1>1. /\ rev \in Rev /\ posted \subseteq Texts /\ cache \in [rev : Rev, failed : BOOLEAN]
      /\ fetch \in Fetch /\ draft \in Texts \cup {Nil} /\ save \in [Saves -> Record]
      /\ fetch.pc = "read" => fetch.rev \in Rev
  BY DEF ScreenBounds, S!TypeOK
<1>2. rev < MaxRev => k \in Rev
  BY <1>1
<1>3. S!NoSave \in Record /\ S!Asked \in Fetch /\ S!Asked.pc = "asked"
  BY DEF S!NoSave, S!Asked
<1>4. S!Released \in [Saves -> Record] /\ save[s] \in Record
  BY <1>1 DEF S!Released
<1> HIDE DEF Rev, k
<1>5. /\ rev' \in Rev /\ posted' \subseteq Texts /\ cache' = cache
      /\ fetch' \in Fetch /\ draft' \in Texts \cup {Nil} /\ save' \in [Saves -> Record]
      /\ fetch'.pc = "read" => fetch'.rev \in Rev
  <2>1. CASE S!Submit(s)
    <3>1. [pc |-> "sent", text |-> draft, rev |-> Nil] \in Record
      BY <1>1
    <3> QED
      BY <1>1, <2>1, <3>1 DEF S!Submit, S!Becomes
  <2>2. CASE S!Accept(s)
    <3>1. k \in Rev /\ rev' = k /\ posted' = posted \cup {save[s].text}
          /\ save' = [save EXCEPT ![s] = [save[s] EXCEPT !.pc = "accepted", !.rev = k]]
          /\ UNCHANGED <<cache, fetch, draft>>
      BY <1>2, <2>2 DEF S!Accept, S!Becomes, k
    <3>2. [save[s] EXCEPT !.pc = "accepted", !.rev = k] \in Record
      BY <1>4, <3>1
    <3>3. posted' \subseteq Texts
      BY <2>2, AcceptKeeps DEF ScreenInv, ScreenTypes
    <3> QED
      BY <1>1, <3>1, <3>2, <3>3
  <2>3. CASE S!Fail(s) \/ S!Reset(s)
    BY <1>1, <1>3, <2>3 DEF S!Fail, S!Reset, S!Becomes
  <2>4. CASE S!Invalidate(s)
    <3>1. [save[s] EXCEPT !.pc = "refetch"] \in Record
      BY <1>4
    <3>2. /\ fetch' = S!Asked /\ UNCHANGED <<rev, posted, cache, draft>>
          /\ save' = [S!Released EXCEPT ![s] = [save[s] EXCEPT !.pc = "refetch"]]
      BY <2>4 DEF S!Invalidate
    <3> HIDE DEF Record
    <3> QED
      BY <1>1, <1>3, <1>4, <3>1, <3>2
  <2> QED
    BY <2>1, <2>2, <2>3, <2>4
<1> QED
  BY <1>5 DEF ScreenBounds, S!TypeOK, Rev

LEMMA ScreensStayTyped ==
  ASSUME MaxRev \in Nat, ScreenInv, ScreenBounds, [S!Next]_(S!vars)
  PROVE  ScreenBounds'
<1> DEFINE Rev == 0..MaxRev
<1>1. /\ rev \in Rev /\ cache \in [rev : Rev, failed : BOOLEAN]
      /\ fetch \in [pc : {"none", "asked", "read"}, rev : Rev \cup {Nil}]
      /\ fetch.pc = "read" => fetch.rev \in Rev
      /\ rev < MaxRev => rev + 1 \in Rev
  BY DEF ScreenBounds, S!TypeOK
<1>2. CASE UNCHANGED S!vars
  BY <1>2 DEF S!vars, ScreenBounds, S!TypeOK
<1>3. CASE S!OthersWrite
  BY <1>1, <1>3 DEF S!OthersWrite, ScreenBounds, S!TypeOK
<1>4. CASE S!Ask \/ S!Read \/ \E text \in Texts : S!Type(text)
  BY <1>1, <1>4 DEF S!Ask, S!Asked, S!Read, S!Type, ScreenBounds, S!TypeOK
<1>5. CASE S!Arrive \/ S!FetchFails
  <2>1. S!Released \in [Saves -> [pc : {"idle", "sent", "accepted", "refetch", "done"},
                                  text : Texts \cup {Nil}, rev : Rev \cup {Nil}]]
    BY DEF ScreenBounds, S!TypeOK, S!Released
  <2> HIDE DEF Rev
  <2>2. /\ cache' \in [rev : Rev, failed : BOOLEAN] /\ save' = S!Released
        /\ fetch' = [pc |-> "none", rev |-> Nil] /\ UNCHANGED <<rev, posted, draft>>
    <3>1. CASE S!Arrive
      <4>1. /\ fetch.pc = "read" /\ cache' = [rev |-> fetch.rev, failed |-> FALSE]
            /\ save' = S!Released /\ fetch' = [pc |-> "none", rev |-> Nil]
            /\ UNCHANGED <<rev, posted, draft>>
        BY <3>1 DEF S!Arrive, S!NoFetch
      <4>2. fetch.rev \in Rev
        BY <1>1, <4>1
      <4> QED
        BY <4>1, <4>2
    <3>2. CASE S!FetchFails
      <4>1. /\ cache' = [cache EXCEPT !.failed = TRUE] /\ save' = S!Released
            /\ fetch' = [pc |-> "none", rev |-> Nil] /\ UNCHANGED <<rev, posted, draft>>
        BY <3>2 DEF S!FetchFails, S!NoFetch
      <4> QED
        BY <1>1, <4>1
    <3> QED
      BY <1>5, <3>1, <3>2
  <2> QED
    BY <2>1, <2>2 DEF ScreenBounds, S!TypeOK, Rev
<1> QED
  BY <1>2, <1>3, <1>4, <1>5, SavesStayTyped DEF S!Next

\* Caches, drafts and saves of the screens keep to their types (Screens.TypeOK).
THEOREM ScreenTypeCorrect == ASSUME MaxRev \in Nat PROVE Spec => []S!TypeOK
<1>1. S!Init => ScreenBounds
  BY DEF S!Init, ScreenBounds, S!TypeOK, S!NoSave, S!NoFetch
<1>2. ScreenInv /\ ScreenBounds /\ [S!Next]_(S!vars) => ScreenBounds'
  BY ScreensStayTyped
<1>3. ScreenBounds => S!TypeOK
  BY DEF ScreenBounds
<1> QED
  BY <1>1, <1>2, <1>3, ScreenInvariant, Parts, PTL DEF S!Spec

\* The part that a behaviour is about keeps to its types.
THEOREM TypesAreKept ==
  ASSUME PoolSize \in Nat, Bounds, Tries \in Nat, MaxIssued \in Nat, MaxRev \in Nat,
         Nil \notin Nat
  PROVE  Spec => []TypesOK
<1>1. JobInv(job) => B!TypeOK
  <2> SUFFICES ASSUME job \in JobType, JobInv(job), job # B!Idle PROVE B!TypeOK
    BY DEF JobInv, B!TypeOK
  <2>1. /\ B!Day \in Nat \ {0} /\ (MaxDay + 1) * B!Day \in Nat
    <3>1. B!Day = Hours * 2 /\ B!Day \in Nat \ {0}
      BY DEF B!Day, B!Hour, B!Minute, Bounds
    <3> QED
      BY <3>1, NextMultiple DEF Bounds
  <2>2. /\ job.start \in 0..(B!Day - 1) /\ job.minutes \in 1..MaxMinutes
        /\ job.remaining \in 0..job.minutes
        /\ job.cursor \in job.start..((MaxDay + 1) * B!Day)
    <3>1. /\ job.start \in Nat /\ job.minutes \in Nat /\ job.remaining \in Nat
          /\ job.cursor \in Nat
      BY DEF JobType
    <3> QED
      BY <2>1, <3>1 DEF JobInv
  <2> QED
    BY <2>2 DEF B!TypeOK, JobType
<1>2. ScriptInv => D!TypeOK
  BY DEF ScriptInv, ScriptTypes, MainType, States, Fates, D!TypeOK, D!Servers
<1>3. Spec => []P!TypeOK
  <2>1. P!TabsAreKnown
    BY DEF P!TabsAreKnown, P!Tab, Tabs, Calls
  <2> QED
    BY <2>1, Parts, P!TypeCorrect, PTL
<1>4. Init => area \in {"pool", "calendar", "scripts", "portal", "screens"}
  BY DEF Init
<1>5. area \in {"pool", "calendar", "scripts", "portal", "screens"} /\ [Next]_vars
        => (area \in {"pool", "calendar", "scripts", "portal", "screens"})'
  BY DEF Next, vars
<1>6. /\ area \in {"pool", "calendar", "scripts", "portal", "screens"}
      /\ C!TypeOK /\ B!TypeOK /\ D!TypeOK /\ P!TypeOK /\ S!TypeOK
      => TypesOK
  BY DEF TypesOK
<1>7. Spec => [](area \in {"pool", "calendar", "scripts", "portal", "screens"})
  BY <1>4, <1>5, PTL DEF Spec
<1> QED
  BY <1>1, <1>2, <1>3, <1>6, <1>7, Parts, PoolTypeCorrect, CalendarInvariant, ScriptInvariant,
     ScreenTypeCorrect, PTL

=============================================================================
