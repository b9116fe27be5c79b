----------------------------- MODULE DeskProofs -----------------------------
(***************************************************************************)
(* Proofs about the parts of the desk, each as MCDesk has it beside the    *)
(* others: a step of the desk is a step of one part and leaves the others  *)
(* alone, so what is proved of a part holds of the desk.                   *)
(***************************************************************************)
EXTENDS MCDesk, FiniteSetTheorems, SequenceTheorems, WellFoundedInduction, TLAPS

-----------------------------------------------------------------------------
\* Every step of the desk is, for each of its parts, a step or a stutter.
LEMMA Areas ==
  [Next]_vars =>
    /\ [K!Next]_(K!vars) /\ [I!Next]_(I!vars) /\ [C!Next]_(C!vars) /\ [L!Next]_(L!vars)
    /\ [V!Next]_(V!vars) /\ [F!Next]_(F!vars) /\ [R!Next]_(R!vars) /\ [B!Next]_(B!vars)
    /\ [P!Next]_(P!vars)
BY DEF Next, vars, K!vars, I!vars, C!vars, C!tables, L!vars, L!rows, V!vars, V!tables,
       F!vars, R!vars, B!vars, P!vars, AllKnowledge, AllInbox, AllCmdb, AllLists,
       AllConversation, AllCatalog, AllRules, AllCalendars, AllPortal

\* So is every behaviour of it a behaviour of each.
LEMMA Parts ==
  Spec => /\ K!Spec /\ I!Spec /\ C!Spec /\ L!Spec /\ V!Spec /\ F!Spec /\ R!Spec
          /\ B!Spec /\ P!Spec
<1>1. Init => /\ K!Init /\ I!Init /\ C!Init /\ L!Init /\ V!Init /\ F!Init /\ R!Init
              /\ B!Init /\ P!Init
  BY DEF Init
<1> QED
  BY <1>1, Areas, PTL DEF Spec, K!Spec, I!Spec, C!Spec, L!Spec, V!Spec, F!Spec, R!Spec,
                          B!Spec, P!Spec

-----------------------------------------------------------------------------
(***************************************************************************)
(* Knowledge base and browser session, proved in modules of their own.     *)
(***************************************************************************)

\* Articles, slugs and comments are consistent under edits that overlap.
THEOREM KnowledgeHolds == Spec => []ArticlesHold
BY Parts, K!ArticlesAreConsistent, PTL DEF ArticlesHold

\* A browser with a session at hand keeps what the server keeps, for the two tabs.
THEOREM SessionIsKept == Spec => []SessionSurvives
<1>1. P!TabsAreKnown
  BY DEF P!TabsAreKnown, P!Tab, Tabs, Calls
<1> QED
  BY <1>1, Parts, P!SessionIsKept, PTL DEF SessionSurvives

-----------------------------------------------------------------------------
(***************************************************************************)
(* Notifications: for any number of requests, users and notifications the  *)
(* audit log says what was read, and by whom.                              *)
(***************************************************************************)

\* Who marks rows read is their recipient, and has marked them when it records it.
ReadingShape(r) ==
  /\ r \in I!Request
  /\ r.pc \in {"mark", "record"} =>
       r.by \in Users /\ \A n \in r.marked : notes[n].to = r.by
  /\ r.pc = "record" => \A n \in r.marked : notes[n].isRead

InboxTypes ==
  /\ notes \in [Notes -> [to : Users \cup {Nil}, isRead : BOOLEAN]]
  /\ active \subseteq Users
  /\ told \subseteq Users \X Notes
  /\ reading \in [Workers -> I!Request]

InboxInv == InboxTypes /\ (\A w \in Workers : ReadingShape(reading[w])) /\ I!LogAgrees

-----------------------------------------------------------------------------
LEMMA InboxInitially == I!Init => InboxInv
BY DEF I!Init, InboxInv, InboxTypes, ReadingShape, I!Idle, I!Request, I!NoNote,
       I!LogAgrees, I!ReadIsTold, I!ToldIsTrue

\* A row that has a recipient keeps it, and stays read once it is.
NotesGrown ==
  \A n \in Notes : notes[n].to # Nil =>
    notes'[n].to = notes[n].to /\ (notes[n].isRead => notes'[n].isRead)

LEMMA ReadingsKept ==
  ASSUME Nil \notin Users, InboxInv, NotesGrown, NEW w \in Workers, NEW r,
         reading' = [reading EXCEPT ![w] = r], ReadingShape(r)'
  PROVE  /\ (reading \in [Workers -> I!Request])'
         /\ \A v \in Workers : ReadingShape(reading[v])'
<1>1. \A v \in Workers : ReadingShape(reading[v]) => ReadingShape(reading[v])'
                                          \/ reading'[v] # reading[v]
  BY DEF ReadingShape, I!Request, NotesGrown
<1>2. r \in I!Request
  BY DEF ReadingShape
<1> QED
  BY <1>1, <1>2 DEF InboxInv, InboxTypes, ReadingShape

\* A request goes on without writing to the log; what it reads it is about to record.
LEMMA ReadingGoesOn ==
  ASSUME Nil \notin Users, InboxInv, NotesGrown, NEW w \in Workers, NEW r,
         reading' = [reading EXCEPT ![w] = r], ReadingShape(r)', reading[w].pc # "record",
         (notes \in [Notes -> [to : Users \cup {Nil}, isRead : BOOLEAN]])',
         active' \subseteq Users, told' = told,
         \A n \in Notes : notes'[n].isRead =>
           \/ notes[n].isRead /\ notes'[n].to = notes[n].to
           \/ r.pc = "record" /\ r.by = notes'[n].to /\ n \in r.marked
  PROVE  InboxInv'
<1>1. InboxTypes' /\ \A v \in Workers : ReadingShape(reading[v])'
  BY ReadingsKept DEF InboxInv, InboxTypes
<1>2. I!ReadIsTold'
  <2> SUFFICES ASSUME NEW n \in Notes, notes'[n].isRead, <<notes'[n].to, n>> \notin told'
      PROVE  \E v \in Workers : reading'[v].pc = "record" /\ reading'[v].by = notes'[n].to
                                 /\ n \in reading'[v].marked
    BY DEF I!ReadIsTold, I!At
  <2>1. CASE notes[n].isRead /\ notes'[n].to = notes[n].to
    <3>1. PICK v \in Workers : reading[v].pc = "record" /\ reading[v].by = notes[n].to
                               /\ n \in reading[v].marked
      BY <2>1 DEF InboxInv, I!LogAgrees, I!ReadIsTold, I!At
    <3>2. reading'[v] = reading[v]
      BY <3>1 DEF InboxInv, InboxTypes
    <3> QED
      BY <2>1, <3>1, <3>2
  <2>2. CASE r.pc = "record" /\ r.by = notes'[n].to /\ n \in r.marked
    BY <2>2 DEF InboxInv, InboxTypes
  <2> QED
    BY <2>1, <2>2
<1>3. I!ToldIsTrue'
  BY DEF InboxInv, InboxTypes, I!LogAgrees, I!ToldIsTrue, NotesGrown
<1> QED
  BY <1>1, <1>2, <1>3 DEF InboxInv, I!LogAgrees

LEMMA BroadcastKeeps ==
  ASSUME Nil \notin Users, InboxInv, NEW w \in Workers, NEW ids \in SUBSET Users,
         I!Broadcast(w, ids)
  PROVE  InboxInv'
<1> DEFINE r == [I!Idle EXCEPT !.pc = "insert", !.to = ids \cap active]
<1>1. ReadingShape(r)'
  BY DEF ReadingShape, I!Request, I!Idle
<1> QED
  BY <1>1, ReadingGoesOn DEF InboxInv, InboxTypes, NotesGrown, I!Broadcast, I!Arrive, I!At

LEMMA CreateKeeps ==
  ASSUME Nil \notin Users, InboxInv, NEW w \in Workers, NEW u \in Users, I!Create(w, u)
  PROVE  InboxInv'
<1> DEFINE r == [I!Idle EXCEPT !.pc = "insert", !.to = {u}]
<1>1. ReadingShape(r)'
  BY DEF ReadingShape, I!Request, I!Idle
<1> QED
  BY <1>1, ReadingGoesOn DEF InboxInv, InboxTypes, NotesGrown, I!Create, I!Arrive, I!At

LEMMA MarkAsReadKeeps ==
  ASSUME Nil \notin Users, InboxInv, NEW w \in Workers, NEW u \in Users, NEW n \in Notes,
         I!MarkAsRead(w, u, n)
  PROVE  InboxInv'
<1> DEFINE r == [I!Idle EXCEPT !.pc = "mark", !.by = u, !.marked = {n}]
<1>1. ReadingShape(r)'
  BY DEF ReadingShape, I!Request, I!Idle, I!MarkAsRead, I!Unread, I!Inbox
<1> QED
  BY <1>1, ReadingGoesOn DEF InboxInv, InboxTypes, NotesGrown, I!MarkAsRead, I!Arrive,
                             I!At

\* The statement inserts rows for the recipients under keys that are free.
LEMMA InsertNotesKeeps ==
  ASSUME Nil \notin Users, InboxInv, NEW w \in Workers, I!Insert(w)
  PROVE  InboxInv'
<1>1. reading[w] \in I!Request /\ reading[w].pc = "insert"
  BY DEF InboxInv, InboxTypes, I!Insert, I!At
<1>2. PICK row \in [reading[w].to -> I!Free] :
        notes' = [n \in Notes |-> IF \E u \in reading[w].to : row[u] = n
                   THEN [to |-> CHOOSE u \in reading[w].to : row[u] = n, isRead |-> FALSE]
                   ELSE notes[n]]
  BY DEF I!Insert
<1>3. \A n \in Notes : (\E u \in reading[w].to : row[u] = n) =>
        /\ notes[n].to = Nil /\ ~notes'[n].isRead
        /\ notes'[n] \in [to : Users \cup {Nil}, isRead : BOOLEAN]
  BY <1>1, <1>2 DEF I!Free, I!Request
<1>4. \A n \in Notes : ~(\E u \in reading[w].to : row[u] = n) => notes'[n] = notes[n]
  BY <1>2
<1>5. (notes \in [Notes -> [to : Users \cup {Nil}, isRead : BOOLEAN]])'
  BY <1>2, <1>3, <1>4 DEF InboxInv, InboxTypes
<1>6. NotesGrown
  BY <1>3, <1>4 DEF NotesGrown
<1>7. ReadingShape(I!Idle)'
  BY DEF ReadingShape, I!Request, I!Idle
<1>8. \A n \in Notes : notes'[n].isRead => notes[n].isRead /\ notes'[n].to = notes[n].to
  BY <1>3, <1>4
<1>9. reading' = [reading EXCEPT ![w] = I!Idle] /\ active' = active /\ told' = told
  BY DEF I!Insert, I!Finish
<1> QED
  BY <1>1, <1>5, <1>6, <1>7, <1>8, <1>9, ReadingGoesOn DEF InboxInv, InboxTypes

\* What a statement marks belongs to its caller, who records it next.
LEMMA ReadKeeps ==
  ASSUME Nil \notin Users, InboxInv, NEW w \in Workers, NEW r \in I!Request,
         r.pc = "record", r.by \in Users,
         reading[w].pc # "record", reading' = [reading EXCEPT ![w] = r],
         \A n \in r.marked : notes[n].to = r.by,
         I!Read(r.marked), UNCHANGED <<active, told>>
  PROVE  InboxInv'
<1>1. /\ (notes \in [Notes -> [to : Users \cup {Nil}, isRead : BOOLEAN]])'
      /\ \A n \in Notes : /\ notes'[n].to = notes[n].to
                          /\ notes'[n].isRead <=> (notes[n].isRead \/ n \in r.marked)
  BY DEF InboxInv, InboxTypes, I!Read
<1>2. NotesGrown /\ ReadingShape(r)'
  BY <1>1 DEF NotesGrown, ReadingShape, I!Request
<1> QED
  BY <1>1, <1>2, ReadingGoesOn DEF InboxInv, InboxTypes

LEMMA UpdateReadKeeps ==
  ASSUME Nil \notin Users, InboxInv, NEW w \in Workers, I!UpdateRead(w)
  PROVE  InboxInv'
<1> DEFINE r == [reading[w] EXCEPT !.pc = "record"]
<1>1. ReadingShape(reading[w]) /\ reading[w] \in I!Request /\ reading[w].pc = "mark"
  BY DEF InboxInv, InboxTypes, I!UpdateRead, I!At
<1>2. /\ r \in I!Request /\ r.pc = "record" /\ r.by = reading[w].by
      /\ r.marked = reading[w].marked
  BY <1>1 DEF I!Request
<1>3. reading' = [reading EXCEPT ![w] = r] /\ I!Read(r.marked) /\ UNCHANGED <<active, told>>
  BY <1>2 DEF InboxInv, InboxTypes, I!UpdateRead
<1>4. r.by \in Users /\ \A n \in r.marked : notes[n].to = r.by
  BY <1>1, <1>2 DEF ReadingShape
<1> HIDE DEF r
<1> QED
  BY <1>1, <1>2, <1>3, <1>4, ReadKeeps

LEMMA MarkAllAsReadKeeps ==
  ASSUME Nil \notin Users, InboxInv, NEW w \in Workers, NEW u \in Users,
         I!MarkAllAsRead(w, u)
  PROVE  InboxInv'
<1> DEFINE r == [I!Idle EXCEPT !.pc = "record", !.by = u, !.marked = I!Unread(u)]
<1>1. r \in I!Request /\ r.pc = "record" /\ r.by = u /\ r.marked = I!Unread(u)
  BY DEF I!Request, I!Idle, I!Unread, I!Inbox
<1>2. /\ reading' = [reading EXCEPT ![w] = r] /\ I!Read(r.marked)
      /\ reading[w].pc # "record"
      /\ UNCHANGED <<active, told>>
  BY <1>1 DEF I!MarkAllAsRead, I!Arrive, I!At
<1>3. \A n \in r.marked : notes[n].to = r.by
  BY <1>1 DEF I!Unread, I!Inbox
<1> HIDE DEF r
<1> QED
  BY <1>1, <1>2, <1>3, ReadKeeps

LEMMA RecordKeeps ==
  ASSUME Nil \notin Users, InboxInv, NEW w \in Workers, I!Record(w)
  PROVE  InboxInv'
<1>1. /\ reading[w] \in I!Request /\ reading[w].by \in Users
      /\ \A n \in reading[w].marked : notes[n].to = reading[w].by /\ notes[n].isRead
  BY DEF InboxInv, InboxTypes, ReadingShape, I!Record, I!At
<1>2. /\ told' = told \cup ({reading[w].by} \X reading[w].marked) /\ notes' = notes
      /\ active' = active /\ reading' = [reading EXCEPT ![w] = I!Idle]
  BY DEF I!Record, I!Finish
<1>3. ReadingShape(I!Idle)' /\ NotesGrown
  BY <1>2 DEF ReadingShape, I!Request, I!Idle, NotesGrown
<1>4. InboxTypes' /\ \A v \in Workers : ReadingShape(reading[v])'
  BY <1>1, <1>2, <1>3, ReadingsKept DEF InboxInv, InboxTypes, I!Request
<1>5. I!ReadIsTold'
  <2> SUFFICES ASSUME NEW n \in Notes, notes[n].isRead, <<notes[n].to, n>> \notin told'
      PROVE  \E v \in Workers : reading'[v].pc = "record" /\ reading'[v].by = notes[n].to
                                 /\ n \in reading'[v].marked
    BY <1>2 DEF I!ReadIsTold, I!At
  <2>1. PICK v \in Workers : reading[v].pc = "record" /\ reading[v].by = notes[n].to
                             /\ n \in reading[v].marked
    BY <1>2 DEF InboxInv, I!LogAgrees, I!ReadIsTold, I!At
  <2>2. v # w
    BY <1>2, <2>1
  <2> QED
    BY <1>2, <2>1, <2>2 DEF InboxInv, InboxTypes
<1>6. I!ToldIsTrue'
  BY <1>1, <1>2 DEF InboxInv, I!LogAgrees, I!ToldIsTrue
<1> QED
  BY <1>4, <1>5, <1>6 DEF InboxInv, I!LogAgrees

LEMMA SwitchKeeps ==
  ASSUME InboxInv, NEW u \in Users, I!Switch(u)
  PROVE  InboxInv'
BY DEF InboxInv, InboxTypes, ReadingShape, I!LogAgrees, I!ReadIsTold, I!ToldIsTrue, I!At,
       I!Switch

LEMMA InboxKeeps == ASSUME Nil \notin Users PROVE InboxInv /\ [I!Next]_(I!vars) => InboxInv'
<1> SUFFICES ASSUME InboxInv, [I!Next]_(I!vars) PROVE InboxInv'
  OBVIOUS
<1>1. CASE UNCHANGED I!vars
  BY <1>1 DEF I!vars, InboxInv, InboxTypes, ReadingShape, I!LogAgrees, I!ReadIsTold,
              I!ToldIsTrue, I!At
<1>2. ASSUME NEW w \in Workers, NEW ids \in SUBSET Users, I!Broadcast(w, ids)
      PROVE  InboxInv'
  BY <1>2, BroadcastKeeps
<1>3. ASSUME NEW w \in Workers, NEW u \in Users, I!Create(w, u) \/ I!MarkAllAsRead(w, u)
      PROVE  InboxInv'
  BY <1>3, CreateKeeps, MarkAllAsReadKeeps
<1>4. ASSUME NEW w \in Workers, NEW u \in Users, NEW n \in Notes, I!MarkAsRead(w, u, n)
      PROVE  InboxInv'
  BY <1>4, MarkAsReadKeeps
<1>5. ASSUME NEW w \in Workers, I!Insert(w) \/ I!UpdateRead(w) \/ I!Record(w)
      PROVE  InboxInv'
  BY <1>5, InsertNotesKeeps, UpdateReadKeeps, RecordKeeps
<1>6. ASSUME NEW u \in Users, I!Switch(u)
      PROVE  InboxInv'
  BY <1>6, SwitchKeeps
<1> QED
  BY <1>1, <1>2, <1>3, <1>4, <1>5, <1>6 DEF I!Next

-----------------------------------------------------------------------------
\* The inductive invariant: what requests have marked, and the property.
THEOREM InboxInvariant == ASSUME Nil \notin Users PROVE I!Spec => []InboxInv
BY InboxInitially, InboxKeeps, PTL DEF I!Spec

\* Rows, records and requests keep to their types.
THEOREM InboxTypeCorrect == ASSUME Nil \notin Users PROVE I!Spec => []I!TypeOK
<1>1. InboxInv => I!TypeOK
  BY DEF InboxInv, InboxTypes, I!TypeOK
<1> QED
  BY <1>1, InboxInvariant, PTL

\* What is read is told or about to be, and what is told is true, for any number of
\* requests that mark the same rows.
THEOREM LogIsExact == ASSUME Nil \notin Users PROVE Spec => []LogAgrees
<1>1. InboxInv => LogAgrees
  BY DEF InboxInv, LogAgrees
<1> QED
  BY <1>1, Parts, InboxInvariant, PTL

-----------------------------------------------------------------------------
(***************************************************************************)
(* Conversation: for any number of posts and readers the timeline of a     *)
(* ticket tells what there is, whatever is rolled back or deleted meanwhile. *)
(***************************************************************************)

InTransaction == {"activity", "audit", "commit"}

\* What a request holds at each point of its handler: a transaction under way keeps
\* the ticket from going, and a reader has seen no comment that is not told.
PostingShape(r) ==
  /\ r \in V!Request
  /\ r.pc \in InTransaction \cup {"insert"} =>
       r.ask \in {"comment", "attach"} /\ r.post \in Posts
  /\ r.pc \in InTransaction => standing
  /\ r.pc = "commit" /\ r.ask = "attach" => r.post \in audits
  /\ r.pc = "activities" /\ standing => r.comments \subseteq activities
  /\ r.pc = "answer" /\ standing => r.comments \subseteq r.activities

TalkTables ==
  /\ standing \in BOOLEAN
  /\ comments \subseteq Posts /\ attachments \subseteq Posts
  /\ activities \subseteq Posts /\ audits \subseteq Posts

TalkInv ==
  /\ TalkTables /\ posting \in [Workers -> V!Request]
  /\ \A w \in Workers : PostingShape(posting[w])
  /\ V!PostsAreTold /\ V!AttachmentsAudited

-----------------------------------------------------------------------------
LEMMA TalkInitially == V!Init => TalkInv
BY DEF V!Init, TalkInv, TalkTables, PostingShape, V!Idle, V!Request, InTransaction,
       V!PostsAreTold, V!AttachmentsAudited

LEMMA IdlePosting == PostingShape(V!Idle)'
BY DEF PostingShape, V!Idle, V!Request, InTransaction

\* The tables only grow while the ticket is there, and stay whole.
TalkGrown ==
  /\ standing' = standing /\ activities \subseteq activities' /\ audits \subseteq audits'

\* A request goes on while the tables stay as they are or grow.
LEMMA PostingGoesOn ==
  ASSUME TalkInv, NEW w \in Workers, NEW r, posting' = [posting EXCEPT ![w] = r],
         PostingShape(r)',
         TalkGrown, TalkTables', V!PostsAreTold', V!AttachmentsAudited'
  PROVE  TalkInv'
<1>1. \A v \in Workers :
        PostingShape(posting[v]) /\ posting'[v] = posting[v] => PostingShape(posting[v])'
  BY DEF PostingShape, TalkGrown
<1>2. r \in V!Request
  BY DEF PostingShape
<1>3. /\ posting' \in [Workers -> V!Request]
      /\ \A v \in Workers : v # w => posting'[v] = posting[v]
  BY <1>2 DEF TalkInv
<1>4. \A v \in Workers : PostingShape(posting[v])'
  <2> SUFFICES ASSUME NEW v \in Workers PROVE PostingShape(posting[v])'
    OBVIOUS
  <2>1. CASE v = w
    <3>1. posting'[v] = r
      BY <2>1 DEF TalkInv
    <3> QED
      BY <3>1 DEF PostingShape
  <2>2. CASE v # w
    BY <1>1, <1>3, <2>2 DEF TalkInv
  <2> QED
    BY <2>1, <2>2
<1> QED
  BY <1>3, <1>4 DEF TalkInv

\* A request that reads or waits leaves the tables alone.
LEMMA PostingRests ==
  ASSUME TalkInv, NEW w \in Workers, NEW r, posting' = [posting EXCEPT ![w] = r],
         PostingShape(r)',
         UNCHANGED V!tables
  PROVE  TalkInv'
<1>1. TalkGrown /\ TalkTables' /\ V!PostsAreTold' /\ V!AttachmentsAudited'
  BY DEF TalkInv, TalkGrown, TalkTables, V!PostsAreTold, V!AttachmentsAudited, V!tables
<1> QED
  BY <1>1, PostingGoesOn

LEMMA AddKeeps ==
  ASSUME TalkInv, NEW w \in Workers, NEW ask \in {"comment", "attach"}, NEW p \in Posts,
         V!Add(w, ask, p)
  PROVE  TalkInv'
<1> DEFINE r == [V!Idle EXCEPT !.pc = "insert", !.ask = ask, !.post = p]
<1>1. PostingShape(r)'
  BY DEF PostingShape, V!Request, V!Idle, InTransaction
<1> QED
  BY <1>1, PostingRests DEF V!Add

LEMMA InsertPostKeeps ==
  ASSUME TalkInv, NEW w \in Workers, V!Insert(w)
  PROVE  TalkInv'
<1> DEFINE r == [posting[w] EXCEPT !.pc = "activity"]
<1>1. PostingShape(posting[w]) /\ posting[w].pc = "insert" /\ UNCHANGED V!tables
  BY DEF TalkInv, V!Insert, V!At
<1>2. CASE standing
  <2>1. \A f : f = r => PostingShape(f)'
    BY <1>1, <1>2 DEF PostingShape, V!Request, InTransaction, V!tables
  <2>2. posting' = [posting EXCEPT ![w] = r]
    BY <1>2 DEF TalkInv, V!Insert, V!Goto
  <2> HIDE DEF r
  <2> QED
    BY <1>1, <2>1, <2>2, PostingRests
<1>3. CASE ~standing
  BY <1>1, <1>3, IdlePosting, PostingRests DEF V!Insert, V!Finish
<1> QED
  BY <1>2, <1>3 DEF TalkInv, TalkTables

LEMMA InsertActivityKeeps ==
  ASSUME TalkInv, NEW w \in Workers, V!InsertActivity(w)
  PROVE  TalkInv'
<1> DEFINE r == [posting[w] EXCEPT !.pc =
                   IF posting[w].ask = "attach" THEN "audit" ELSE "commit"]
<1>1. PostingShape(posting[w]) /\ posting[w].pc = "activity" /\ UNCHANGED V!tables
  BY DEF TalkInv, V!InsertActivity, V!At
<1>2. \A f : f = r => PostingShape(f)'
  BY <1>1 DEF PostingShape, V!Request, InTransaction, V!tables
<1>3. posting' = [posting EXCEPT ![w] = r]
  BY DEF TalkInv, V!InsertActivity, V!Goto
<1> HIDE DEF r
<1> QED
  BY <1>1, <1>2, <1>3, PostingRests

LEMMA AuditPostKeeps ==
  ASSUME TalkInv, NEW w \in Workers, V!Audit(w)
  PROVE  TalkInv'
<1> DEFINE r == [posting[w] EXCEPT !.pc = "commit"]
<1>1. /\ PostingShape(posting[w]) /\ posting[w].pc = "audit"
      /\ UNCHANGED <<standing, comments, attachments, activities>>
      /\ audits' = audits \cup {posting[w].post}
  BY DEF TalkInv, V!Audit, V!At
<1>2. \A f : f = r => PostingShape(f)'
  BY <1>1 DEF PostingShape, V!Request, InTransaction
<1>3. posting' = [posting EXCEPT ![w] = r]
  BY DEF TalkInv, V!Audit, V!Goto
<1>4. TalkGrown /\ TalkTables' /\ V!PostsAreTold' /\ V!AttachmentsAudited'
  BY <1>1 DEF TalkInv, TalkGrown, TalkTables, V!PostsAreTold, V!AttachmentsAudited,
              PostingShape, InTransaction
<1> HIDE DEF r
<1> QED
  BY <1>2, <1>3, <1>4, PostingGoesOn

LEMMA CommitPostKeeps ==
  ASSUME TalkInv, NEW w \in Workers, V!Commit(w)
  PROVE  TalkInv'
<1>1. PostingShape(posting[w]) /\ posting[w].pc = "commit"
  BY DEF TalkInv, V!Commit, V!At
<1>2. TalkGrown /\ TalkTables' /\ V!PostsAreTold' /\ V!AttachmentsAudited'
  BY <1>1 DEF TalkInv, TalkGrown, TalkTables, V!PostsAreTold, V!AttachmentsAudited,
              PostingShape, InTransaction, V!Commit
<1> QED
  BY <1>2, IdlePosting, PostingGoesOn DEF V!Commit, V!Finish

LEMMA EndKeeps ==
  ASSUME TalkInv, NEW w \in Workers, V!Rollback(w) \/ V!Answer(w)
  PROVE  TalkInv'
BY IdlePosting, PostingRests DEF V!Rollback, V!Answer, V!Finish

LEMMA FindOneKeeps ==
  ASSUME TalkInv, NEW w \in Workers, V!FindOne(w)
  PROVE  TalkInv'
<1> DEFINE r == [V!Idle EXCEPT !.pc = "activities", !.ask = "read", !.comments = comments]
<1>1. comments \subseteq activities /\ comments \subseteq Posts /\ UNCHANGED V!tables
  BY DEF TalkInv, TalkTables, V!PostsAreTold, V!FindOne
<1>2. \A f : f = r => PostingShape(f)'
  BY <1>1 DEF PostingShape, V!Request, V!Idle, InTransaction, V!tables
<1>3. posting' = [posting EXCEPT ![w] = r]
  BY DEF V!FindOne
<1> HIDE DEF r
<1> QED
  BY <1>1, <1>2, <1>3, PostingRests

LEMMA ReadActivitiesKeeps ==
  ASSUME TalkInv, NEW w \in Workers, V!ReadActivities(w)
  PROVE  TalkInv'
<1> DEFINE r == [posting[w] EXCEPT !.pc = "answer", !.activities = activities]
<1>1. PostingShape(posting[w]) /\ posting[w].pc = "activities" /\ UNCHANGED V!tables
      /\ activities \subseteq Posts
  BY DEF TalkInv, TalkTables, V!ReadActivities, V!At
<1>2. \A f : f = r => PostingShape(f)'
  BY <1>1 DEF PostingShape, V!Request, InTransaction, V!tables
<1>3. posting' = [posting EXCEPT ![w] = r]
  BY DEF TalkInv, V!ReadActivities, V!Request
<1> HIDE DEF r
<1> QED
  BY <1>1, <1>2, <1>3, PostingRests

\* Nothing under way keeps the ticket, and readers promise nothing of one that went.
LEMMA DeleteKeeps ==
  ASSUME TalkInv, V!Delete
  PROVE  TalkInv'
<1>1. \A w \in Workers : posting[w].pc \notin InTransaction
  BY DEF V!Delete, V!Locked, InTransaction
<1>2. \A w \in Workers : PostingShape(posting[w])'
  BY <1>1 DEF TalkInv, PostingShape, V!Delete, InTransaction
<1>3. TalkTables' /\ V!PostsAreTold' /\ V!AttachmentsAudited'
  BY DEF TalkInv, TalkTables, V!PostsAreTold, V!AttachmentsAudited, V!Delete
<1> QED
  BY <1>2, <1>3 DEF TalkInv, V!Delete

LEMMA TalkKeeps == TalkInv /\ [V!Next]_(V!vars) => TalkInv'
<1> SUFFICES ASSUME TalkInv, [V!Next]_(V!vars) PROVE TalkInv'
  OBVIOUS
<1>1. CASE UNCHANGED V!vars
  BY <1>1 DEF V!vars, V!tables, TalkInv, TalkTables, PostingShape, V!PostsAreTold,
              V!AttachmentsAudited
<1>2. CASE V!Delete
  BY <1>2, DeleteKeeps
<1>3. ASSUME NEW w \in Workers, NEW ask \in {"comment", "attach"}, NEW p \in Posts,
             V!Add(w, ask, p)
      PROVE  TalkInv'
  BY <1>3, AddKeeps
<1>4. ASSUME NEW w \in Workers,
             \/ V!Insert(w) \/ V!InsertActivity(w) \/ V!Audit(w) \/ V!Commit(w)
             \/ V!Rollback(w) \/ V!FindOne(w) \/ V!ReadActivities(w) \/ V!Answer(w)
      PROVE  TalkInv'
  BY <1>4, InsertPostKeeps, InsertActivityKeeps, AuditPostKeeps, CommitPostKeeps,
     EndKeeps, FindOneKeeps, ReadActivitiesKeeps
<1> QED
  BY <1>1, <1>2, <1>3, <1>4 DEF V!Next

-----------------------------------------------------------------------------
\* The inductive invariant: what each request holds, and what the tables agree on.
THEOREM TalkInvariant == V!Spec => []TalkInv
BY TalkInitially, TalkKeeps, PTL DEF V!Spec

\* The tables and the requests keep to their types.
THEOREM TalkTypeCorrect == V!Spec => []V!TypeOK
<1>1. TalkInv => V!TypeOK
  BY DEF TalkInv, TalkTables, V!TypeOK
<1> QED
  BY <1>1, TalkInvariant, PTL

\* Timeline, posts and audit log agree under every interleaving of posts, readers,
\* rollbacks and the deletion of the ticket.
THEOREM TimelineAgrees == Spec => []TimelineIsWhole
<1>1. TalkInv => TimelineIsWhole
  BY DEF TalkInv, PostingShape, V!At, V!TimelineKeepsUp, V!TimelineIsWhole, TimelineIsWhole
<1> QED
  BY <1>1, Parts, TalkInvariant, PTL

-----------------------------------------------------------------------------
(***************************************************************************)
(* The impact of a ticket: for any number of readers, services and assets  *)
(* the report read in pieces lies between what was so and what is so.      *)
(***************************************************************************)

\* What is so may only become more: the tables of the report lose no row.
CmdbGrown == deps \subseteq deps' /\ links \subseteq links' /\ attached \subseteq attached'

\* What a reader holds at each statement of its read: each part of the report that
\* has been read holds what it held at the beginning, and holds only what is so; and
\* the assets that have been read are those of the links it began with.
AskingShape(r) ==
  /\ r \in C!Request
  /\ r.pc # "idle" =>
       /\ r.was.needs \subseteq C!Impact.needs
       /\ r.was.needed \subseteq C!Impact.needed
       /\ r.was.via \subseteq C!Impact.via
  /\ r.pc \in {"needed", "assets", "links", "answer"} =>
       r.was.needs \subseteq r.report.needs /\ r.report.needs \subseteq C!Impact.needs
  /\ r.pc \in {"assets", "links", "answer"} =>
       r.was.needed \subseteq r.report.needed /\ r.report.needed \subseteq C!Impact.needed
  /\ r.pc \in {"links", "answer"} =>
       r.seen \subseteq attached /\ \A l \in r.was.via : l[1] \in r.seen
  /\ r.pc = "answer" =>
       r.was.via \subseteq r.report.via /\ r.report.via \subseteq C!Impact.via

CmdbTypes ==
  /\ services \subseteq Services /\ assets \subseteq Assets
  /\ deps \subseteq services \X services
  /\ links \subseteq assets \X services
  /\ attached \subseteq assets

CmdbInv ==
  /\ CmdbTypes /\ asking \in [Readers -> C!Request]
  /\ \A w \in Readers : AskingShape(asking[w])

LEMMA CmdbInitially == ASSUME Impacted \in Services PROVE C!Init => CmdbInv
BY DEF C!Init, CmdbInv, CmdbTypes, AskingShape, C!Idle, C!Nothing, C!Request, C!Report

\* The report that a reader could be given grows with the tables.
LEMMA ImpactGrows ==
  ASSUME CmdbGrown
  PROVE  /\ C!Impact.needs \subseteq C!Impact'.needs
         /\ C!Impact.needed \subseteq C!Impact'.needed
         /\ C!Impact.via \subseteq C!Impact'.via
BY DEF CmdbGrown, C!Impact

\* The report as it is has the type of one.
LEMMA ImpactIsReport == CmdbTypes => C!Impact \in C!Report
BY DEF CmdbTypes, C!Impact, C!Report

LEMMA AskingKept ==
  ASSUME CmdbGrown, NEW r, AskingShape(r)
  PROVE  AskingShape(r)'
<1>1. attached \subseteq attached'
  BY DEF CmdbGrown
<1> HIDE DEF CmdbGrown
<1> QED
  BY <1>1, ImpactGrows DEF AskingShape, C!Request, C!Report

\* The tables grow and no reader moves.
LEMMA TablesGrow ==
  ASSUME CmdbInv, CmdbGrown, CmdbTypes', UNCHANGED asking
  PROVE  CmdbInv'
<1>1. ASSUME NEW w \in Readers PROVE AskingShape(asking[w])'
  BY <1>1, AskingKept DEF CmdbInv
<1> QED
  BY <1>1 DEF CmdbInv

\* A reader goes on while the tables rest.
LEMMA ReaderGoesOn ==
  ASSUME CmdbInv, NEW w \in Readers, NEW r, asking' = [asking EXCEPT ![w] = r],
         AskingShape(r), UNCHANGED C!tables
  PROVE  CmdbInv'
<1>1. CmdbGrown /\ CmdbTypes'
  BY DEF CmdbInv, CmdbTypes, CmdbGrown, C!tables
<1>2. \A v \in Readers : asking'[v] = IF v = w THEN r ELSE asking[v]
  BY DEF CmdbInv
<1>3. asking' \in [Readers -> C!Request]
  BY DEF CmdbInv, AskingShape
<1>4. ASSUME NEW v \in Readers PROVE AskingShape(asking[v])'
  <2>1. AskingShape(asking'[v])
    BY <1>2 DEF CmdbInv
  <2>2. ASSUME NEW q, AskingShape(q) PROVE \A p : p = q => AskingShape(p)'
    BY <1>1, <2>2, AskingKept
  <2>3. \A p : p = asking'[v] => AskingShape(p)'
    BY <2>1, <2>2
  <2> QED
    BY <2>3
<1> QED
  BY <1>1, <1>3, <1>4 DEF CmdbInv

LEMMA CmdbWriteKeeps ==
  ASSUME CmdbInv,
         \/ \E s \in Services : C!CreateService(s)
         \/ \E a \in Assets : C!CreateAsset(a) \/ C!AttachAsset(a)
         \/ \E s, t \in Services : C!CreateServiceDependency(s, t)
         \/ \E a \in Assets, s \in Services : C!LinkAssetToService(a, s)
  PROVE  CmdbInv'
<1>1. CmdbGrown /\ UNCHANGED asking
  BY DEF CmdbGrown, C!CreateService, C!CreateAsset, C!AttachAsset,
         C!CreateServiceDependency, C!LinkAssetToService
<1>2. CmdbTypes'
  BY DEF CmdbInv, CmdbTypes, C!CreateService, C!CreateAsset, C!AttachAsset,
         C!CreateServiceDependency, C!LinkAssetToService
<1> QED
  BY <1>1, <1>2, TablesGrow

LEMMA GetTicketImpactKeeps ==
  ASSUME CmdbInv, NEW w \in Readers, C!GetTicketImpact(w)
  PROVE  CmdbInv'
<1> DEFINE r == [C!Idle EXCEPT !.pc = "needs", !.was = C!Impact]
<1>1. AskingShape(r)
  BY ImpactIsReport DEF CmdbInv, AskingShape, C!Request, C!Idle, C!Nothing, C!Report
<1>2. asking' = [asking EXCEPT ![w] = r] /\ UNCHANGED C!tables
  BY DEF C!GetTicketImpact
<1> HIDE DEF r
<1> QED
  BY <1>1, <1>2, ReaderGoesOn

\* A statement reads one of the two kinds of dependencies.
LEMMA SelectKeeps ==
  ASSUME CmdbInv, NEW w \in Readers, NEW f \in {"needs", "needed"}, C!Select(w, f)
  PROVE  CmdbInv'
<1> DEFINE r == [asking[w] EXCEPT !.report[f] = C!Impact[f],
                                  !.pc = IF f = "needs" THEN "needed" ELSE "assets"]
<1>1. AskingShape(asking[w]) /\ asking[w].pc = f /\ C!Impact \in C!Report
  BY ImpactIsReport DEF CmdbInv, C!Select, C!At
<1>2. asking' = [asking EXCEPT ![w] = r] /\ UNCHANGED C!tables
  BY DEF CmdbInv, C!Select
<1>3. r \in C!Request
  BY <1>1 DEF AskingShape, C!Request, C!Report
<1>4. /\ r.pc = IF f = "needs" THEN "needed" ELSE "assets"
      /\ r.was = asking[w].was
      /\ f = "needs" => r.report.needs = C!Impact.needs
      /\ f = "needed" => /\ r.report.needed = C!Impact.needed
                         /\ r.report.needs = asking[w].report.needs
  BY <1>1 DEF AskingShape, C!Request, C!Report
<1> HIDE DEF r
<1>5. AskingShape(r)
  BY <1>1, <1>3, <1>4 DEF AskingShape
<1> QED
  BY <1>2, <1>5, ReaderGoesOn

\* The assets that are read are all that the links it began with lead to.
LEMMA SelectAssetsKeeps ==
  ASSUME CmdbInv, NEW w \in Readers, C!SelectAssets(w)
  PROVE  CmdbInv'
<1> DEFINE r == [asking[w] EXCEPT !.pc = "links", !.seen = attached]
<1>1. AskingShape(asking[w]) /\ asking[w].pc = "assets" /\ attached \subseteq Assets
  BY DEF CmdbInv, CmdbTypes, C!SelectAssets, C!At
<1>2. asking' = [asking EXCEPT ![w] = r] /\ UNCHANGED C!tables
  BY DEF CmdbInv, C!SelectAssets
<1>3. /\ r \in C!Request /\ r.pc = "links" /\ r.seen = attached
      /\ r.was = asking[w].was /\ r.report = asking[w].report
  BY <1>1 DEF AskingShape, C!Request
<1>4. \A l \in C!Impact.via : l[1] \in attached
  BY DEF C!Impact
<1> HIDE DEF r
<1>5. AskingShape(r)
  BY <1>1, <1>3, <1>4 DEF AskingShape
<1> QED
  BY <1>2, <1>5, ReaderGoesOn

LEMMA SelectLinksKeeps ==
  ASSUME CmdbInv, NEW w \in Readers, C!SelectLinks(w)
  PROVE  CmdbInv'
<1> DEFINE found == {l \in links : l[1] \in asking[w].seen}
           r == [asking[w] EXCEPT !.pc = "answer", !.report.via = found]
<1>1. AskingShape(asking[w]) /\ asking[w].pc = "links" /\ found \subseteq Assets \X Services
  BY DEF CmdbInv, CmdbTypes, C!SelectLinks, C!At
<1>2. asking' = [asking EXCEPT ![w] = r] /\ UNCHANGED C!tables
  BY DEF CmdbInv, C!SelectLinks
<1>3. /\ r \in C!Request /\ r.pc = "answer" /\ r.seen = asking[w].seen
      /\ r.was = asking[w].was /\ r.report.via = found
      /\ r.report.needs = asking[w].report.needs
      /\ r.report.needed = asking[w].report.needed
  BY <1>1 DEF AskingShape, C!Request, C!Report
<1>4. r.was.via \subseteq found /\ found \subseteq C!Impact.via
  BY <1>1, <1>3 DEF AskingShape, C!Impact
<1> HIDE DEF r, found
<1>5. AskingShape(r)
  BY <1>1, <1>3, <1>4 DEF AskingShape
<1> QED
  BY <1>2, <1>5, ReaderGoesOn

LEMMA AnswerKeeps ==
  ASSUME CmdbInv, NEW w \in Readers, C!Answer(w)
  PROVE  CmdbInv'
<1>1. AskingShape(C!Idle)
  BY DEF AskingShape, C!Request, C!Idle, C!Nothing, C!Report
<1> QED
  BY <1>1, ReaderGoesOn DEF C!Answer, C!Finish

LEMMA CmdbKeeps == CmdbInv /\ [C!Next]_(C!vars) => CmdbInv'
<1> SUFFICES ASSUME CmdbInv, [C!Next]_(C!vars) PROVE CmdbInv'
  OBVIOUS
<1>1. CASE UNCHANGED C!vars
  BY <1>1, TablesGrow DEF C!vars, C!tables, CmdbInv, CmdbTypes, CmdbGrown
<1>2. ASSUME NEW w \in Readers,
             \/ C!GetTicketImpact(w) \/ C!SelectAssets(w) \/ C!SelectLinks(w) \/ C!Answer(w)
             \/ \E f \in {"needs", "needed"} : C!Select(w, f)
      PROVE  CmdbInv'
  BY <1>2, GetTicketImpactKeeps, SelectKeeps, SelectAssetsKeeps, SelectLinksKeeps, AnswerKeeps
<1> QED
  BY <1>1, <1>2, CmdbWriteKeeps DEF C!Next

\* The inductive invariant: what each reader has read so far, and what is so.
THEOREM CmdbInvariant == ASSUME Impacted \in Services PROVE C!Spec => []CmdbInv
BY CmdbInitially, CmdbKeeps, PTL DEF C!Spec

\* The report of a ticket's impact, though read in four statements between which
\* anybody may add links, holds all that was so and nothing that is not so.
THEOREM ReportIsBetween == ASSUME Impacted \in Services PROVE Spec => []ImpactIsBetween
<1>1. CmdbInv => ImpactIsBetween
  BY ZenonT(60), SMTT(30) DEF CmdbInv, AskingShape, ImpactIsBetween, C!ImpactIsBetween, C!At, C!Within,
         C!Request, C!Report, C!Impact
<1> QED
  BY <1>1, Parts, CmdbInvariant, PTL

-----------------------------------------------------------------------------
(***************************************************************************)
(* Business calendars: for any number of creations, two calendars are the  *)
(* default only after two of them were under way at one time.              *)
(***************************************************************************)

\* A creation has cleared the way for one row.
OneRow == \A w \in Workers : creating[w] = {} \/ \E c \in Names : creating[w] = {c}

\* As long as creations come one by one: who creates a default has found the mark
\* taken from all rows, and there is one mark at most.
OneByOne ==
  /\ \A v, w \in B!Busy : v = w
  /\ B!Busy # {} => defaults = {}
  /\ \A c, d \in defaults : c = d

CalendarsInv == B!TypeOK /\ OneRow /\ (~shared => OneByOne)

LEMMA CalendarsInitially == B!Init => CalendarsInv
BY DEF B!Init, CalendarsInv, B!TypeOK, OneRow, OneByOne, B!Busy

LEMMA CreateCalendarKeeps ==
  ASSUME CalendarsInv, NEW c \in Names, B!CreateCalendar(c)
  PROVE  CalendarsInv'
BY DEF CalendarsInv, B!TypeOK, OneRow, OneByOne, B!Busy, B!CreateCalendar

LEMMA ClearDefaultsKeeps ==
  ASSUME CalendarsInv, NEW w \in Workers, NEW c \in Names, B!ClearDefaults(w, c)
  PROVE  CalendarsInv'
<1>1. \A v \in Workers : creating'[v] = IF v = w THEN {c} ELSE creating[v]
  BY DEF CalendarsInv, B!TypeOK, B!ClearDefaults
<1>2. B!TypeOK' /\ OneRow'
  BY <1>1 DEF CalendarsInv, B!TypeOK, OneRow, B!ClearDefaults
<1>3. ~shared' => B!Busy' = {w}
  <2>1. ~shared' => B!Busy = {}
    BY Zenon DEF B!ClearDefaults
  <2>2. B!Busy = {} => B!Busy' = {w}
    BY <1>1 DEF B!Busy
  <2> QED
    BY <2>1, <2>2
<1>4. defaults' = {}
  BY DEF B!ClearDefaults
<1> QED
  BY <1>2, <1>3, <1>4 DEF CalendarsInv, OneByOne

\* The mark it sets is the only one, for nobody has set another since it looked.
LEMMA InsertDefaultKeeps ==
  ASSUME CalendarsInv, NEW w \in Workers, B!InsertDefault(w)
  PROVE  CalendarsInv'
<1>1. \A v \in Workers : creating'[v] = IF v = w THEN {} ELSE creating[v]
  BY DEF CalendarsInv, B!TypeOK, B!InsertDefault
<1>2. B!TypeOK' /\ OneRow'
  BY <1>1 DEF CalendarsInv, B!TypeOK, OneRow, B!InsertDefault
<1>3. ASSUME ~shared PROVE OneByOne'
  <2>1. OneByOne /\ w \in B!Busy
    BY <1>3 DEF CalendarsInv, B!Busy, B!InsertDefault
  <2>2. B!Busy' = {}
    BY <1>1, <2>1 DEF OneByOne, B!Busy
  <2>3. defaults' = creating[w]
    BY <2>1 DEF OneByOne, B!InsertDefault
  <2>4. \A c, d \in creating[w] : c = d
    BY DEF CalendarsInv, OneRow
  <2> QED
    BY <2>2, <2>3, <2>4 DEF OneByOne
<1> QED
  BY <1>2, <1>3 DEF CalendarsInv, B!InsertDefault

LEMMA FailKeeps ==
  ASSUME CalendarsInv, NEW w \in Workers, B!Fail(w)
  PROVE  CalendarsInv'
<1>1. \A v \in Workers : creating'[v] = IF v = w THEN {} ELSE creating[v]
  BY DEF CalendarsInv, B!TypeOK, B!Fail
<1>2. B!TypeOK' /\ OneRow'
  BY <1>1 DEF CalendarsInv, B!TypeOK, OneRow, B!Fail
<1>3. B!Busy' \subseteq B!Busy
  BY <1>1 DEF B!Busy
<1> QED
  BY <1>2, <1>3 DEF CalendarsInv, OneByOne, B!Fail

LEMMA CalendarsKeep == CalendarsInv /\ [B!Next]_(B!vars) => CalendarsInv'
<1> SUFFICES ASSUME CalendarsInv, [B!Next]_(B!vars) PROVE CalendarsInv'
  OBVIOUS
<1>1. CASE UNCHANGED B!vars
  BY <1>1 DEF B!vars, CalendarsInv, B!TypeOK, OneRow, OneByOne, B!Busy
<1> QED
  BY <1>1, CreateCalendarKeeps, ClearDefaultsKeeps, InsertDefaultKeeps, FailKeeps DEF B!Next

\* The inductive invariant: what creations that come one by one find and leave.
THEOREM CalendarsInvariant == B!Spec => []CalendarsInv
BY CalendarsInitially, CalendarsKeep, PTL DEF B!Spec

\* However many creations there are and wherever they fail: there are two default
\* calendars only while the last two creations of one have overlapped.
THEOREM DefaultIsOne == Spec => []OneDefault
<1>1. CalendarsInv => OneDefault
  <2> SUFFICES ASSUME CalendarsInv, ~shared PROVE B!Cardinality(defaults) =< 1
    BY DEF OneDefault, B!OneDefault
  <2>1. B!Cardinality(defaults) = Cardinality(defaults)
    BY DEF B!Cardinality, Cardinality
  <2>2. defaults = {} \/ \E c : defaults = {c}
    BY DEF CalendarsInv, OneByOne
  <2>3. Cardinality({}) = 0 /\ \A c : Cardinality({c}) = 1
    BY FS_EmptySet, FS_Singleton
  <2>4. Cardinality(defaults) \in {0, 1}
    BY <2>2, <2>3
  <2> QED
    BY <2>1, <2>4
<1> QED
  BY <1>1, Parts, CalendarsInvariant, PTL

-----------------------------------------------------------------------------
(***************************************************************************)
(* Service catalog: for forms and payloads of any length, whose conditions *)
(* look at any other field, a stored payload is valid for who reads it if  *)
(* every field is shown by an earlier one.                                 *)
(***************************************************************************)

AnyField == [type : F!Types, required : BOOLEAN, showWhen : (Nat \ {0}) \cup {Nil},
             showValue : F!Texts]
AnyValue == F!Value \cup {Nil}

\* All that is used of the forms and payloads.
FormsAreForms == Forms \subseteq Seq(AnyField) \ {<<>>} /\ Payloads \subseteq Seq(AnyValue)

LEMMA Pairs ==
  ASSUME NEW A, NEW X \in SUBSET A, NEW Y \in SUBSET A
  PROVE  X \X Y \subseteq Seq(A) \ {<<>>}
<1> SUFFICES ASSUME NEW p \in X \X Y PROVE p \in Seq(A) /\ p # <<>>
  OBVIOUS
<1>1. PICK a \in X, b \in Y : p = <<a, b>>
  OBVIOUS
<1>2. <<a, b>> \in Seq(A) /\ <<a, b>> # <<>>
  OBVIOUS
<1> QED
  BY <1>1, <1>2

LEMMA FormsOfTwo == FormsAreForms
<1>1. Plain \subseteq AnyField
  BY DEF Plain, Field, AnyField, F!Types, F!Texts
<1>2. ASSUME NEW i \in {1, 2} PROVE ShownBy(i) \subseteq AnyField
  <2>1. /\ {"TEXT", "NUMBER"} \subseteq F!Types /\ {TRUE} \subseteq BOOLEAN
        /\ {i} \subseteq (Nat \ {0}) \cup {Nil}
        /\ {"", "0", "5", "true", "iso"} \subseteq F!Texts
    BY DEF F!Types, F!Texts
  <2>2. ASSUME NEW t \in {"TEXT", "NUMBER"}, NEW s \in {"", "0", "5", "true", "iso"}
        PROVE  [type |-> t, required |-> TRUE, showWhen |-> i, showValue |-> s] \in AnyField
    BY <2>1, <2>2 DEF AnyField
  <2>3. ASSUME NEW x \in ShownBy(i)
        PROVE  \E t \in {"TEXT", "NUMBER"}, s \in {"", "0", "5", "true", "iso"} :
                 x = [type |-> t, required |-> TRUE, showWhen |-> i, showValue |-> s]
    BY DEF ShownBy, Field
  <2> QED
    BY <2>2, <2>3
<1>3. Values \subseteq AnyValue
  BY DEF Values, T, AnyValue, F!Value, F!Texts
<1>4. Plain \X ShownBy(1) \subseteq Seq(AnyField) \ {<<>>}
  BY <1>1, <1>2, Pairs
<1>5. ShownBy(2) \X Plain \subseteq Seq(AnyField) \ {<<>>}
  BY <1>1, <1>2, Pairs
<1>6. Values \X Values \subseteq Seq(AnyValue)
  BY <1>3, Pairs
<1> QED
  BY <1>4, <1>5, <1>6 DEF FormsAreForms, Forms, Payloads

\* What a reader of the stored payload expects of field i.
FieldStored(form, i, data) ==
  F!IsFieldVisible(form[i], data) =>
    /\ form[i].required => ~F!Empty(data[i])
    /\ F!Empty(data[i]) \/ F!ValidateFieldValue(form[i].type, data[i]) = data[i]

Filling == [pc : {"idle", "fields", "create"}, form : Seq(AnyField), data : Seq(AnyValue),
            next : Nat, requiresApproval : BOOLEAN]

\* The fields before the next one are stored as they should be.
FillingShape(r) ==
  /\ r \in Filling
  /\ r.pc # "idle" =>
       /\ Len(r.data) = Len(r.form)
       /\ F!Forward(r.form) =>
            \A i \in DOMAIN r.form :
              r.pc = "create" \/ i < r.next => FieldStored(r.form, i, r.data)
  /\ r.pc = "fields" => r.next \in DOMAIN r.form

ItemShape == item = Nil \/
  item \in [fields : Seq(AnyField) \ {<<>>}, isActive : BOOLEAN, requiresApproval : BOOLEAN]

CatalogInv == ItemShape /\ FillingShape(filling)

LEMMA IsoIsValue == F!Text("iso") \in F!Value
BY DEF F!Text, F!Value, F!Texts

\* A value that has been rewritten is not rewritten again.
LEMMA NormalForm ==
  ASSUME NEW type \in F!Types, NEW v \in F!Value, ~F!Empty(v),
         NEW x, x = F!ValidateFieldValue(type, v), x # Nil
  PROVE  /\ x \in F!Value /\ ~F!Empty(x)
         /\ F!ValidateFieldValue(type, x) = x
<1>1. CASE type = "TEXT"
  BY <1>1 DEF F!ValidateFieldValue
<1>2. CASE type = "SELECT"
  BY <1>2 DEF F!ValidateFieldValue
<1>3. CASE type = "NUMBER"
  <2>1. /\ F!ValidateFieldValue(type, v) =
             IF v.kind = "number" THEN v
             ELSE IF v.text \in DOMAIN F!Numeral
             THEN [kind |-> "number", text |-> F!Numeral[v.text]] ELSE Nil
        /\ F!ValidateFieldValue(type, x) =
             IF x.kind = "number" THEN x
             ELSE IF x.text \in DOMAIN F!Numeral
             THEN [kind |-> "number", text |-> F!Numeral[x.text]] ELSE Nil
    BY <1>3 DEF F!ValidateFieldValue
  <2>2. \A t \in DOMAIN F!Numeral : F!Numeral[t] \in F!Texts
    BY DEF F!Numeral, F!Texts
  <2>3. x \in F!Value /\ x.kind = "number"
    BY <2>1, <2>2 DEF F!Value
  <2>4. F!Text("").kind = "string"
    BY DEF F!Text
  <2>5. x # F!Text("") /\ F!ValidateFieldValue(type, x) = x
    BY <2>1, <2>3, <2>4
  <2> QED
    BY <2>3, <2>5 DEF F!Empty
<1>4. CASE type = "BOOLEAN"
  <2>1. x = [v EXCEPT !.kind = "boolean"]
    BY <1>4 DEF F!ValidateFieldValue
  <2>2. x \in F!Value /\ x.kind = "boolean" /\ [x EXCEPT !.kind = "boolean"] = x
    BY <2>1 DEF F!Value
  <2> QED
    BY <1>4, <2>2 DEF F!ValidateFieldValue, F!Empty, F!Text
<1>5. CASE type = "DATE"
  <2>1. x = F!Text("iso")
    BY <1>5 DEF F!ValidateFieldValue
  <2>2. x \in F!Value /\ F!Text("").text = "" /\ x.text = "iso"
    BY <2>1, IsoIsValue DEF F!Text
  <2>3. F!ValidateFieldValue(type, x) = x
    BY <1>5, <2>1, <2>2 DEF F!ValidateFieldValue
  <2> QED
    BY <2>2, <2>3 DEF F!Empty
<1> QED
  BY <1>1, <1>2, <1>3, <1>4, <1>5 DEF F!Types

\* One field is validated: the others stay, and it is stored as it should be.
LEMMA FieldValidated ==
  ASSUME NEW form \in Seq(AnyField), F!Forward(form), NEW n \in DOMAIN form,
         NEW data \in [DOMAIN form -> AnyValue],
         NEW new, new = F!ValidateField(form, n, data), new # Nil
  PROVE  /\ \A i \in DOMAIN form : i # n => new[i] = data[i]
         /\ FieldStored(form, n, new)
<1> DEFINE type == form[n].type
           value == F!ValidateFieldValue(type, data[n])
<1>1. form[n] \in AnyField /\ type \in F!Types /\ n \in Nat
  <2>1. n \in 1..Len(form) /\ form[n] \in AnyField
    OBVIOUS
  <2> QED
    BY <2>1 DEF AnyField
<1>2. CASE ~F!IsFieldVisible(form[n], data) \/ F!Empty(data[n])
  BY <1>2 DEF F!ValidateField, FieldStored
<1>3. CASE F!IsFieldVisible(form[n], data) /\ ~F!Empty(data[n])
  <2>1. value # Nil /\ new = [data EXCEPT ![n] = value]
    BY <1>3 DEF F!ValidateField
  <2>2. data[n] \in F!Value
    BY <1>3 DEF AnyValue, F!Empty
  <2>3. ~F!Empty(value) /\ F!ValidateFieldValue(type, value) = value
    BY <1>1, <1>3, <2>1, <2>2, NormalForm
  <2>4. new[n] = value /\ \A i \in DOMAIN form : i # n => new[i] = data[i]
    BY <2>1
  <2> HIDE DEF value
  <2> QED
    BY <2>3, <2>4 DEF FieldStored
<1> QED
  BY <1>2, <1>3

\* Also without order among the fields the payload keeps its type.
LEMMA PayloadTyped ==
  ASSUME NEW form \in Seq(AnyField), NEW n \in DOMAIN form,
         NEW data \in [DOMAIN form -> AnyValue],
         NEW new, new = F!ValidateField(form, n, data), new # Nil
  PROVE  new \in [DOMAIN form -> AnyValue]
<1> DEFINE value == F!ValidateFieldValue(form[n].type, data[n])
<1>1. form[n] \in AnyField /\ form[n].type \in F!Types
  <2>1. n \in 1..Len(form) /\ form[n] \in AnyField
    OBVIOUS
  <2> QED
    BY <2>1 DEF AnyField
<1>2. CASE new = data
  BY <1>2
<1>3. CASE new # data
  <2>1. ~F!Empty(data[n]) /\ value # Nil /\ new = [data EXCEPT ![n] = value]
    BY <1>3 DEF F!ValidateField
  <2>2. data[n] \in F!Value
    BY <2>1 DEF AnyValue, F!Empty
  <2>3. value \in AnyValue
    BY <1>1, <2>1, <2>2, NormalForm DEF AnyValue
  <2> HIDE DEF value
  <2> QED
    BY <2>1, <2>3
<1> QED
  BY <1>2, <1>3

\* Whether a field is shown does not change when a later one is rewritten.
LEMMA ShownAsBefore ==
  ASSUME NEW form \in Seq(AnyField), F!Forward(form), NEW n \in Nat, NEW i \in DOMAIN form,
         i < n, NEW data, NEW new, \A j \in DOMAIN form : j # n => new[j] = data[j],
         FieldStored(form, i, data)
  PROVE  FieldStored(form, i, new)
<1>1. i \in Nat /\ form[i] \in AnyField /\ new[i] = data[i]
  OBVIOUS
<1>2. form[i].showWhen # Nil =>
        /\ form[i].showWhen \in Nat \ {0} /\ form[i].showWhen < i
        /\ form[i].showWhen \in DOMAIN form /\ form[i].showWhen # n
  BY <1>1 DEF AnyField, F!Forward
<1>3. F!IsFieldVisible(form[i], new) <=> F!IsFieldVisible(form[i], data)
  BY <1>2 DEF F!IsFieldVisible
<1> QED
  BY <1>1, <1>3 DEF FieldStored

LEMMA CatalogInitially == F!Init => CatalogInv
BY DEF F!Init, CatalogInv, ItemShape, FillingShape, Filling, F!Idle

\* The administrators write the item, never its fields once they are there.
LEMMA ItemKeeps ==
  ASSUME FormsAreForms, CatalogInv,
         \/ \E form \in Forms, requiresApproval \in BOOLEAN : F!CreateItem(form, requiresApproval)
         \/ \E isActive, requiresApproval \in BOOLEAN : F!UpdateItem(isActive, requiresApproval)
  PROVE  CatalogInv'
<1>1. filling' = filling
  BY DEF F!CreateItem, F!UpdateItem
<1>2. FillingShape(filling)'
  BY <1>1 DEF CatalogInv, FillingShape
<1>3. CASE \E form \in Forms, requiresApproval \in BOOLEAN :
             F!CreateItem(form, requiresApproval)
  BY <1>2, <1>3 DEF CatalogInv, FormsAreForms, ItemShape, F!CreateItem
<1>4. CASE \E isActive, requiresApproval \in BOOLEAN :
             F!UpdateItem(isActive, requiresApproval)
  BY <1>2, <1>4 DEF CatalogInv, ItemShape, F!UpdateItem
<1> QED
  BY <1>3, <1>4

LEMMA ResolveKeeps ==
  ASSUME FormsAreForms, CatalogInv, NEW payload \in Payloads, NEW isRequester \in BOOLEAN,
         F!ResolveCatalogForTicketCreation(payload, isRequester)
  PROVE  CatalogInv'
<1>1. /\ item # Nil /\ Len(payload) = Len(item.fields) /\ item' = item
      /\ filling' = [pc |-> "fields", form |-> item.fields, data |-> payload, next |-> 1,
                     requiresApproval |-> item.requiresApproval]
  BY DEF F!ResolveCatalogForTicketCreation
<1>2. /\ item.fields \in Seq(AnyField) /\ payload \in Seq(AnyValue)
      /\ item.requiresApproval \in BOOLEAN /\ 1 \in DOMAIN item.fields
  BY <1>1 DEF CatalogInv, ItemShape, FormsAreForms
<1>3. \A i \in DOMAIN item.fields : ~(i < 1)
  BY <1>2
<1>4. FillingShape(filling')
  BY <1>1, <1>2, <1>3 DEF FillingShape, Filling
<1> QED
  BY <1>1, <1>4 DEF CatalogInv, ItemShape, FillingShape

LEMMA ValidateCatalogPayloadKeeps ==
  ASSUME CatalogInv, F!ValidateCatalogPayload
  PROVE  CatalogInv'
<1> DEFINE form == filling.form
           n == filling.next
           data == filling.data
           new == F!ValidateField(form, n, data)
<1>1. /\ filling.pc = "fields" /\ form \in Seq(AnyField) /\ n \in DOMAIN form
      /\ data \in Seq(AnyValue) /\ Len(data) = Len(form) /\ filling \in Filling
      /\ item' = item
  BY DEF CatalogInv, FillingShape, Filling, F!ValidateCatalogPayload
<1>2. CASE new = Nil
  <2>1. filling' = F!Idle
    BY <1>2 DEF F!ValidateCatalogPayload
  <2>2. FillingShape(filling')
    BY <2>1 DEF FillingShape, Filling, F!Idle
  <2> QED
    BY <1>1, <2>2 DEF CatalogInv, ItemShape, FillingShape
<1>3. CASE new # Nil
  <2> DEFINE pc == IF n = Len(form) THEN "create" ELSE "fields"
  <2>1. filling' = [filling EXCEPT !.data = new, !.next = n + 1, !.pc = pc]
    BY <1>3 DEF F!ValidateCatalogPayload
  <2>2. data \in [DOMAIN form -> AnyValue]
    BY <1>1
  <2>3. new \in [DOMAIN form -> AnyValue]
    BY <1>1, <1>3, <2>2, PayloadTyped
  <2>4. new \in Seq(AnyValue) /\ Len(new) = Len(form)
    <3>1. DOMAIN form = 1..Len(form) /\ Len(form) \in Nat
      BY <1>1
    <3> HIDE DEF form, new
    <3> QED
      BY <2>3, <3>1, SeqDef
  <2>5. ASSUME F!Forward(form), NEW i \in DOMAIN form, pc = "create" \/ i < n + 1
        PROVE  FieldStored(form, i, new)
    <3>1. /\ \A j \in DOMAIN form : j # n => new[j] = data[j]
          /\ FieldStored(form, n, new)
      BY <1>1, <1>3, <2>2, <2>5, FieldValidated
    <3>2. CASE i = n
      BY <3>1, <3>2
    <3>3. CASE i # n
      <4>1. i < n /\ n \in Nat
        BY <1>1, <2>5, <3>3
      <4>2. FieldStored(form, i, data)
        BY <1>1, <2>5, <4>1 DEF CatalogInv, FillingShape
      <4> HIDE DEF form, n, data, new
      <4> QED
        BY <1>1, <2>5, <3>1, <4>1, <4>2, ShownAsBefore
    <3> QED
      BY <3>2, <3>3
  <2>6. /\ filling' \in Filling /\ filling'.pc = pc /\ filling'.form = form
        /\ filling'.data = new /\ filling'.next = n + 1
    <3>1. n + 1 \in Nat /\ pc \in {"idle", "fields", "create"}
      BY <1>1
    <3>2. form = filling.form
      OBVIOUS
    <3> HIDE DEF form, n, pc, new
    <3> QED
      BY <1>1, <2>1, <2>4, <3>1, <3>2 DEF Filling
  <2>7. n # Len(form) => n + 1 \in DOMAIN form
    BY <1>1
  <2> HIDE DEF form, n, data, new
  <2>8. FillingShape(filling')
    BY <2>4, <2>5, <2>6, <2>7 DEF FillingShape
  <2> QED
    BY <1>1, <2>8 DEF CatalogInv, ItemShape, FillingShape
<1> QED
  BY <1>2, <1>3

LEMMA CatalogKeeps == CatalogInv /\ [F!Next]_(F!vars) => CatalogInv'
<1> SUFFICES ASSUME CatalogInv, [F!Next]_(F!vars) PROVE CatalogInv'
  OBVIOUS
<1>1. CASE UNCHANGED F!vars
  BY <1>1 DEF F!vars, CatalogInv, ItemShape, FillingShape
<1>2. ASSUME NEW payload \in Payloads, NEW isRequester \in BOOLEAN,
             F!ResolveCatalogForTicketCreation(payload, isRequester)
      PROVE  CatalogInv'
  BY <1>2, FormsOfTwo, ResolveKeeps
<1>3. CASE F!Create
  <2>1. FillingShape(F!Idle)
    BY DEF FillingShape, Filling, F!Idle
  <2> QED
    BY <1>3, <2>1 DEF F!Create, CatalogInv, ItemShape, FillingShape
<1> QED
  BY <1>1, <1>2, <1>3, FormsOfTwo, ItemKeeps, ValidateCatalogPayloadKeeps DEF F!Next

\* The inductive invariant: the fields that have been validated.
THEOREM CatalogInvariant == F!Spec => []CatalogInv
BY CatalogInitially, CatalogKeeps, PTL DEF F!Spec

\* A form that is stored with a ticket is what its readers expect, though it was
\* rewritten while it was validated. (Of the forms only FormsAreForms is used.)
THEOREM FormsAreValid == Spec => []StoredIsValid
<1>1. CatalogInv => StoredIsValid
  BY DEF CatalogInv, FillingShape, FieldStored, StoredIsValid, F!StoredIsValid
<1> QED
  BY <1>1, Parts, CatalogInvariant, PTL

-----------------------------------------------------------------------------
(***************************************************************************)
(* Workflow rules: for any number of rules, and while others are created,  *)
(* each column of the ticket is what the rules that match the ticket as    *)
(* written ask of it, one after the other as if the others were not there. *)
(***************************************************************************)

\* A set of numbers has a least one, and one that is at least all is the greatest.
LEMMA LeastOfSome ==
  ASSUME NEW S \in SUBSET Nat, S # {}
  PROVE  R!Min(S) \in S /\ \A i \in S : R!Min(S) =< i
<1> DEFINE Less == {p \in Nat \X Nat : p[1] < p[2]}
<1>1. IsWellFoundedOn(Less, Nat)
  BY NatLessThanWellFounded DEF OpToRel
<1>2. \A i, k \in Nat : i < k => <<i, k>> \in Less
  OBVIOUS
<1> HIDE DEF Less
<1>3. PICK m \in S : \A i \in S : ~(<<i, m>> \in Less)
  BY <1>1, WFMin
<1>4. ASSUME NEW i \in S PROVE m =< i
  <2>1. i \in Nat /\ m \in Nat
    OBVIOUS
  <2>2. ~(i < m)
    BY <1>2, <1>3, <2>1
  <2> QED
    BY <2>1, <2>2
<1> QED
  BY <1>4 DEF R!Min

LEMMA GreatestOfSome ==
  ASSUME NEW S \in SUBSET Nat, NEW m \in S, \A i \in S : i =< m
  PROVE  R!Max(S) = m
<1>1. \A i \in S : m >= i
  OBVIOUS
<1>2. R!Max(S) \in S /\ \A i \in S : R!Max(S) >= i
  BY <1>1 DEF R!Max
<1>3. R!Max(S) \in Nat /\ R!Max(S) >= m /\ m >= R!Max(S)
  BY <1>1, <1>2
<1> QED
  BY <1>3

\* The last of the rules in set that asks for something has its value; if none does,
\* it is what ticket t has.
LastAsked(rs, t, set, action, column, value) ==
  \/ (\A i \in set : R!Skips(rs[i][action], column, t)) /\ value = t[column]
  \/ \E m \in set : /\ ~R!Skips(rs[m][action], column, t) /\ value = rs[m][action]
                    /\ \A i \in set : i > m => R!Skips(rs[i][action], column, t)

\* The rules that have been applied to the columns.
SoFar(r) ==
  (r.matched \ r.left) \cup IF r.pc \in {"notify", "audit"} THEN {R!Min(r.left)} ELSE {}

AsAsked(r) ==
  /\ LastAsked(rules, r.original, SoFar(r), "setPriority", "priority", r.row.priority)
  /\ LastAsked(rules, r.original, SoFar(r), "assign", "assignee", r.row.assignee)

\* What the request holds at each point: the rules that are left come after those
\* that are done, which are audited, and the columns are as the latter ask.
ApplyingShape(r) ==
  /\ r \in R!Request
  /\ r.pc = "match" => r.row \in R!Ticket /\ r.told = {}
  /\ r.pc \in {"apply", "notify", "audit", "commit"} =>
       /\ r.row \in R!Ticket /\ r.original \in R!Ticket
       /\ r.left \subseteq r.matched /\ r.matched \subseteq DOMAIN rules
       /\ \A i \in r.matched \ r.left, k \in r.left : i < k
       /\ r.matched \ r.left \subseteq logged
       /\ r.told \subseteq {r.original.assignee}
       /\ AsAsked(r)
       /\ r.pc = "commit" <=> r.left = {}

RulesInv == R!TypeOK /\ ApplyingShape(applying) /\ applied \subseteq logged

LEMMA RulesInitially == ASSUME MaxRules \in Nat PROVE R!Init => RulesInv
BY DEF R!Init, RulesInv, R!TypeOK, ApplyingShape, R!Idle, R!Request

\* One more rule, after all others, is applied.
LEMMA OneMoreAsks ==
  ASSUME NEW rs, NEW t, NEW set \in SUBSET Nat, NEW action, NEW column, NEW value,
         LastAsked(rs, t, set, action, column, value),
         NEW k \in Nat, \A i \in set : i < k
  PROVE  LastAsked(rs, t, set \cup {k}, action, column,
                   IF R!Skips(rs[k][action], column, t) THEN value ELSE rs[k][action])
<1>1. CASE R!Skips(rs[k][action], column, t)
  BY <1>1 DEF LastAsked
<1>2. CASE ~R!Skips(rs[k][action], column, t)
  <2>1. \A i \in set \cup {k} : ~(i > k)
    OBVIOUS
  <2> QED
    BY <1>2, <2>1 DEF LastAsked
<1> QED
  BY <1>1, <1>2

\* Rules that are created later are none of those that were matched.
LEMMA CreateWorkflowRuleKeeps ==
  ASSUME MaxRules \in Nat, RulesInv, NEW r \in R!Rule, R!CreateWorkflowRule(r)
  PROVE  RulesInv'
<1>1. /\ rules \in Seq(R!Rule) /\ rules' = Append(rules, r) /\ Len(rules) < MaxRules
      /\ UNCHANGED <<applied, logged, applying>>
  BY DEF RulesInv, R!TypeOK, R!CreateWorkflowRule
<1>2. /\ rules' \in Seq(R!Rule) /\ Len(rules') = Len(rules) + 1
      /\ DOMAIN rules \subseteq DOMAIN rules'
      /\ \A i \in DOMAIN rules : rules'[i] = rules[i]
  BY <1>1
<1>3. R!TypeOK'
  BY <1>1, <1>2 DEF RulesInv, R!TypeOK
<1>4. ASSUME applying.pc \in {"apply", "notify", "audit", "commit"}
      PROVE  AsAsked(applying)'
  <2>1. SoFar(applying) \subseteq DOMAIN rules
    <3>1. /\ applying.matched \subseteq DOMAIN rules /\ applying.left \subseteq applying.matched
          /\ applying.pc \in {"notify", "audit"} => applying.left # {}
      BY <1>4 DEF RulesInv, ApplyingShape
    <3>2. applying.left \in SUBSET Nat
      BY <1>1, <3>1
    <3>3. applying.left # {} => R!Min(applying.left) \in applying.left
      BY <3>2, LeastOfSome
    <3> QED
      BY <3>1, <3>3 DEF SoFar
  <2>2. SoFar(applying)' = SoFar(applying)
    BY <1>1 DEF SoFar
  <2>3. AsAsked(applying)
    BY <1>4 DEF RulesInv, ApplyingShape
  <2> HIDE DEF SoFar
  <2> QED
    BY <1>1, <1>2, <2>1, <2>2, <2>3 DEF AsAsked, LastAsked
<1>5. ApplyingShape(applying)'
  BY <1>1, <1>2, <1>4 DEF RulesInv, ApplyingShape
<1> QED
  BY <1>1, <1>3, <1>5 DEF RulesInv

\* The tables rest, or the log has one more of the rules, and the request goes on.
LEMMA ApplyingGoesOn ==
  ASSUME RulesInv, NEW r, applying' = r, ApplyingShape(r)', UNCHANGED rules,
         applied' \subseteq logged', logged' \subseteq DOMAIN rules
  PROVE  RulesInv'
BY DEF RulesInv, R!TypeOK, ApplyingShape

LEMMA WriteKeeps ==
  ASSUME RulesInv, NEW t \in R!Ticket, R!Write(t)
  PROVE  RulesInv'
<1> DEFINE r == [R!Idle EXCEPT !.pc = "match", !.row = t]
<1>1. \A f : f = r => ApplyingShape(f)'
  BY DEF ApplyingShape, R!Request, R!Idle
<1>2. applying' = r /\ UNCHANGED <<rules, applied, logged>>
  BY DEF R!Write
<1> HIDE DEF r
<1> QED
  BY <1>1, <1>2, ApplyingGoesOn DEF RulesInv, R!TypeOK

LEMMA MatchKeeps ==
  ASSUME MaxRules \in Nat, RulesInv, R!Match
  PROVE  RulesInv'
<1> DEFINE found == {i \in DOMAIN rules : R!Matches(rules[i], applying.row)}
           r == [applying EXCEPT !.pc = IF found = {} THEN "commit" ELSE "apply",
                   !.original = applying.row, !.matched = found, !.left = found]
<1>1. /\ applying \in R!Request /\ applying.row \in R!Ticket /\ applying.told = {}
      /\ found \subseteq DOMAIN rules
  BY DEF RulesInv, ApplyingShape, R!Match
<1>2. DOMAIN rules \subseteq R!Number
  BY DEF RulesInv, R!TypeOK, R!Number
<1>3. applying' = r /\ UNCHANGED <<rules, applied, logged>>
  BY DEF R!Match
<1>4. /\ r \in R!Request /\ r.pc = (IF found = {} THEN "commit" ELSE "apply")
      /\ r.row = applying.row /\ r.original = applying.row
      /\ r.matched = found /\ r.left = found /\ r.told = {}
  BY <1>1, <1>2 DEF R!Request
<1> HIDE DEF r, found
<1>5. SoFar(r) = {}
  BY <1>4 DEF SoFar
<1>6. AsAsked(r)
  BY <1>4, <1>5 DEF AsAsked, LastAsked
<1>7. \A f : f = r => ApplyingShape(f)'
  BY <1>1, <1>3, <1>4, <1>6 DEF ApplyingShape, AsAsked, SoFar
<1> QED
  BY <1>3, <1>7, ApplyingGoesOn DEF RulesInv, R!TypeOK

\* The rule that is applied is the first of those that are left.
LEMMA CurrentRule ==
  ASSUME RulesInv, applying.pc \in {"apply", "notify", "audit"}
  PROVE  /\ R!Min(applying.left) \in applying.left
         /\ \A i \in applying.left : R!Min(applying.left) =< i
         /\ R!Min(applying.left) \in DOMAIN rules /\ DOMAIN rules \subseteq Nat
         /\ R!Current = rules[R!Min(applying.left)] /\ R!Current \in R!Rule
<1>1. rules \in Seq(R!Rule) /\ DOMAIN rules = 1..Len(rules)
  BY DEF RulesInv, R!TypeOK
<1>2. applying.left # {} /\ applying.left \subseteq DOMAIN rules
  BY DEF RulesInv, ApplyingShape
<1>3. DOMAIN rules \subseteq Nat
  BY <1>1
<1>4. /\ R!Min(applying.left) \in applying.left
      /\ \A i \in applying.left : R!Min(applying.left) =< i
  BY <1>2, <1>3, LeastOfSome
<1>5. rules[R!Min(applying.left)] \in R!Rule
  BY <1>1, <1>2, <1>4
<1> QED
  BY <1>2, <1>3, <1>4, <1>5 DEF R!Current

LEMMA ApplyKeeps ==
  ASSUME RulesInv, R!Apply
  PROVE  RulesInv'
<1> DEFINE k == R!Min(applying.left)
           done == applying.matched \ applying.left
           t == applying.original
           row == R!Applied(R!Current, applying.row, t)
           r == [applying EXCEPT !.pc = "notify", !.row = row]
<1>1. /\ applying.pc = "apply" /\ applying \in R!Request /\ ApplyingShape(applying)
      /\ applying.row \in R!Ticket /\ t \in R!Ticket /\ AsAsked(applying)
  BY DEF RulesInv, ApplyingShape, R!Apply
<1>2. /\ k \in applying.left /\ k \in Nat /\ R!Current = rules[k] /\ rules[k] \in R!Rule
      /\ done \in SUBSET Nat /\ \A i \in done : i < k
  BY <1>1, CurrentRule DEF ApplyingShape
<1>3. applying' = r /\ UNCHANGED <<rules, applied, logged>>
  BY DEF R!Apply
<1>4. /\ row.priority = IF R!Skips(rules[k]["setPriority"], "priority", t)
                        THEN applying.row.priority ELSE rules[k]["setPriority"]
      /\ row.assignee = IF R!Skips(rules[k]["assign"], "assignee", t)
                        THEN applying.row.assignee ELSE rules[k]["assign"]
      /\ row \in R!Ticket
  BY <1>1, <1>2 DEF R!Applied, R!Skips, R!Rule, R!Ticket
<1>5. SoFar(applying) = done
  BY <1>1 DEF SoFar
<1>6. /\ LastAsked(rules, t, done \cup {k}, "setPriority", "priority", row.priority)
      /\ LastAsked(rules, t, done \cup {k}, "assign", "assignee", row.assignee)
  <2>1. /\ LastAsked(rules, t, done, "setPriority", "priority", applying.row.priority)
        /\ LastAsked(rules, t, done, "assign", "assignee", applying.row.assignee)
    BY <1>1, <1>5 DEF AsAsked
  <2> HIDE DEF k, done, t, row
  <2> QED
    BY <1>2, <1>4, <2>1, OneMoreAsks
<1>7. /\ r \in R!Request /\ r.pc = "notify" /\ r.row = row /\ r.original = t
      /\ r.matched = applying.matched /\ r.left = applying.left /\ r.told = applying.told
  <2>1. row \in R!Ticket \cup {Nil}
    BY <1>4
  <2> HIDE DEF row
  <2> QED
    BY <1>1, <2>1 DEF R!Request
<1>8. SoFar(r) = done \cup {k}
  BY <1>7 DEF SoFar
<1> HIDE DEF r, row
<1>9. AsAsked(r)
  BY <1>6, <1>7, <1>8 DEF AsAsked
<1>10. \A f : f = r => ApplyingShape(f)'
  BY <1>1, <1>2, <1>3, <1>4, <1>7, <1>9 DEF ApplyingShape, AsAsked, SoFar
<1> QED
  BY <1>3, <1>10, ApplyingGoesOn DEF RulesInv, R!TypeOK

LEMMA NotifyKeeps ==
  ASSUME RulesInv, R!Notify
  PROVE  RulesInv'
<1>1. PICK heard \in IF R!Current.notifyAssignee
                     THEN SUBSET ({applying.original.assignee} \ {Nil}) ELSE {{}} :
        applying' = [applying EXCEPT !.pc = "audit", !.told = applying.told \cup heard]
  BY DEF R!Notify
<1> DEFINE r == [applying EXCEPT !.pc = "audit", !.told = applying.told \cup heard]
<1>2. /\ applying.pc = "notify" /\ applying \in R!Request /\ ApplyingShape(applying)
      /\ UNCHANGED <<rules, applied, logged>>
  BY DEF RulesInv, ApplyingShape, R!Notify
<1>3. heard \subseteq {applying.original.assignee} /\ heard \subseteq Fellows
  BY <1>2 DEF ApplyingShape, R!Ticket
<1>4. /\ r \in R!Request /\ r.pc = "audit" /\ r.row = applying.row
      /\ r.original = applying.original /\ r.matched = applying.matched
      /\ r.left = applying.left /\ r.told = applying.told \cup heard
  BY <1>2, <1>3 DEF R!Request
<1> HIDE DEF r
<1>5. SoFar(r) = SoFar(applying)
  BY <1>2, <1>4 DEF SoFar
<1>6. AsAsked(r)
  BY <1>2, <1>4, <1>5 DEF AsAsked, ApplyingShape
<1>7. \A f : f = r => ApplyingShape(f)'
  BY <1>2, <1>3, <1>4, <1>6 DEF ApplyingShape, AsAsked, SoFar
<1> QED
  BY <1>1, <1>2, <1>7, ApplyingGoesOn DEF RulesInv, R!TypeOK, r

LEMMA AuditRuleKeeps ==
  ASSUME RulesInv, R!Audit
  PROVE  RulesInv'
<1> DEFINE k == R!Min(applying.left)
           left == applying.left \ {k}
           pc == IF left = {} THEN "commit" ELSE "apply"
           r == [applying EXCEPT !.left = left, !.pc = pc]
<1>1. /\ applying.pc = "audit" /\ applying \in R!Request /\ ApplyingShape(applying)
      /\ UNCHANGED <<rules, applied>> /\ logged' = logged \cup {k}
  BY DEF RulesInv, ApplyingShape, R!Audit
<1>2. /\ k \in applying.left /\ \A i \in applying.left : k =< i
      /\ k \in DOMAIN rules /\ DOMAIN rules \subseteq Nat
  BY <1>1, CurrentRule
<1>3. applying' = r
  BY DEF R!Audit, R!NextRule, R!Done
<1>4. /\ r \in R!Request /\ r.pc = pc /\ r.row = applying.row
      /\ r.original = applying.original /\ r.matched = applying.matched
      /\ r.left = left /\ r.told = applying.told
  BY <1>1 DEF R!Request
<1> HIDE DEF r, k
<1>5. r.matched \ r.left = (applying.matched \ applying.left) \cup {k}
  BY <1>1, <1>2, <1>4 DEF ApplyingShape
<1>6. SoFar(r) = SoFar(applying)
  BY <1>1, <1>4, <1>5 DEF SoFar, k
<1>7. AsAsked(r)
  BY <1>1, <1>4, <1>6 DEF AsAsked, ApplyingShape
<1>8. \A i \in r.matched \ r.left, l \in r.left : i < l
  <2> SUFFICES ASSUME NEW i \in r.matched \ r.left, NEW l \in r.left PROVE i < l
    OBVIOUS
  <2>1. l \in applying.left /\ l # k /\ k =< l /\ k \in Nat /\ l \in Nat
    BY <1>1, <1>2, <1>4 DEF ApplyingShape
  <2>2. CASE i = k
    BY <2>1, <2>2
  <2>3. CASE i # k
    BY <1>1, <1>5, <2>1, <2>3 DEF ApplyingShape
  <2> QED
    BY <2>2, <2>3
<1>9. \A f : f = r => ApplyingShape(f)'
  BY <1>1, <1>2, <1>4, <1>5, <1>7, <1>8 DEF ApplyingShape, AsAsked, SoFar
<1> QED
  BY <1>1, <1>2, <1>3, <1>9, ApplyingGoesOn DEF RulesInv, R!TypeOK

\* All the rules that are told to have been applied have been audited.
LEMMA CommitRulesKeeps ==
  ASSUME RulesInv, R!Commit \/ R!Rollback
  PROVE  RulesInv'
<1>1. /\ applying' = R!Idle /\ UNCHANGED <<rules, logged>>
      /\ applied' \subseteq applied \cup IF R!Commit THEN applying.matched ELSE {}
  BY DEF R!Commit, R!Rollback
<1>2. R!Commit => applying.matched \subseteq logged
  BY DEF RulesInv, ApplyingShape, R!Commit
<1>3. \A f : f = R!Idle => ApplyingShape(f)'
  BY DEF ApplyingShape, R!Request, R!Idle
<1> QED
  BY <1>1, <1>2, <1>3, ApplyingGoesOn DEF RulesInv, R!TypeOK

LEMMA RulesKeep == ASSUME MaxRules \in Nat PROVE RulesInv /\ [R!Next]_(R!vars) => RulesInv'
<1> SUFFICES ASSUME RulesInv, [R!Next]_(R!vars) PROVE RulesInv'
  OBVIOUS
<1>1. CASE UNCHANGED R!vars
  BY <1>1 DEF R!vars, RulesInv, R!TypeOK, ApplyingShape, AsAsked, SoFar
<1> QED
  BY <1>1, CreateWorkflowRuleKeeps, WriteKeeps, MatchKeeps, ApplyKeeps, NotifyKeeps,
     AuditRuleKeeps, CommitRulesKeeps DEF R!Next

\* The inductive invariant: what the rules that are done have made of the columns.
THEOREM RulesInvariant == ASSUME MaxRules \in Nat PROVE R!Spec => []RulesInv
BY RulesInitially, RulesKeep, PTL DEF R!Spec

\* What was last asked of a column is what the outcome is defined to be.
LEMMA LastIsOutcome ==
  ASSUME applying.matched \in SUBSET Nat, NEW action, NEW column, NEW value,
         LastAsked(rules, applying.original, applying.matched, action, column, value)
  PROVE  value = R!Outcome(action, column)
<1> DEFINE asking_ == {i \in applying.matched :
                        ~R!Skips(rules[i][action], column, applying.original)}
<1>1. CASE \A i \in applying.matched : R!Skips(rules[i][action], column, applying.original)
  BY <1>1 DEF LastAsked, R!Outcome
<1>2. ASSUME NEW m \in applying.matched,
             ~R!Skips(rules[m][action], column, applying.original),
             value = rules[m][action],
             \A i \in applying.matched :
               i > m => R!Skips(rules[i][action], column, applying.original)
      PROVE  value = R!Outcome(action, column)
  <2>1. m \in asking_ /\ asking_ \in SUBSET Nat /\ \A i \in asking_ : i =< m
    BY <1>2
  <2>2. R!Max(asking_) = m
    BY <2>1, GreatestOfSome
  <2> QED
    BY <1>2, <2>1, <2>2 DEF R!Outcome
<1> QED
  BY <1>1, <1>2 DEF LastAsked

\* Whatever rules there are and are added: a ticket is committed as the rules that
\* match it ask, one by one; who is told had it before; what is told is audited.
THEOREM RulesAreKept == ASSUME MaxRules \in Nat PROVE Spec => []RulesHold
<1>1. RulesInv => RulesHold
  <2> SUFFICES ASSUME RulesInv PROVE RulesHold
    OBVIOUS
  <2>1. R!AppliedAreAudited
    BY DEF RulesInv, R!AppliedAreAudited
  <2>2. R!OnlyTheOldAssigneeIsTold
    BY DEF RulesInv, ApplyingShape, R!OnlyTheOldAssigneeIsTold
  <2>3. ASSUME applying.pc = "commit"
        PROVE  /\ applying.row.priority = R!Outcome("setPriority", "priority")
               /\ applying.row.assignee = R!Outcome("assign", "assignee")
    <3>1. SoFar(applying) = applying.matched /\ AsAsked(applying)
      BY <2>3 DEF RulesInv, ApplyingShape, SoFar
    <3>2. applying.matched \in SUBSET Nat
      BY <2>3 DEF RulesInv, ApplyingShape, R!TypeOK
    <3> QED
      BY <3>1, <3>2, LastIsOutcome DEF AsAsked
  <2>4. R!RulesActOnTheSnapshot
    BY <2>3 DEF R!RulesActOnTheSnapshot
  <2> QED
    BY <2>1, <2>2, <2>4 DEF RulesHold, R!RulesHold
<1> QED
  BY <1>1, Parts, RulesInvariant, PTL

-----------------------------------------------------------------------------
(***************************************************************************)
(* Lists: a walk from page to page shows what it should, for any number of *)
(* rows, pages of any size and any of the ways to read them.               *)
(***************************************************************************)

ListBounds == PageSize \in Nat \ {0} /\ MaxRows \in Nat

RowsInv ==
  /\ owner \in Seq(Users) /\ Len(owner) =< MaxRows
  /\ live \subseteq 1..Len(owner) /\ match \subseteq live

\* Where a row stands that the walk has to show: the pages before this one have been
\* read to the end; what the count has bounded lies below it; and once the last page
\* is known to be read, the row has been seen.
OnTheWay(w, id) ==
  /\ w.pc \in {"count", "rows", "ids"} /\ L!Place(w.sort, w.who, id) < L!Skip(w.page)
       => id \in w.seen
  /\ w.pc \in {"rows", "ids"} /\ w.mode # "batch" => L!Place(w.sort, w.who, id) < w.total
  /\ w.pc = "fetch" /\ (\/ L!Place(w.sort, w.who, id) < w.page * PageSize
                        \/ w.page * PageSize >= w.total)
       => id \in w.seen \cup w.ids
  /\ w.pc = "total" /\ L!Place(w.sort, w.who, id) < w.page * PageSize => id \in w.seen
  /\ w.pc = "end" => id \in w.seen

\* The rows to show still match; those shown, or about to be, are the reader's own.
WalkShape(w) ==
  /\ w \in L!Walk
  /\ w.pc \in {"count", "ids", "fetch"} => w.mode # "batch"
  /\ w.pc \notin {"idle", "end"} => w.before \subseteq L!Where(w.who)
  /\ w.seen \cup w.ids \subseteq 1..Len(owner)
  /\ w.who # Everyone => \A id \in w.seen \cup w.ids : owner[id] = w.who

WalkInv(w) == WalkShape(w) /\ \A id \in w.before : OnTheWay(w, id)

ListInv == RowsInv /\ WalkInv(walk)

LEMMA ListInitially == ASSUME ListBounds PROVE L!Init => ListInv
<1> SUFFICES ASSUME L!Init PROVE ListInv
  OBVIOUS
<1>1. RowsInv
  BY DEF L!Init, RowsInv, ListBounds
<1>2. walk = L!Idle /\ L!Idle \in L!Walk
  BY DEF L!Init, L!Idle, L!Walk, L!Mode, L!Sort, L!Id, ListBounds
<1>3. WalkInv(walk)
  BY <1>2 DEF WalkInv, WalkShape, L!Idle
<1> QED
  BY <1>1, <1>3 DEF ListInv

\* The number of pages: enough for all rows, and no more than there are rows, but one.
LEMMA PagesCover ==
  ASSUME ListBounds, NEW total \in Nat
  PROVE  /\ L!TotalPages(total) \in Nat \ {0}
         /\ L!TotalPages(total) * PageSize >= total
         /\ L!TotalPages(total) =< total \/ L!TotalPages(total) = 1
<1> DEFINE n == total + PageSize - 1
           q == n \div PageSize
<1>1. PageSize \in Nat \ {0} /\ n \in Nat
  BY DEF ListBounds
<1>2. q \in Nat /\ q * PageSize =< n /\ n < q * PageSize + PageSize
  <2> HIDE DEF n
  <2>1. \A a \in Nat, b \in Nat \ {0} :
          a \div b \in Nat /\ (a \div b) * b =< a /\ a < (a \div b) * b + b
    OBVIOUS
  <2> QED
    BY <1>1, <2>1
<1>3. L!TotalPages(total) = IF q < 1 THEN 1 ELSE q
  BY DEF L!TotalPages, L!AtLeastOne
<1> HIDE DEF q
<1>4. q * PageSize \in Nat /\ total =< q * PageSize
  BY <1>1, <1>2
<1>5. CASE q = 0
  <2>1. 0 * PageSize = 0 /\ 1 * PageSize = PageSize
    BY <1>1
  <2> QED
    BY <1>1, <1>3, <1>4, <1>5, <2>1
<1>6. CASE q > 0
  <2>1. L!TotalPages(total) = q
    BY <1>2, <1>3, <1>6
  <2>2. q =< total \/ q = 1
    <3>1. \A a \in Nat, b \in Nat \ {0}, c \in Nat :
            a > c /\ c > 0 => a * b >= c + b
      OBVIOUS
    <3>2. total = 0 => q = 1
      <4>1. \A a \in Nat, b \in Nat \ {0} : a > 1 => a * b >= b + b
        OBVIOUS
      <4> QED
        BY <1>1, <1>2, <1>6, <4>1
    <3> QED
      BY <1>1, <1>2, <3>1, <3>2
  <2> QED
    BY <1>2, <1>4, <1>6, <2>1, <2>2
<1> QED
  BY <1>2, <1>5, <1>6

\* The pages up to the last, and the rows before a page.
LEMMA LastPage ==
  ASSUME ListBounds, NEW total \in Nat, NEW page_ \in Nat, page_ >= L!TotalPages(total)
  PROVE  page_ * PageSize >= total
<1>1. \A a \in Nat, b \in Nat, c \in Nat : a >= b => a * c >= b * c
  OBVIOUS
<1>2. page_ * PageSize \in Nat /\ L!TotalPages(total) * PageSize \in Nat
  BY PagesCover DEF ListBounds
<1>3. L!TotalPages(total) \in Nat /\ L!TotalPages(total) * PageSize >= total
      /\ PageSize \in Nat
  BY PagesCover DEF ListBounds
<1> DEFINE a == page_ * PageSize
           b == L!TotalPages(total) * PageSize
<1>4. a >= b /\ a \in Nat /\ b \in Nat /\ b >= total
  BY <1>1, <1>2, <1>3
<1> HIDE DEF a, b
<1>5. a >= total
  BY <1>4
<1> QED
  BY <1>5 DEF a

LEMMA SkipGrows ==
  ASSUME ListBounds, NEW p \in Nat \ {0}, NEW q \in Nat \ {0}, p =< q
  PROVE  /\ L!Skip(p) \in Nat /\ L!Skip(q) \in Nat /\ L!Skip(p) =< L!Skip(q)
         /\ L!Skip(p + 1) = p * PageSize /\ p * PageSize = L!Skip(p) + PageSize
<1>1. \A a \in Nat, b \in Nat, c \in Nat : a >= b => a * c >= b * c
  OBVIOUS
<1>2. \A a \in Nat, c \in Nat : a * c \in Nat /\ (a + 1) * c = a * c + c
  OBVIOUS
<1>3. p - 1 \in Nat /\ q - 1 \in Nat /\ p - 1 =< q - 1 /\ p = (p - 1) + 1 /\ (p + 1) - 1 = p
  OBVIOUS
<1>4. (p - 1) * PageSize \in Nat /\ (q - 1) * PageSize \in Nat
      /\ (p - 1) * PageSize =< (q - 1) * PageSize
  BY <1>1, <1>2, <1>3 DEF ListBounds
<1>5. ((p - 1) + 1) * PageSize = (p - 1) * PageSize + PageSize
  BY <1>2, <1>3 DEF ListBounds
<1> QED
  BY <1>3, <1>4, <1>5 DEF L!Skip

\* The lists count with the Cardinality of FiniteSets.
LEMMA SameCountOfRows == \A s : L!Cardinality(s) = Cardinality(s)
BY DEF L!Cardinality, Cardinality

LEMMA WhereIsFinite ==
  ASSUME RowsInv, NEW who, NEW rows_ \in SUBSET L!Where(who)
  PROVE  /\ IsFiniteSet(L!Where(who)) /\ IsFiniteSet(rows_)
         /\ Cardinality(rows_) \in Nat /\ Cardinality(rows_) =< L!Total(who)
         /\ L!Total(who) \in Nat /\ L!Total(who) =< Len(owner)
<1>1. Len(owner) \in Nat
  BY DEF RowsInv
<1>2. IsFiniteSet(1..Len(owner)) /\ Cardinality(1..Len(owner)) = Len(owner)
  <2>1. 1 \in Int /\ Len(owner) \in Int /\ (1 > Len(owner) => Len(owner) = 0)
    BY <1>1
  <2>2. Cardinality(1..Len(owner)) = IF 1 > Len(owner) THEN 0 ELSE Len(owner) - 1 + 1
    BY <2>1, FS_Interval
  <2> QED
    BY SMTT(30), <1>1, <2>1, <2>2, FS_Interval
<1>3. L!Where(who) \subseteq 1..Len(owner)
  BY DEF RowsInv, L!Where
<1>4. IsFiniteSet(L!Where(who)) /\ Cardinality(L!Where(who)) =< Len(owner)
  BY <1>2, <1>3, FS_Subset
<1>5. IsFiniteSet(rows_) /\ Cardinality(rows_) =< Cardinality(L!Where(who))
  BY <1>4, FS_Subset
<1> QED
  BY <1>4, <1>5, FS_CardinalityType, SameCountOfRows DEF L!Total

\* The rows before a row of the query are fewer than its rows.
LEMMA PlaceIsBelow ==
  ASSUME RowsInv, NEW sort, NEW who, NEW id \in L!Where(who)
  PROVE  /\ L!Place(sort, who, id) \in Nat /\ L!Place(sort, who, id) < L!Total(who)
<1> DEFINE first_ == {other \in L!Where(who) : L!Precedes(sort, other, id)}
<1>1. id \notin first_
  <2>1. id \in Int
    BY DEF L!Where, RowsInv
  <2> QED
    BY <2>1 DEF L!Precedes
<1>2. first_ \subseteq L!Where(who) /\ first_ # L!Where(who)
  BY <1>1
<1>3. IsFiniteSet(L!Where(who)) /\ Cardinality(first_) \in Nat
  BY <1>2, WhereIsFinite
<1>4. Cardinality(first_) < Cardinality(L!Where(who))
  BY <1>2, <1>3, FS_Subset, FS_CardinalityType
<1> QED
  BY <1>3, <1>4, SameCountOfRows DEF L!Place, L!Total

\* Statements of the reader leave the rows, and with them their places, alone.
LEMMA ReadingLeavesPlaces ==
  ASSUME UNCHANGED L!rows
  PROVE  /\ RowsInv <=> RowsInv'
         /\ \A w : WalkInv(w) => WalkInv(w)'
<1>1. owner' = owner /\ live' = live /\ match' = match
  BY DEF L!rows
<1>2. \A who : L!Where(who)' = L!Where(who)
  BY <1>1 DEF L!Where
<1>3. \A sort, who, id : L!Place(sort, who, id)' = L!Place(sort, who, id)
  BY <1>2 DEF L!Place
<1>4. RowsInv <=> RowsInv'
  BY <1>1 DEF RowsInv
<1>5. ASSUME NEW w, WalkInv(w) PROVE WalkInv(w)'
  <2>1. WalkShape(w)'
    BY <1>1, <1>2, <1>5 DEF WalkInv, WalkShape
  <2>2. ASSUME NEW id \in w.before PROVE OnTheWay(w, id)'
    BY <1>3, <1>5 DEF WalkInv, OnTheWay
  <2> QED
    BY <2>1, <2>2 DEF WalkInv
<1> QED
  BY <1>4, <1>5

\* A walk that has been disturbed has nothing left to show.
LEMMA DisturbedIsEasy ==
  ASSUME NEW w, WalkShape(w), NEW v, v = [w EXCEPT !.before = {}]
  PROVE  /\ v \in L!Walk /\ v.before = {} /\ v.pc = w.pc /\ v.mode = w.mode /\ v.who = w.who
         /\ v.seen = w.seen /\ v.ids = w.ids
BY DEF WalkShape, L!Walk

\* A row is deleted or edited: the walk has nothing left to show, and what it has shown
\* was its reader's own.
LEMMA RowsChange ==
  ASSUME ListInv, UNCHANGED owner, live' \subseteq 1..Len(owner), match' \subseteq live',
         L!Disturb(TRUE)
  PROVE  ListInv'
<1>1. RowsInv' /\ WalkShape(walk)
  BY DEF ListInv, RowsInv, WalkInv
<1>2. CASE walk.pc \in {"idle", "end"}
  <2>1. walk' = walk
    BY <1>2 DEF L!Disturb
  <2>2. WalkShape(walk)'
    BY <1>1, <1>2, <2>1 DEF WalkShape
  <2>3. ASSUME NEW id \in walk.before PROVE OnTheWay(walk, id)'
    BY <1>2, <2>1, <2>3 DEF ListInv, WalkInv, OnTheWay
  <2> QED
    BY <1>1, <2>1, <2>2, <2>3 DEF ListInv, WalkInv
<1>3. CASE walk.pc \notin {"idle", "end"}
  <2>1. walk' = [walk EXCEPT !.before = {}]
    BY <1>3 DEF L!Disturb
  <2>2. /\ walk' \in L!Walk /\ walk'.before = {} /\ walk'.pc = walk.pc
        /\ walk'.mode = walk.mode /\ walk'.who = walk.who /\ walk'.seen = walk.seen
        /\ walk'.ids = walk.ids
    BY <1>1, <2>1, DisturbedIsEasy
  <2>3. WalkShape(walk)'
    BY <1>1, <2>2 DEF WalkShape
  <2> QED
    BY <1>1, <2>2, <2>3 DEF ListInv, WalkInv
<1> QED
  BY <1>2, <1>3

\* A new row is behind the others, or before them when the newest come first.
LEMMA OpenMoves ==
  ASSUME ListBounds, RowsInv, NEW u \in Users, NEW accepted \in BOOLEAN, L!Open(u, accepted)
  PROVE  /\ RowsInv'
         /\ \A who : L!Where(who) \subseteq L!Where(who)'
         /\ \A k \in 1..Len(owner) : k \in 1..Len(owner') /\ owner'[k] = owner[k]
         /\ \A sort, who : \A id \in L!Where(who) :
              /\ L!Place(sort, who, id) \in Nat /\ L!Place(sort, who, id)' \in Nat
              /\ L!Place(sort, who, id) =< L!Place(sort, who, id)'
              /\ sort = "CREATED_ASC" => L!Place(sort, who, id)' = L!Place(sort, who, id)
<1> DEFINE new == Len(owner) + 1
<1>1. /\ new \in 1..MaxRows /\ owner' = Append(owner, u) /\ live' = live \cup {new}
      /\ match' = IF accepted THEN match \cup {new} ELSE match
  BY DEF L!Open, L!Id
<1>2. /\ owner \in Seq(Users) /\ Len(owner) \in Nat /\ live \subseteq 1..Len(owner)
      /\ match \subseteq live
  BY DEF RowsInv
<1>3. /\ owner' \in Seq(Users) /\ Len(owner') = new
      /\ \A k \in 1..Len(owner) : owner'[k] = owner[k]
  BY <1>1, <1>2
<1>4. RowsInv'
  <2>1. new =< MaxRows /\ 1..Len(owner) \subseteq 1..new /\ new \in 1..new
    BY <1>1, <1>2 DEF ListBounds
  <2> HIDE DEF new
  <2>2. live' \subseteq 1..new /\ match' \subseteq live'
    BY <1>1, <1>2, <2>1
  <2> QED
    BY <1>3, <2>1, <2>2 DEF RowsInv
<1>5. ASSUME NEW who
      PROVE  /\ L!Where(who) \subseteq L!Where(who)' /\ L!Where(who) \subseteq 1..Len(owner)
             /\ L!Where(who)' \subseteq L!Where(who) \cup {new}
  BY <1>1, <1>2, <1>3 DEF L!Where
<1>6. ASSUME NEW sort, NEW who, NEW id \in L!Where(who)
      PROVE  /\ L!Place(sort, who, id) \in Nat /\ L!Place(sort, who, id)' \in Nat
             /\ L!Place(sort, who, id) =< L!Place(sort, who, id)'
             /\ sort = "CREATED_ASC" => L!Place(sort, who, id)' = L!Place(sort, who, id)
  <2> DEFINE old == {other \in L!Where(who) : L!Precedes(sort, other, id)}
             now == {other \in L!Where(who)' : L!Precedes(sort, other, id)}
  <2>1. L!Place(sort, who, id) = Cardinality(old) /\ L!Place(sort, who, id)' = Cardinality(now)
    BY SameCountOfRows DEF L!Place
  <2>2. old \subseteq now
    BY <1>5
  <2>3. sort = "CREATED_ASC" => now = old
    <3>1. ~(new < id)
      BY <1>2, <1>5
    <3> QED
      BY <1>5, <3>1 DEF L!Precedes
  <2>4. IsFiniteSet(now) /\ Cardinality(now) \in Nat
    <3>1. IsFiniteSet(1..new)
      BY <1>2, FS_Interval
    <3>2. now \subseteq 1..new
      BY <1>2, <1>5
    <3> QED
      BY <3>1, <3>2, FS_Subset, FS_CardinalityType
  <2>5. Cardinality(old) \in Nat /\ Cardinality(old) =< Cardinality(now)
    BY <2>2, <2>4, FS_Subset, FS_CardinalityType
  <2> QED
    BY <2>1, <2>3, <2>4, <2>5
<1>7. \A k \in 1..Len(owner) : k \in 1..Len(owner') /\ owner'[k] = owner[k]
  BY <1>2, <1>3
<1> QED
  BY <1>4, <1>5, <1>6, <1>7

LEMMA OpenKeeps ==
  ASSUME ListBounds, ListInv, NEW u \in Users, NEW accepted \in BOOLEAN, L!Open(u, accepted)
  PROVE  ListInv'
<1>1. /\ RowsInv' /\ WalkShape(walk)
      /\ \A who : L!Where(who) \subseteq L!Where(who)'
      /\ \A k \in 1..Len(owner) : k \in 1..Len(owner') /\ owner'[k] = owner[k]
      /\ \A sort, who : \A id \in L!Where(who) :
           /\ L!Place(sort, who, id) \in Nat /\ L!Place(sort, who, id)' \in Nat
           /\ L!Place(sort, who, id) =< L!Place(sort, who, id)'
           /\ sort = "CREATED_ASC" => L!Place(sort, who, id)' = L!Place(sort, who, id)
  BY OpenMoves DEF ListInv, WalkInv
<1>2. CASE walk' = [walk EXCEPT !.before = {}]
  <2>1. /\ walk' \in L!Walk /\ walk'.before = {} /\ walk'.pc = walk.pc
        /\ walk'.mode = walk.mode /\ walk'.who = walk.who /\ walk'.seen = walk.seen
        /\ walk'.ids = walk.ids
    BY <1>1, <1>2, DisturbedIsEasy
  <2>2. WalkShape(walk)'
    BY <1>1, <2>1 DEF WalkShape
  <2> QED
    BY <1>1, <2>1, <2>2 DEF ListInv, WalkInv
<1>3. CASE /\ walk' = walk
           /\ walk.pc \in {"rows", "ids"} /\ walk.mode # "batch" => walk.sort = "CREATED_ASC"
  <2>1. WalkShape(walk)'
    BY <1>1, <1>3 DEF WalkShape
  <2>2. ASSUME NEW id \in walk.before PROVE OnTheWay(walk, id)'
    <3>1. OnTheWay(walk, id) /\ walk' = walk
      BY <1>3 DEF ListInv, WalkInv
    <3>2. CASE walk.pc \in {"idle", "end"}
      BY <3>1, <3>2 DEF OnTheWay
    <3>3. CASE walk.pc \notin {"idle", "end"}
      <4> DEFINE p == L!Place(walk.sort, walk.who, id)
                 q == L!Place(walk.sort, walk.who, id)'
      <4>1. id \in L!Where(walk.who)
        BY <1>1, <3>3 DEF WalkShape
      <4>2. p \in Nat /\ q \in Nat /\ p =< q
            /\ (walk.pc \in {"rows", "ids"} /\ walk.mode # "batch" => q = p)
        BY <1>1, <1>3, <4>1
      <4>3. L!Skip(walk.page) \in Int /\ walk.page * PageSize \in Int
        <5>1. walk.page \in Nat \ {0} /\ MaxRows \in Nat
          BY <1>1 DEF WalkShape, L!Walk, ListBounds
        <5> QED
          BY <5>1, SkipGrows
      <4> QED
        BY <3>1, <4>2, <4>3 DEF OnTheWay
    <3> QED
      BY <3>2, <3>3
  <2> QED
    BY <1>1, <1>3, <2>1, <2>2 DEF ListInv, WalkInv
<1>4. \/ walk' = [walk EXCEPT !.before = {}]
      \/ /\ walk' = walk
         /\ walk.pc \in {"rows", "ids"} /\ walk.mode # "batch" => walk.sort = "CREATED_ASC"
  BY DEF L!Open, L!Disturb
<1> QED
  BY <1>2, <1>3, <1>4

LEMMA EditDeleteKeep ==
  ASSUME ListInv, NEW id, L!Delete(id) \/ L!Edit(id)
  PROVE  ListInv'
<1>1. /\ UNCHANGED owner /\ live' \subseteq 1..Len(owner) /\ match' \subseteq live'
      /\ L!Disturb(TRUE)
  BY DEF ListInv, RowsInv, L!Delete, L!Edit
<1> QED
  BY <1>1, RowsChange

\* A statement of the reader ends in w.
LEMMA Reads ==
  ASSUME ListInv, UNCHANGED L!rows, NEW w, walk' = w, WalkInv(w)
  PROVE  ListInv'
<1>1. RowsInv' /\ WalkInv(w)'
  BY ReadingLeavesPlaces DEF ListInv
<1>2. WalkInv(walk)'
  <2>1. WalkShape(walk)' /\ w.before = walk'.before
    BY <1>1 DEF WalkInv, WalkShape
  <2>2. ASSUME NEW id \in walk'.before PROVE OnTheWay(walk, id)'
    BY <1>1, <2>1, <2>2 DEF WalkInv, OnTheWay
  <2> QED
    BY <2>1, <2>2 DEF WalkInv
<1> QED
  BY <1>1, <1>2 DEF ListInv

LEMMA FindAllKeeps ==
  ASSUME ListBounds, ListInv, NEW mode \in L!Mode, NEW sort \in L!Sort,
         NEW who \in Users \cup {Everyone}, L!FindAll(mode, sort, who)
  PROVE  ListInv'
<1> DEFINE w == [L!Idle EXCEPT !.pc = IF mode = "batch" THEN "rows" ELSE "count",
                   !.mode = mode, !.sort = sort, !.who = who, !.before = L!Where(who)]
<1>1. walk' = w /\ UNCHANGED L!rows
  BY DEF L!FindAll
<1>2. L!Where(who) \subseteq L!Id
  <2>1. 1..Len(owner) \subseteq 1..MaxRows
    BY DEF ListInv, RowsInv, ListBounds
  <2> QED
    BY <2>1 DEF ListInv, RowsInv, L!Where, L!Id
<1> DEFINE at == IF mode = "batch" THEN "rows" ELSE "count"
<1>a. at \in {"rows", "count"} /\ (at = "rows" <=> mode = "batch")
  OBVIOUS
<1>b. /\ L!Idle \in L!Walk /\ L!Idle.page = 1 /\ L!Idle.seen = {} /\ L!Idle.ids = {}
  BY DEF L!Idle, L!Walk, L!Mode, L!Sort, L!Id, ListBounds
<1> HIDE DEF at
<1>3. /\ w \in L!Walk /\ w.pc = at
      /\ w.mode = mode /\ w.sort = sort /\ w.who = who /\ w.before = L!Where(who)
      /\ w.page = 1 /\ w.seen = {} /\ w.ids = {}
  <2>1. w = [L!Idle EXCEPT !.pc = at, !.mode = mode, !.sort = sort, !.who = who,
                           !.before = L!Where(who)]
    BY DEF at
  <2> HIDE DEF w
  <2> QED
    BY <1>2, <1>a, <1>b, <2>1 DEF L!Walk
<1> HIDE DEF w
<1>4. WalkShape(w)
  BY <1>3, <1>a DEF WalkShape
<1>5. L!Skip(1) = 0
  BY DEF L!Skip, ListBounds
<1>6. ASSUME NEW id \in w.before PROVE OnTheWay(w, id)
  <2>1. L!Place(sort, who, id) \in Nat
    BY <1>3, PlaceIsBelow DEF ListInv
  <2> QED
    BY <1>3, <1>5, <1>a, <2>1 DEF OnTheWay
<1> QED
  BY <1>1, <1>4, <1>6, Reads DEF WalkInv

\* After a page the walk turns to the next, or ends: all that stands on the pages so
\* far has been seen, or all when they were enough for what was counted.
LEMMA TurnKeeps ==
  ASSUME ListBounds, RowsInv, NEW w \in L!Walk, w.before \subseteq L!Where(w.who),
         w.seen \subseteq 1..Len(owner), w.who # Everyone => \A id \in w.seen : owner[id] = w.who,
         \A id \in w.before :
           L!Place(w.sort, w.who, id) < w.page * PageSize \/ w.page * PageSize >= w.total
             => id \in w.seen
  PROVE  WalkInv(L!Turn(w))
<1> DEFINE t == L!Turn(w)
           k == w.page + 1
<1>1. /\ w.page \in Nat \ {0} /\ w.page \in 1..(MaxRows + 1) /\ w.total \in 0..MaxRows
      /\ MaxRows \in Nat /\ w.total \in Nat /\ w.sort \in L!Sort /\ w.mode \in L!Mode
  BY DEF L!Walk, ListBounds
<1>2. CASE w.page < L!TotalPages(w.total)
  <2>1. k \in 1..(MaxRows + 1)
    <3>1. /\ L!TotalPages(w.total) \in Nat
          /\ L!TotalPages(w.total) =< w.total \/ L!TotalPages(w.total) = 1
      BY <1>1, PagesCover
    <3> QED
      BY <1>1, <1>2, <3>1
  <2>2. t = [w EXCEPT !.page = k, !.ids = {}, !.total = 0,
                      !.pc = IF w.mode = "batch" THEN "rows" ELSE "count"]
    BY <1>2 DEF L!Turn
  <2>3. L!Skip(k) = w.page * PageSize
    <3>1. w.page =< w.page
      BY <1>1
    <3> QED
      BY <1>1, <3>1, SkipGrows
  <2> DEFINE at == IF w.mode = "batch" THEN "rows" ELSE "count"
  <2>a. at \in {"rows", "count"} /\ (at = "rows" <=> w.mode = "batch") /\ 0 \in 0..MaxRows
    BY <1>1
  <2>b. t = [w EXCEPT !.page = k, !.ids = {}, !.total = 0, !.pc = at]
    BY <2>2
  <2> HIDE DEF k, t, at
  <2>4. /\ t \in L!Walk /\ t.pc = at
        /\ t.mode = w.mode /\ t.sort = w.sort /\ t.who = w.who /\ t.before = w.before
        /\ t.page = k /\ t.seen = w.seen /\ t.ids = {}
    BY <2>1, <2>a, <2>b DEF L!Walk
  <2>5. WalkShape(t)
    BY <2>4, <2>a DEF WalkShape
  <2>6. ASSUME NEW id \in t.before PROVE OnTheWay(t, id)
    BY <2>3, <2>4, <2>a DEF OnTheWay
  <2> QED
    BY <2>5, <2>6 DEF WalkInv, t
<1>3. CASE ~(w.page < L!TotalPages(w.total))
  <2>1. w.page * PageSize >= w.total
    <3>1. L!TotalPages(w.total) \in Nat
      BY <1>1, PagesCover
    <3> QED
      BY <1>1, <1>3, <3>1, LastPage
  <2>2. t = [w EXCEPT !.pc = "end", !.ids = {}, !.total = 0] /\ 0 \in 0..MaxRows
    BY <1>1, <1>3 DEF L!Turn
  <2> HIDE DEF t
  <2>3. /\ t \in L!Walk /\ t.pc = "end" /\ t.who = w.who /\ t.before = w.before
        /\ t.seen = w.seen /\ t.ids = {}
    BY <2>2 DEF L!Walk
  <2>4. WalkShape(t)
    BY <2>3 DEF WalkShape
  <2>5. ASSUME NEW id \in t.before PROVE OnTheWay(t, id)
    BY <2>1, <2>3 DEF OnTheWay
  <2> QED
    BY <2>4, <2>5 DEF WalkInv, t
<1> QED
  BY <1>2, <1>3

\* The count bounds the page; what the walk has to show is among the rows counted.
LEMMA CountKeeps ==
  ASSUME ListBounds, ListInv, L!Count
  PROVE  ListInv'
<1> DEFINE total_ == L!Total(walk.who)
           page_ == L!Least(walk.page, L!TotalPages(total_))
           w == [walk EXCEPT !.total = total_, !.page = page_]
           r == [w EXCEPT !.pc = "rows"]
           i == [w EXCEPT !.pc = "ids"]
<1>1. /\ walk.pc = "count" /\ UNCHANGED L!rows
      /\ walk' = IF walk.mode = "contains" THEN r ELSE IF total_ = 0 THEN L!Turn(w) ELSE i
  BY DEF L!Count
<1>2. /\ walk \in L!Walk /\ walk.mode # "batch" /\ walk.before \subseteq L!Where(walk.who)
      /\ walk.seen \cup walk.ids \subseteq 1..Len(owner) /\ RowsInv
      /\ walk.who # Everyone => \A id \in walk.seen \cup walk.ids : owner[id] = walk.who
      /\ \A id \in walk.before : OnTheWay(walk, id)
  BY <1>1 DEF ListInv, WalkInv, WalkShape
<1>3. walk.page \in Nat \ {0} /\ walk.page \in 1..(MaxRows + 1) /\ MaxRows \in Nat
  BY <1>2 DEF L!Walk, ListBounds
<1>4. total_ \in Nat /\ total_ \in 0..MaxRows
  <2>1. {} \subseteq L!Where(walk.who)
    OBVIOUS
  <2>2. total_ \in Nat /\ total_ =< Len(owner)
    BY <1>2, <2>1, WhereIsFinite
  <2>3. Len(owner) =< MaxRows /\ Len(owner) \in Nat
    BY <1>2 DEF RowsInv
  <2> QED
    BY <1>3, <2>2, <2>3
<1>5. page_ \in Nat \ {0} /\ page_ =< walk.page /\ page_ \in 1..(MaxRows + 1)
  <2>1. L!TotalPages(total_) \in Nat \ {0}
    BY <1>4, PagesCover
  <2> QED
    BY <1>3, <2>1 DEF L!Least
<1>6. L!Skip(page_) \in Nat /\ L!Skip(walk.page) \in Nat /\ L!Skip(page_) =< L!Skip(walk.page)
  BY <1>3, <1>5, SkipGrows
<1>7. ASSUME NEW id \in walk.before
      PROVE  /\ L!Place(walk.sort, walk.who, id) \in Nat
             /\ L!Place(walk.sort, walk.who, id) < total_
             /\ L!Place(walk.sort, walk.who, id) < L!Skip(page_) => id \in walk.seen
  <2>1. /\ L!Place(walk.sort, walk.who, id) \in Nat
        /\ L!Place(walk.sort, walk.who, id) < total_
    BY <1>2, <1>7, PlaceIsBelow
  <2>2. L!Place(walk.sort, walk.who, id) < L!Skip(walk.page) => id \in walk.seen
    BY <1>1, <1>2, <1>7 DEF OnTheWay
  <2> QED
    BY <1>6, <2>1, <2>2
<1> HIDE DEF total_, page_
<1>8. /\ w \in L!Walk /\ w.pc = "count" /\ w.mode = walk.mode /\ w.sort = walk.sort
      /\ w.who = walk.who /\ w.before = walk.before /\ w.seen = walk.seen /\ w.ids = walk.ids
      /\ w.page = page_ /\ w.total = total_
  BY <1>1, <1>2, <1>4, <1>5 DEF L!Walk
<1> HIDE DEF w
<1>9. ASSUME NEW at \in {"rows", "ids"} PROVE WalkInv([w EXCEPT !.pc = at])
  <2> DEFINE v == [w EXCEPT !.pc = at]
  <2>1. /\ v \in L!Walk /\ v.pc = at /\ v.mode = walk.mode /\ v.sort = walk.sort
        /\ v.who = walk.who /\ v.before = walk.before /\ v.seen = walk.seen
        /\ v.ids = walk.ids /\ v.page = page_ /\ v.total = total_
    BY <1>8 DEF L!Walk
  <2> HIDE DEF v
  <2>2. WalkShape(v)
    BY <1>2, <2>1 DEF WalkShape
  <2>3. ASSUME NEW id \in v.before PROVE OnTheWay(v, id)
    BY <1>7, <2>1 DEF OnTheWay
  <2> QED
    BY <2>2, <2>3 DEF WalkInv, v
<1>10. ASSUME total_ = 0 PROVE WalkInv(L!Turn(w))
  <2>1. walk.before = {}
    BY <1>7, <1>10
  <2> QED
    BY <1>2, <1>8, <2>1, TurnKeeps
<1>11. WalkInv(walk')
  BY <1>1, <1>9, <1>10
<1> QED
  BY <1>1, <1>11, Reads

\* The rows of a page are those whose place is on it; all before it had been seen.
LEMMA SliceShows ==
  ASSUME ListBounds, ListInv, walk.pc \in {"rows", "ids"}
  PROVE  /\ walk \in L!Walk /\ walk.before \subseteq L!Where(walk.who)
         /\ walk.seen \cup walk.ids \subseteq 1..Len(owner)
         /\ walk.who # Everyone => \A id \in walk.seen \cup walk.ids : owner[id] = walk.who
         /\ L!Slice(walk.sort, walk.who, walk.page) \subseteq 1..Len(owner)
         /\ L!Slice(walk.sort, walk.who, walk.page) \subseteq L!Id
         /\ walk.who # Everyone =>
              \A id \in L!Slice(walk.sort, walk.who, walk.page) : owner[id] = walk.who
         /\ \A id \in walk.before :
              \/ L!Place(walk.sort, walk.who, id) < walk.page * PageSize
              \/ walk.mode # "batch" /\ walk.page * PageSize >= walk.total
              => id \in walk.seen \cup L!Slice(walk.sort, walk.who, walk.page)
<1>1. /\ walk \in L!Walk /\ walk.before \subseteq L!Where(walk.who) /\ RowsInv
      /\ walk.seen \cup walk.ids \subseteq 1..Len(owner)
      /\ walk.who # Everyone => \A id \in walk.seen \cup walk.ids : owner[id] = walk.who
      /\ \A id \in walk.before : OnTheWay(walk, id)
  BY DEF ListInv, WalkInv, WalkShape
<1>2. /\ L!Slice(walk.sort, walk.who, walk.page) \subseteq 1..Len(owner)
      /\ walk.who # Everyone =>
           \A id \in L!Slice(walk.sort, walk.who, walk.page) : owner[id] = walk.who
  BY <1>1 DEF L!Slice, L!Where, RowsInv
<1>3. 1..Len(owner) \subseteq L!Id
  BY <1>1 DEF RowsInv, L!Id, ListBounds
<1>4. /\ walk.page \in Nat \ {0} /\ L!Skip(walk.page) \in Nat /\ walk.total \in Nat
      /\ walk.page * PageSize = L!Skip(walk.page) + PageSize
  <2>1. walk.page \in Nat \ {0} /\ walk.page =< walk.page /\ walk.total \in Nat
    BY <1>1 DEF L!Walk, ListBounds
  <2> QED
    BY <2>1, SkipGrows
<1>5. ASSUME NEW id \in walk.before,
             \/ L!Place(walk.sort, walk.who, id) < walk.page * PageSize
             \/ walk.mode # "batch" /\ walk.page * PageSize >= walk.total
      PROVE  id \in walk.seen \cup L!Slice(walk.sort, walk.who, walk.page)
  <2> DEFINE p == L!Place(walk.sort, walk.who, id)
  <2>1. p \in Nat /\ id \in L!Where(walk.who)
    BY <1>1, <1>5, PlaceIsBelow
  <2>2. p < walk.page * PageSize
    <3>1. CASE walk.mode # "batch" /\ walk.page * PageSize >= walk.total
      <4>1. p < walk.total
        BY <1>1, <1>5, <3>1 DEF OnTheWay
      <4>2. walk.page * PageSize \in Nat
        BY <1>4 DEF ListBounds
      <4> QED
        BY <1>4, <2>1, <3>1, <4>1, <4>2
    <3> QED
      BY <1>5, <3>1
  <2>3. CASE p < L!Skip(walk.page)
    BY <1>1, <1>5, <2>3 DEF OnTheWay
  <2>4. CASE ~(p < L!Skip(walk.page))
    <3>1. p \in L!Skip(walk.page)..(L!Skip(walk.page) + PageSize - 1)
      BY <1>4, <2>1, <2>2, <2>4 DEF ListBounds
    <3> QED
      BY <2>1, <3>1 DEF L!Slice
  <2> QED
    BY <2>3, <2>4
<1> QED
  BY <1>1, <1>2, <1>3, <1>5

LEMMA FindRowsKeeps ==
  ASSUME ListBounds, ListInv, L!FindRows
  PROVE  ListInv'
<1> DEFINE page_ == L!Slice(walk.sort, walk.who, walk.page)
           w == L!Show(walk, page_)
<1>1. /\ walk.pc = "rows" /\ UNCHANGED L!rows
      /\ walk' = IF walk.mode = "batch" THEN [w EXCEPT !.pc = "total"] ELSE L!Turn(w)
  BY DEF L!FindRows
<1>2. /\ walk \in L!Walk /\ walk.before \subseteq L!Where(walk.who)
      /\ walk.seen \cup walk.ids \subseteq 1..Len(owner) /\ page_ \subseteq 1..Len(owner)
      /\ walk.who # Everyone => \A id \in walk.seen \cup walk.ids : owner[id] = walk.who
      /\ walk.who # Everyone => \A id \in page_ : owner[id] = walk.who
      /\ page_ \subseteq L!Id
      /\ \A id \in walk.before :
           \/ L!Place(walk.sort, walk.who, id) < walk.page * PageSize
           \/ walk.mode # "batch" /\ walk.page * PageSize >= walk.total
           => id \in walk.seen \cup page_
  BY <1>1, SliceShows
<1> HIDE DEF page_
<1>3. w = [walk EXCEPT !.seen = walk.seen \cup page_]
  BY DEF L!Show
<1> HIDE DEF w
<1>4. /\ w \in L!Walk /\ w.pc = "rows" /\ w.mode = walk.mode /\ w.sort = walk.sort
      /\ w.who = walk.who /\ w.before = walk.before /\ w.seen = walk.seen \cup page_
      /\ w.ids = walk.ids /\ w.page = walk.page /\ w.total = walk.total
  BY <1>1, <1>2, <1>3 DEF L!Walk
<1>5. CASE walk.mode = "batch"
  <2> DEFINE v == [w EXCEPT !.pc = "total"]
  <2>1. /\ v \in L!Walk /\ v.pc = "total" /\ v.mode = w.mode /\ v.sort = w.sort
        /\ v.who = w.who /\ v.before = w.before /\ v.seen = w.seen /\ v.ids = w.ids
        /\ v.page = w.page /\ v.total = w.total
    BY <1>4 DEF L!Walk
  <2>2. walk' = v
    BY <1>1, <1>5
  <2> HIDE DEF v
  <2>3. WalkShape(v)
    BY <1>2, <1>4, <2>1 DEF WalkShape
  <2>4. ASSUME NEW id \in v.before PROVE OnTheWay(v, id)
    BY <1>2, <1>4, <2>1 DEF OnTheWay
  <2> QED
    BY <1>1, <2>2, <2>3, <2>4, Reads DEF WalkInv
<1>6. CASE walk.mode # "batch"
  <2>1. WalkInv(L!Turn(w))
    BY <1>2, <1>4, <1>6, TurnKeeps DEF ListInv
  <2> QED
    BY <1>1, <1>6, <2>1, Reads
<1> QED
  BY <1>5, <1>6

\* A batch counts after it has read: what it counts is no less than there was to show.
LEMMA CountBatchKeeps ==
  ASSUME ListBounds, ListInv, L!CountBatch
  PROVE  ListInv'
<1> DEFINE total_ == L!Total(walk.who)
           w == [walk EXCEPT !.total = total_]
<1>1. walk.pc = "total" /\ UNCHANGED L!rows /\ walk' = L!Turn(w)
  BY DEF L!CountBatch
<1>2. /\ walk \in L!Walk /\ walk.before \subseteq L!Where(walk.who) /\ RowsInv
      /\ walk.seen \cup walk.ids \subseteq 1..Len(owner)
      /\ walk.who # Everyone => \A id \in walk.seen \cup walk.ids : owner[id] = walk.who
      /\ \A id \in walk.before : OnTheWay(walk, id)
  BY <1>1 DEF ListInv, WalkInv, WalkShape
<1>3. total_ \in Nat /\ total_ \in 0..MaxRows
  <2>1. {} \subseteq L!Where(walk.who)
    OBVIOUS
  <2>2. total_ \in Nat /\ total_ =< Len(owner)
    BY <1>2, <2>1, WhereIsFinite
  <2>3. Len(owner) =< MaxRows /\ Len(owner) \in Nat
    BY <1>2 DEF RowsInv
  <2> QED
    BY <2>2, <2>3 DEF ListBounds
<1>4. \A id \in walk.before : /\ L!Place(walk.sort, walk.who, id) \in Nat
                              /\ L!Place(walk.sort, walk.who, id) < total_
  BY <1>2, PlaceIsBelow
<1>5. walk.page * PageSize \in Nat
  BY <1>2 DEF L!Walk, ListBounds
<1> HIDE DEF total_
<1>6. /\ w \in L!Walk /\ w.sort = walk.sort /\ w.page = walk.page /\ w.total = total_
      /\ w.who = walk.who /\ w.before = walk.before /\ w.seen = walk.seen
  BY <1>2, <1>3 DEF L!Walk
<1> HIDE DEF w
<1>7. ASSUME NEW id \in w.before,
             \/ L!Place(w.sort, w.who, id) < w.page * PageSize
             \/ w.page * PageSize >= w.total
      PROVE  id \in w.seen
  <2>1. L!Place(w.sort, w.who, id) < w.page * PageSize
    BY <1>3, <1>4, <1>5, <1>6, <1>7
  <2> QED
    BY <1>1, <1>2, <1>6, <1>7, <2>1 DEF OnTheWay
<1>8. WalkInv(L!Turn(w))
  BY <1>2, <1>6, <1>7, TurnKeeps
<1> QED
  BY <1>1, <1>8, Reads

LEMMA FindIdsKeeps ==
  ASSUME ListBounds, ListInv, L!FindIds
  PROVE  ListInv'
<1> DEFINE page_ == L!Slice(walk.sort, walk.who, walk.page)
           w == [walk EXCEPT !.ids = page_, !.pc = "fetch"]
<1>1. walk.pc = "ids" /\ UNCHANGED L!rows /\ walk' = w
  BY DEF L!FindIds
<1>2. /\ walk \in L!Walk /\ walk.before \subseteq L!Where(walk.who)
      /\ walk.seen \cup walk.ids \subseteq 1..Len(owner) /\ page_ \subseteq 1..Len(owner)
      /\ walk.who # Everyone => \A id \in walk.seen \cup walk.ids : owner[id] = walk.who
      /\ walk.who # Everyone => \A id \in page_ : owner[id] = walk.who
      /\ page_ \subseteq L!Id
      /\ \A id \in walk.before :
           \/ L!Place(walk.sort, walk.who, id) < walk.page * PageSize
           \/ walk.mode # "batch" /\ walk.page * PageSize >= walk.total
           => id \in walk.seen \cup page_
  BY <1>1, SliceShows
<1>3. walk.mode # "batch"
  BY <1>1 DEF ListInv, WalkInv, WalkShape
<1> HIDE DEF page_
<1>4. /\ w \in L!Walk /\ w.pc = "fetch" /\ w.mode = walk.mode /\ w.sort = walk.sort
      /\ w.who = walk.who /\ w.before = walk.before /\ w.seen = walk.seen
      /\ w.ids = page_ /\ w.page = walk.page /\ w.total = walk.total
  BY <1>2 DEF L!Walk
<1> HIDE DEF w
<1>5. WalkShape(w)
  BY <1>2, <1>3, <1>4 DEF WalkShape
<1>6. ASSUME NEW id \in w.before PROVE OnTheWay(w, id)
  BY <1>2, <1>3, <1>4 DEF OnTheWay
<1> QED
  BY <1>1, <1>5, <1>6, Reads DEF WalkInv

LEMMA FindByIdsKeeps ==
  ASSUME ListBounds, ListInv, L!FindByIds
  PROVE  ListInv'
<1> DEFINE w == [walk EXCEPT !.seen = walk.seen \cup (walk.ids \cap live)]
<1>1. walk.pc = "fetch" /\ UNCHANGED L!rows /\ walk' = L!Turn(w)
  BY DEF L!FindByIds, L!Show
<1>2. /\ walk \in L!Walk /\ walk.before \subseteq L!Where(walk.who) /\ RowsInv
      /\ walk.seen \cup walk.ids \subseteq 1..Len(owner)
      /\ walk.who # Everyone => \A id \in walk.seen \cup walk.ids : owner[id] = walk.who
      /\ \A id \in walk.before : OnTheWay(walk, id)
  BY <1>1 DEF ListInv, WalkInv, WalkShape
<1>3. /\ w \in L!Walk /\ w.sort = walk.sort /\ w.page = walk.page /\ w.total = walk.total
      /\ w.who = walk.who /\ w.before = walk.before
      /\ w.seen = walk.seen \cup (walk.ids \cap live)
  BY <1>2 DEF L!Walk
<1> HIDE DEF w
<1>4. ASSUME NEW id \in w.before,
             \/ L!Place(w.sort, w.who, id) < w.page * PageSize
             \/ w.page * PageSize >= w.total
      PROVE  id \in w.seen
  <2>1. id \in live
    BY <1>2, <1>3, <1>4 DEF L!Where
  <2>2. id \in walk.seen \cup walk.ids
    BY <1>1, <1>2, <1>3, <1>4 DEF OnTheWay
  <2> QED
    BY <1>3, <2>1, <2>2
<1>5. WalkInv(L!Turn(w))
  BY <1>2, <1>3, <1>4, TurnKeeps
<1> QED
  BY <1>1, <1>5, Reads

LEMMA CloseKeeps == ASSUME ListBounds, ListInv, L!Close PROVE ListInv'
<1>1. L!Idle \in L!Walk
  BY DEF L!Idle, L!Walk, L!Mode, L!Sort, L!Id, ListBounds
<1>2. WalkInv(L!Idle)
  BY <1>1 DEF WalkInv, WalkShape, L!Idle
<1> QED
  BY <1>2, Reads DEF L!Close

\* The inductive invariant: what the pages so far have left to show.
THEOREM ListInvariant == ASSUME ListBounds PROVE L!Spec => []ListInv
<1>1. ListInv /\ [L!Next]_(L!vars) => ListInv'
  <2> SUFFICES ASSUME ListInv, [L!Next]_(L!vars) PROVE ListInv'
    OBVIOUS
  <2>1. CASE UNCHANGED L!vars
    <3>1. UNCHANGED L!rows /\ walk' = walk
      BY <2>1 DEF L!vars
    <3> QED
      BY <3>1, Reads DEF ListInv
  <2>2. CASE L!Next
    BY <2>2, OpenKeeps, EditDeleteKeep, FindAllKeeps, CountKeeps, FindRowsKeeps,
       CountBatchKeeps, FindIdsKeeps, FindByIdsKeeps, CloseKeeps DEF L!Next
  <2> QED
    BY <2>1, <2>2
<1> QED
  BY <1>1, ListInitially, PTL DEF L!Spec

\* Rows and the walk of a list keep to their types (Listing.TypeOK).
THEOREM ListTypeCorrect == ASSUME ListBounds PROVE L!Spec => []L!TypeOK
<1>1. ListInv => L!TypeOK
  BY DEF ListInv, RowsInv, WalkInv, WalkShape, L!TypeOK
<1> QED
  BY <1>1, ListInvariant, PTL

\* A walk shows every row that it has to, and to a requester none but its own
\* (Listing.WalkIsExact), whatever comes and goes, for pages of any size.
THEOREM WalkShowsAll == ASSUME ListBounds PROVE Spec => []WalkIsExact
<1>1. ListInv => L!NothingSkipped /\ L!OwnOnly
  BY DEF ListInv, WalkInv, WalkShape, OnTheWay, L!NothingSkipped, L!OwnOnly
<1>2. ListInv => WalkIsExact
  BY <1>1 DEF WalkIsExact, L!WalkIsExact
<1> QED
  BY <1>2, Parts, ListInvariant, PTL

-----------------------------------------------------------------------------
AreaNames == {"knowledge", "inbox", "cmdb", "lists", "conversation", "catalog", "rules",
              "calendars", "portal"}

\* The part that a behaviour is about keeps to its types.
THEOREM TypesAreKept ==
  ASSUME Nil \notin Users, Impacted \in Services, ListBounds, MaxRules \in Nat,
         MaxIssued \in Nat
  PROVE  Spec => []TypesOK
<1>1. CmdbInv => C!TypeOK
  BY DEF CmdbInv, CmdbTypes, C!TypeOK
<1>2. CatalogInv => F!TypeOK
  BY DEF CatalogInv, FillingShape, Filling, AnyValue, F!TypeOK
<1>3. RulesInv => R!TypeOK
  BY DEF RulesInv
<1>4. CalendarsInv => B!TypeOK
  BY DEF CalendarsInv
<1>5. Spec => []P!TypeOK
  <2>1. P!TabsAreKnown
    BY DEF P!TabsAreKnown, P!Tab, Tabs, Calls
  <2> QED
    BY <2>1, Parts, P!TypeCorrect, PTL
<1>6. Init => area \in AreaNames
  BY DEF Init, AreaNames
<1>7. area \in AreaNames /\ [Next]_vars => (area \in AreaNames)'
  BY DEF Next, vars, AreaNames
<1>8. Spec => [](area \in AreaNames)
  BY <1>6, <1>7, PTL DEF Spec
<1>9. /\ area \in AreaNames /\ K!TypeOK /\ I!TypeOK /\ C!TypeOK /\ L!TypeOK /\ V!TypeOK
      /\ F!TypeOK /\ R!TypeOK /\ B!TypeOK /\ P!TypeOK
      => TypesOK
  BY DEF TypesOK, AreaNames
<1> QED
  BY <1>1, <1>2, <1>3, <1>4, <1>5, <1>8, <1>9, Parts, K!TypeCorrect, InboxTypeCorrect,
     CmdbInvariant, ListTypeCorrect, TalkTypeCorrect, CatalogInvariant, RulesInvariant,
     CalendarsInvariant, PTL

=============================================================================
