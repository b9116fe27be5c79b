---------------------------- MODULE Conversation ----------------------------
(***************************************************************************)
(* Comments and attachments of one ticket. Each is written in a            *)
(* transaction together with the activity that tells it; the attachment's  *)
(* audit record is written on another connection before the commit. The    *)
(* workspace of the ticket is read in several statements meanwhile.        *)
(***************************************************************************)
CONSTANTS Workers, Posts, Nil

(***************************************************************************)
(* comments, attachments and activities are the committed rows of the      *)
(* ticket, log the audited attachments; an activity has the name of what   *)
(* it tells. live says that the ticket has not been deleted.               *)
(***************************************************************************)
VARIABLES live, comments, attachments, activities, log, req

tables == <<live, comments, attachments, activities, log>>
vars == <<tables, req>>

Request == [pc : {"idle", "insert", "activity", "audit", "commit",
                  "activities", "answer"},
            ask : {"comment", "attach", "read", Nil}, post : Posts \cup {Nil},
            comments : SUBSET Posts, activities : SUBSET Posts]
Idle == [pc |-> "idle", ask |-> Nil, post |-> Nil, comments |-> {}, activities |-> {}]

Used == comments \cup attachments \cup log \cup {req[w].post : w \in Workers}

At(w, pc) == req[w].pc = pc
Goto(w, pc) == req' = [req EXCEPT ![w].pc = pc]
Finish(w) == req' = [req EXCEPT ![w] = Idle]

Init ==
  /\ live = TRUE
  /\ comments = {} /\ attachments = {} /\ activities = {} /\ log = {}
  /\ req = [w \in Workers |-> Idle]

-----------------------------------------------------------------------------
\* findOne finds the ticket and the caller may see it; for a comment the author
\* is looked up next, which nothing removes.
Add(w, ask, p) ==
  /\ At(w, "idle") /\ live /\ p \notin Used
  /\ req' = [req EXCEPT ![w] = [Idle EXCEPT !.pc = "insert", !.ask = ask, !.post = p]]
  /\ UNCHANGED tables

\* The foreign key refuses the row of a ticket that is gone; otherwise it locks
\* the ticket against deletion until the transaction ends.
Insert(w) ==
  /\ At(w, "insert")
  /\ IF live THEN Goto(w, "activity") ELSE Finish(w)
  /\ UNCHANGED tables

InsertActivity(w) ==
  /\ At(w, "activity")
  /\ Goto(w, IF req[w].ask = "attach" THEN "audit" ELSE "commit")
  /\ UNCHANGED tables

AuditLater(w) ==  \* Fault: the audit record waits for somebody to ask for it
  /\ At(w, "audit")
  /\ Goto(w, "commit")
  /\ UNCHANGED tables

Audit(w) ==
  /\ At(w, "audit")
  /\ log' = log \cup {req[w].post}
  /\ Goto(w, "commit")
  /\ UNCHANGED <<live, comments, attachments, activities>>

CommitInParts(w) ==  \* Fault: a comment is committed before its activity
  LET p == req[w].post IN
  /\ At(w, "commit")
  /\ IF req[w].ask = "comment" /\ p \notin comments
     THEN comments' = comments \cup {p} /\ UNCHANGED <<attachments, activities, req>>
     ELSE /\ attachments' = IF req[w].ask = "attach" THEN attachments \cup {p} ELSE attachments
          /\ activities' = activities \cup {p}
          /\ Finish(w) /\ UNCHANGED comments
  /\ UNCHANGED <<live, log>>

Commit(w) ==
  LET p == req[w].post IN
  /\ At(w, "commit")
  /\ \/ req[w].ask = "comment" /\ comments' = comments \cup {p} /\ UNCHANGED attachments
     \/ req[w].ask = "attach" /\ attachments' = attachments \cup {p} /\ UNCHANGED comments
  /\ activities' = activities \cup {p}
  /\ Finish(w) /\ UNCHANGED <<live, log>>

\* The transaction is rolled back: it took too long, or the process stopped.
Rollback(w) ==
  /\ req[w].pc \in {"activity", "audit", "commit"}
  /\ Finish(w) /\ UNCHANGED tables

Locked == \E w \in Workers : req[w].pc \in {"activity", "audit", "commit"}

DeleteUnlocked ==  \* Fault: the rows of the ticket do not keep it from going
  /\ live
  /\ live' = FALSE
  /\ comments' = {} /\ attachments' = {} /\ activities' = {}
  /\ UNCHANGED <<log, req>>

\* The ticket goes with its comments, activities and attachments.
Delete ==
  /\ live /\ ~Locked
  /\ live' = FALSE
  /\ comments' = {} /\ attachments' = {} /\ activities' = {}
  /\ UNCHANGED <<log, req>>

\* findOne reads the ticket and its comments, then its activities, and then its
\* attachments, each in a statement of its own.
FindOne(w) ==
  /\ At(w, "idle") /\ live
  /\ req' = [req EXCEPT ![w] = [Idle EXCEPT !.pc = "activities", !.ask = "read",
                                            !.comments = comments]]
  /\ UNCHANGED tables

ReadActivities(w) ==
  /\ At(w, "activities")
  /\ req' = [req EXCEPT ![w].pc = "answer", ![w].activities = activities]
  /\ UNCHANGED tables

Answer(w) == At(w, "answer") /\ Finish(w) /\ UNCHANGED tables

Next ==
  \/ \E w \in Workers :
       \/ \E ask \in {"comment", "attach"}, p \in Posts : Add(w, ask, p)
       \/ Insert(w) \/ InsertActivity(w) \/ Audit(w) \/ Commit(w) \/ Rollback(w)
       \/ FindOne(w) \/ ReadActivities(w) \/ Answer(w)
  \/ Delete

Spec == Init /\ [][Next]_vars

-----------------------------------------------------------------------------
\* The tables and the requests keep to their types.
TypeOK ==
  /\ live \in BOOLEAN
  /\ comments \subseteq Posts /\ attachments \subseteq Posts
  /\ activities \subseteq Posts /\ log \subseteq Posts
  /\ req \in [Workers -> Request]

\* The timeline tells exactly the comments and attachments that there are, and
\* nothing is left of a ticket that is gone, though it is deleted while posts
\* are under way. (The transactions of addComment and addAttachment, and the
\* cascade of remove.)
PostsAreTold ==
  /\ activities = comments \cup attachments
  /\ live \/ activities = {}

\* An attachment is audited, whatever becomes of the transaction that adds it;
\* the record of one that is rolled back stays.
AttachmentsAudited == attachments \subseteq log

\* The timeline that findOne answers tells every comment it answers, though it
\* is read later, unless the ticket is deleted meanwhile.
TimelineKeepsUp ==
  \A w \in Workers : At(w, "answer") /\ live => req[w].comments \subseteq req[w].activities

\* Timeline, posts and audit log agree, for who asks and in the tables.
TimelineIsWhole == PostsAreTold /\ AttachmentsAudited /\ TimelineKeepsUp
=============================================================================
