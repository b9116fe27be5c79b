------------------------------ MODULE Listing ------------------------------
(***************************************************************************)
(* Lists page by page. A reader asks for one page after the other until    *)
(* the answer says that it was the last; each page is read in two or three *)
(* statements, and rows are added, edited and deleted all the while.       *)
(***************************************************************************)
EXTENDS Integers, Sequences, FiniteSets

CONSTANTS MaxRows, Users, Everyone, PageSize

(***************************************************************************)
(* Rows are numbered in the order of their creation dates, which differ.   *)
(* owner lists the requester of each row ever opened, live are the rows    *)
(* that exist, match those that the filter of the query accepts. walk is   *)
(* the reader: a requester, or Everyone for the staff, who see all rows.   *)
(***************************************************************************)
VARIABLES owner, live, match, walk

rows == <<owner, live, match>>
vars == <<rows, walk>>

\* Tickets are searched by "contains" or by full text; the audit log, the
\* notifications and the articles are read in one batch. A priority in front of
\* the date is left out: within one priority the order is newest first.
Mode == {"contains", "fts", "batch"}
Sort == {"CREATED_DESC", "CREATED_ASC"}
Id == 1..MaxRows

\* before holds the rows the walk has to show: those that were there when it began.
Walk == [pc : {"idle", "count", "rows", "ids", "fetch", "total", "end"},
         mode : Mode, sort : Sort, who : Users \cup {Everyone}, page : 1..(MaxRows + 1),
         total : 0..MaxRows, ids : SUBSET Id, seen : SUBSET Id, before : SUBSET Id]
Idle == [pc |-> "idle", mode |-> "contains", sort |-> "CREATED_DESC", who |-> Everyone,
         page |-> 1, total |-> 0, ids |-> {}, seen |-> {}, before |-> {}]

\* The rows of the query, and the place of one of them in its order: how many come
\* before it.
Where(who) == {id \in live \cap match : who = Everyone \/ owner[id] = who}
Precedes(sort, a, b) == IF sort = "CREATED_ASC" THEN a < b ELSE a > b
Place(sort, who, id) == Cardinality({other \in Where(who) : Precedes(sort, other, id)})

AtLeastOne(n) == IF n < 1 THEN 1 ELSE n
Least(a, b) == IF a < b THEN a ELSE b
Total(who) == Cardinality(Where(who))
TotalPages(total) == AtLeastOne((total + PageSize - 1) \div PageSize)

SkipOne(page) == (page - 1) * PageSize + 1  \* Fault: off by one
Skip(page) == (page - 1) * PageSize
Slice(sort, who, page) ==
  {id \in Where(who) : Place(sort, who, id) \in Skip(page)..(Skip(page) + PageSize - 1)}

Init ==
  /\ owner = <<>> /\ live = {} /\ match = {}
  /\ walk = Idle

-----------------------------------------------------------------------------
\* Something happens that may keep a row from being shown: from now on the walk has
\* to show none.
Disturb(when) ==
  walk' = IF when /\ walk.pc \notin {"idle", "end"}
          THEN [walk EXCEPT !.before = {}] ELSE walk

\* The new row is the newest. Newest first, it moves the others down; between
\* the count of a page and its rows it moves one beyond the pages counted.
Open(u, accepted) ==
  LET id == Len(owner) + 1 IN
  /\ id \in Id
  /\ owner' = Append(owner, u)
  /\ live' = live \cup {id}
  /\ match' = IF accepted THEN match \cup {id} ELSE match
  /\ Disturb(walk.mode # "batch" /\ walk.pc \in {"rows", "ids"} /\ walk.sort # "CREATED_ASC")

Delete(id) ==
  /\ id \in live
  /\ live' = live \ {id} /\ match' = match \ {id}
  /\ Disturb(TRUE) /\ UNCHANGED owner

EditRequester(id) ==  \* Fault: an edit hands the ticket to another requester
  /\ id \in live
  /\ \E u \in Users : owner' = [owner EXCEPT ![id] = u]
  /\ Disturb(TRUE) /\ UNCHANGED <<live, match>>

\* An edit may take the row in or out of the filter; its requester stays.
Edit(id) ==
  /\ id \in live
  /\ match' = IF id \in match THEN match \ {id} ELSE match \cup {id}
  /\ Disturb(TRUE) /\ UNCHANGED <<owner, live>>

-----------------------------------------------------------------------------
FindAll(mode, sort, who) ==
  /\ walk.pc = "idle"
  /\ walk' = [Idle EXCEPT !.pc = IF mode = "batch" THEN "rows" ELSE "count",
                !.mode = mode, !.sort = sort, !.who = who, !.before = Where(who)]
  /\ UNCHANGED rows

\* Where the walk goes after a page: on, or to its end.
Turn(w) ==
  IF w.page < TotalPages(w.total)
  THEN [w EXCEPT !.page = @ + 1, !.ids = {}, !.total = 0,
                 !.pc = IF w.mode = "batch" THEN "rows" ELSE "count"]
  ELSE [w EXCEPT !.pc = "end", !.ids = {}, !.total = 0]

\* The count bounds the page that is asked for, not the rows that are read. A full
\* text search that counts none looks no further.
Count ==
  LET total == Total(walk.who)
      w == [walk EXCEPT !.total = total, !.page = Least(@, TotalPages(total))]
  IN
  /\ walk.pc = "count"
  /\ walk' = IF walk.mode = "contains" THEN [w EXCEPT !.pc = "rows"]
             ELSE IF total = 0 THEN Turn(w)
             ELSE [w EXCEPT !.pc = "ids"]
  /\ UNCHANGED rows

Show(w, ids) == [w EXCEPT !.seen = @ \cup ids]

FindRows ==
  LET page == Slice(walk.sort, walk.who, walk.page) IN
  /\ walk.pc = "rows"
  /\ walk' = IF walk.mode = "batch" THEN [Show(walk, page) EXCEPT !.pc = "total"]
             ELSE Turn(Show(walk, page))
  /\ UNCHANGED rows

\* In a batch the count comes after the rows, each statement with its own view.
CountBatch ==
  /\ walk.pc = "total"
  /\ walk' = Turn([walk EXCEPT !.total = Total(walk.who)])
  /\ UNCHANGED rows

FindIds ==
  /\ walk.pc = "ids"
  /\ walk' = [walk EXCEPT !.ids = Slice(walk.sort, walk.who, walk.page),
                          !.pc = "fetch"]
  /\ UNCHANGED rows

\* The rows under these ids, whether they still match or not.
FindByIds ==
  /\ walk.pc = "fetch"
  /\ walk' = Turn(Show(walk, walk.ids \cap live))
  /\ UNCHANGED rows

Close == walk.pc = "end" /\ walk' = Idle /\ UNCHANGED rows

Next ==
  \/ \E u \in Users, accepted \in BOOLEAN : Open(u, accepted)
  \/ \E id \in Id : Delete(id) \/ Edit(id)
  \/ \E mode \in Mode, sort \in Sort, who \in Users \cup {Everyone} : FindAll(mode, sort, who)
  \/ Count \/ FindRows \/ CountBatch \/ FindIds \/ FindByIds \/ Close

Spec == Init /\ [][Next]_vars

-----------------------------------------------------------------------------
\* Rows and the walk keep to their types; what matches exists.
TypeOK ==
  /\ owner \in Seq(Users) /\ Len(owner) =< MaxRows
  /\ live \subseteq 1..Len(owner) /\ match \subseteq live
  /\ walk \in Walk

\* A walk to the last page shows every row that was there when it began, however
\* many rows are added between its pages, newest or oldest first, as long as no
\* row is deleted or edited meanwhile. The lists that count after they read bear
\* additions between the statements of a page too; tickets count first, and
\* newest first they do not. (The clamped page, the ways to read it, the end.)
NothingSkipped == walk.pc = "end" => walk.before \subseteq walk.seen

\* A requester is shown only its own tickets, also by the full text search, whose
\* last statement reads the ids it found without asking again whose they are.
OwnOnly == walk.who # Everyone => \A id \in walk.seen : owner[id] = walk.who

\* A walk through a list shows all that its reader should see, and no more.
WalkIsExact == NothingSkipped /\ OwnOnly
=============================================================================
