----------------------------- MODULE Knowledge -----------------------------
(***************************************************************************)
(* The knowledge base: articles with a slug made of their title, drafts    *)
(* that only the staff sees, and comments. A slug is looked up before it   *)
(* is written, so two writers may find the same one free; the unique index *)
(* of the table then refuses the second.                                   *)
(* The audit record that follows each write is left out: nothing here      *)
(* reads it (Tickets has one that can go astray).                          *)
(***************************************************************************)
CONSTANTS Workers, Articles, Titles, Suffixes, Admins, Agents, Requesters, Nil

(***************************************************************************)
(* articles[a] is the row; a slug is <<title, suffix>>, the suffix being   *)
(* Nil for the title alone. comments are pairs of an article and the       *)
(* requester who commented on it, and shown is the set of articles that    *)
(* have been public at some time.                                          *)
(***************************************************************************)
VARIABLES articles, comments, shown, req

vars == <<articles, comments, shown, req>>

Staff == Admins \cup Agents
People == Staff \cup Requesters
Slugs == Titles \X (Suffixes \cup {Nil})

NoArticle == [live |-> FALSE, slug |-> Nil, author |-> Nil, isPublished |-> FALSE,
              publishedAt |-> FALSE]
Article == [live : BOOLEAN, slug : Slugs \cup {Nil}, author : Staff \cup {Nil},
            isPublished : BOOLEAN, publishedAt : BOOLEAN]

\* A request: the article it writes (for a creation, the new key), the title
\* and the publication it asks for, and the slug it has found free.
Request == [pc : {"idle", "base", "suffix", "insert", "update", "comment"},
            new : BOOLEAN, article : Articles \cup {Nil}, by : People \cup {Nil},
            title : Titles \cup {Nil}, publish : BOOLEAN \cup {Nil},
            slug : Slugs \cup {Nil}]
Idle == [pc |-> "idle", new |-> FALSE, article |-> Nil, by |-> Nil, title |-> Nil,
         publish |-> Nil, slug |-> Nil]

Live == {a \in Articles : articles[a].live}
Taken(slug, except) == \E a \in Live \ except : articles[a].slug = slug

At(w, pc) == req[w].pc = pc
Arrive(w, r) == At(w, "idle") /\ req' = [req EXCEPT ![w] = r]
Finish(w) == req' = [req EXCEPT ![w] = Idle]

Init ==
  /\ articles = [a \in Articles |-> NoArticle]
  /\ comments = {} /\ shown = {}
  /\ req = [w \in Workers |-> Idle]

-----------------------------------------------------------------------------
Create(w, a, p, t, publish) ==
  /\ a \notin Live /\ \A v \in Workers : req[v].article # a
  /\ Arrive(w, [Idle EXCEPT !.pc = "base", !.new = TRUE, !.article = a, !.by = p,
                            !.title = t, !.publish = publish])
  /\ UNCHANGED <<articles, comments, shown>>

\* An agent edits only what it wrote. Without a title the slug stays.
Update(w, a, p, t, publish) ==
  /\ a \in Live
  /\ p \in Agents => articles[a].author = p
  /\ Arrive(w, [Idle EXCEPT !.pc = IF t = Nil THEN "update" ELSE "base", !.article = a,
                            !.title = t, !.publish = publish])
  /\ UNCHANGED <<articles, comments, shown>>

Write(w) == IF req[w].new THEN "insert" ELSE "update"
Found(w, slug) == req' = [req EXCEPT ![w].pc = Write(w), ![w].slug = slug]

\* The article under edit does not stand in its own way.
Others(w) == IF req[w].new THEN {} ELSE {req[w].article}

TryBase(w) ==
  LET base == <<req[w].title, Nil>> IN
  /\ At(w, "base")
  /\ IF Taken(base, Others(w)) THEN req' = [req EXCEPT ![w].pc = "suffix"]
     ELSE Found(w, base)
  /\ UNCHANGED <<articles, comments, shown>>

\* A random suffix; if it is taken, another one that nobody looks up.
TrySuffix(w) ==
  /\ At(w, "suffix")
  /\ \E x, y \in Suffixes :
       LET first == <<req[w].title, x>> IN
       Found(w, IF Taken(first, Others(w)) THEN <<req[w].title, y>> ELSE first)
  /\ UNCHANGED <<articles, comments, shown>>

Shown(a) == shown' = IF articles'[a].isPublished THEN shown \cup {a} ELSE shown

InsertUnindexed(w) ==  \* Fault: no unique index on the slug
  LET r == req[w] IN
  /\ At(w, "insert")
  /\ articles' = [articles EXCEPT ![r.article] =
       [live |-> TRUE, slug |-> r.slug, author |-> r.by, isPublished |-> r.publish,
        publishedAt |-> r.publish]]
  /\ Shown(r.article)
  /\ Finish(w) /\ UNCHANGED comments

Insert(w) ==
  LET r == req[w] IN
  /\ At(w, "insert")
  /\ IF Taken(r.slug, {}) THEN UNCHANGED articles
     ELSE articles' = [articles EXCEPT ![r.article] =
            [live |-> TRUE, slug |-> r.slug, author |-> r.by, isPublished |-> r.publish,
             publishedAt |-> r.publish]]
  /\ Shown(r.article)
  /\ Finish(w) /\ UNCHANGED comments

EditedDate(row, r) ==  \* Fault: an article taken back keeps the date it had
  [row EXCEPT !.slug = IF r.title = Nil THEN @ ELSE r.slug,
              !.isPublished = IF r.publish = Nil THEN @ ELSE r.publish,
              !.publishedAt = IF r.publish = Nil THEN @ ELSE @ \/ r.publish]

\* The columns the request names. The date is there or not; which date it is,
\* the one the article had or the present, is left out.
Edited(row, r) ==
  [row EXCEPT !.slug = IF r.title = Nil THEN @ ELSE r.slug,
              !.isPublished = IF r.publish = Nil THEN @ ELSE r.publish,
              !.publishedAt = IF r.publish = Nil THEN @ ELSE r.publish]

UpdateRow(w) ==
  LET r == req[w] IN
  /\ At(w, "update")
  /\ IF r.title # Nil /\ Taken(r.slug, {r.article}) THEN UNCHANGED articles
     ELSE articles' = [articles EXCEPT ![r.article] = Edited(@, r)]
  /\ Shown(r.article)
  /\ Finish(w) /\ UNCHANGED comments

CommentBlindly(w, a, p) ==  \* Fault: without assertReadable
  /\ a \in Live
  /\ Arrive(w, [Idle EXCEPT !.pc = "comment", !.article = a, !.by = p])
  /\ UNCHANGED <<articles, comments, shown>>

\* The staff comments on any article; its comments are left out.
Comment(w, a, p) ==
  /\ a \in Live /\ articles[a].isPublished
  /\ Arrive(w, [Idle EXCEPT !.pc = "comment", !.article = a, !.by = p])
  /\ UNCHANGED <<articles, comments, shown>>

InsertComment(w) ==
  /\ At(w, "comment")
  /\ comments' = comments \cup {<<req[w].article, req[w].by>>}
  /\ Finish(w) /\ UNCHANGED <<articles, shown>>

Next == \E w \in Workers :
  \/ \E a \in Articles, p \in Staff, t \in Titles, publish \in BOOLEAN :
       Create(w, a, p, t, publish)
  \/ \E a \in Articles, p \in Staff, t \in Titles \cup {Nil}, publish \in BOOLEAN \cup {Nil} :
       Update(w, a, p, t, publish)
  \/ \E a \in Articles, p \in Requesters : Comment(w, a, p)
  \/ TryBase(w) \/ TrySuffix(w) \/ Insert(w) \/ UpdateRow(w) \/ InsertComment(w)

Spec == Init /\ [][Next]_vars

-----------------------------------------------------------------------------
\* Articles, comments and requests keep to their types.
TypeOK ==
  /\ articles \in [Articles -> Article]
  /\ comments \subseteq Articles \X Requesters
  /\ shown \subseteq Articles
  /\ req \in [Workers -> Request]

\* No two articles answer to one slug, though each writer looks the slug up
\* before another one writes it. (buildUniqueSlug and the unique index.)
SlugsUnique ==
  \A a, b \in Live : a # b => articles[a].slug # articles[b].slug

\* A requester has commented only on articles that have been public, whatever
\* is published and taken back while comments are under way. (addComment checks
\* the article once, before the comment is inserted.)
RequestersSawIt == \A c \in comments : c[1] \in shown

\* An article is public exactly when it has a date of publication, also after
\* edits that were decided on an older row. (create, update.)
PublicIsDated == \A a \in Live : articles[a].isPublished = articles[a].publishedAt

\* The articles stay consistent under edits and comments that overlap.
ArticlesHold == SlugsUnique /\ RequestersSawIt /\ PublicIsDated
=============================================================================
