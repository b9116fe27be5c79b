-------------------------- MODULE KnowledgeProofs --------------------------
(***************************************************************************)
(* Proofs about Knowledge: for any number of writers, articles and titles, *)
(* slugs stay unique, publications dated, and comments where they may be.  *)
(***************************************************************************)
EXTENDS Knowledge, TLAPS

\* What a request holds at each point of its handler: who writes a row has asked
\* for what a row can be, and who is about to comment has seen the article.
Shape(r) ==
  /\ r \in Request
  /\ r.pc # "idle" => r.article \in Articles
  /\ r.pc \in {"base", "suffix"} => r.title \in Titles
  /\ r.pc \in {"base", "suffix"} /\ ~r.new => r.publish \in BOOLEAN \cup {Nil}
  /\ r.pc \in {"base", "suffix"} /\ r.new => r.publish \in BOOLEAN /\ r.by \in Staff
  /\ r.pc = "insert" => r.slug \in Slugs /\ r.publish \in BOOLEAN /\ r.by \in Staff
  /\ r.pc = "update" /\ r.title # Nil => r.slug \in Slugs
  /\ r.pc = "comment" => r.article \in shown /\ r.by \in Requesters

Types ==
  /\ articles \in [Articles -> Article]
  /\ comments \subseteq Articles \X Requesters
  /\ shown \subseteq Articles
  /\ req \in [Workers -> Request]

Inv ==
  /\ Types
  /\ \A w \in Workers : Shape(req[w])
  /\ \A a \in Articles : articles[a].isPublished => a \in shown
  /\ ArticlesHold

-----------------------------------------------------------------------------
LEMMA Initially == Init => Inv
BY DEF Init, Inv, Types, Shape, Idle, Request, NoArticle, Article, Live, ArticlesHold,
       SlugsUnique, RequestersSawIt, PublicIsDated

\* A request that arrives or goes on leaves the rows alone.
LEMMA QuietStep ==
  ASSUME Inv, UNCHANGED <<articles, comments, shown>>,
         NEW w \in Workers, NEW r, req' = [req EXCEPT ![w] = r], Shape(r)
  PROVE  Inv'
<1>1. Shape(r)'
  BY DEF Shape
<1>2. Types' /\ \A v \in Workers : Shape(req[v])'
  BY <1>1 DEF Inv, Types, Shape
<1> QED
  BY <1>2 DEF Inv, Live, ArticlesHold, SlugsUnique, RequestersSawIt, PublicIsDated

LEMMA IdleIsShaped == Shape(Idle)
BY DEF Shape, Idle, Request

LEMMA CreateKeeps ==
  ASSUME Inv, NEW w \in Workers, NEW a \in Articles, NEW p \in Staff, NEW t \in Titles,
         NEW publish \in BOOLEAN, Create(w, a, p, t, publish)
  PROVE  Inv'
<1> DEFINE r == [Idle EXCEPT !.pc = "base", !.new = TRUE, !.article = a, !.by = p,
                             !.title = t, !.publish = publish]
<1>1. Shape(r)
  BY DEF Shape, Idle, Request, People
<1>2. req' = [req EXCEPT ![w] = r] /\ UNCHANGED <<articles, comments, shown>>
  BY DEF Create, Arrive
<1> QED
  BY <1>1, <1>2, QuietStep

LEMMA UpdateKeeps ==
  ASSUME Inv, NEW w \in Workers, NEW a \in Articles, NEW p \in Staff,
         NEW t \in Titles \cup {Nil}, NEW publish \in BOOLEAN \cup {Nil},
         Update(w, a, p, t, publish)
  PROVE  Inv'
<1> DEFINE r == [Idle EXCEPT !.pc = IF t = Nil THEN "update" ELSE "base", !.article = a,
                             !.title = t, !.publish = publish]
<1>1. Shape(r)
  BY DEF Shape, Idle, Request
<1>2. req' = [req EXCEPT ![w] = r] /\ UNCHANGED <<articles, comments, shown>>
  BY DEF Update, Arrive
<1> QED
  BY <1>1, <1>2, QuietStep

LEMMA CommentKeeps ==
  ASSUME Inv, NEW w \in Workers, NEW a \in Articles, NEW p \in Requesters, Comment(w, a, p)
  PROVE  Inv'
<1> DEFINE r == [Idle EXCEPT !.pc = "comment", !.article = a, !.by = p]
<1>1. a \in shown
  BY DEF Inv, Comment, Live
<1>2. Shape(r)
  BY <1>1 DEF Shape, Idle, Request, People
<1>3. req' = [req EXCEPT ![w] = r] /\ UNCHANGED <<articles, comments, shown>>
  BY DEF Comment, Arrive
<1> QED
  BY <1>2, <1>3, QuietStep

\* A slug is found for the title that was asked for.
LEMMA FoundKeeps ==
  ASSUME Inv, NEW w \in Workers, req[w].pc \in {"base", "suffix"},
         NEW slug \in Slugs, Found(w, slug), UNCHANGED <<articles, comments, shown>>
  PROVE  Inv'
<1> DEFINE r == [req[w] EXCEPT !.pc = Write(w), !.slug = slug]
<1>1. Shape(req[w]) /\ req[w] \in Request
  BY DEF Inv, Shape
<1>2. Shape(r)
  BY <1>1 DEF Shape, Request, Write
<1>3. req' = [req EXCEPT ![w] = r]
  BY <1>1 DEF Inv, Types, Found, Request
<1> QED
  BY <1>2, <1>3, QuietStep

LEMMA TryBaseKeeps ==
  ASSUME Inv, NEW w \in Workers, TryBase(w)
  PROVE  Inv'
<1> DEFINE base == <<req[w].title, Nil>>
<1>1. Shape(req[w]) /\ req[w].pc = "base" /\ UNCHANGED <<articles, comments, shown>>
  BY DEF Inv, TryBase, At
<1>2. base \in Slugs
  BY <1>1 DEF Shape, Slugs
<1>3. CASE Found(w, base)
  BY <1>1, <1>2, <1>3, FoundKeeps
<1>4. CASE req' = [req EXCEPT ![w].pc = "suffix"]
  <2> DEFINE r == [req[w] EXCEPT !.pc = "suffix"]
  <2>1. Shape(r)
    BY <1>1 DEF Shape, Request
  <2>2. req' = [req EXCEPT ![w] = r]
    BY <1>4 DEF Inv, Types, Request
  <2> QED
    BY <1>1, <2>1, <2>2, QuietStep
<1> QED
  BY <1>3, <1>4 DEF TryBase

LEMMA TrySuffixKeeps ==
  ASSUME Inv, NEW w \in Workers, TrySuffix(w)
  PROVE  Inv'
<1>1. Shape(req[w]) /\ req[w].pc = "suffix" /\ UNCHANGED <<articles, comments, shown>>
  BY DEF Inv, TrySuffix, At
<1>2. PICK x \in Suffixes, y \in Suffixes :
        Found(w, IF Taken(<<req[w].title, x>>, Others(w)) THEN <<req[w].title, y>>
                 ELSE <<req[w].title, x>>)
  BY DEF TrySuffix
<1>3. \A z \in Suffixes : <<req[w].title, z>> \in Slugs
  BY <1>1 DEF Shape, Slugs
<1> QED
  BY <1>1, <1>2, <1>3, FoundKeeps

-----------------------------------------------------------------------------
\* A row that is written is dated as it is published and answers to a slug that
\* no other article has.
LEMMA WrittenRow ==
  ASSUME Inv, NEW w \in Workers, NEW a \in Articles, NEW row \in Article,
         articles' = [articles EXCEPT ![a] = row], Shown(a), Finish(w), UNCHANGED comments,
         row.live => row.isPublished = row.publishedAt,
         row.live => \A b \in Live \ {a} : articles[b].slug # row.slug
  PROVE  Inv'
<1>1. articles' \in [Articles -> Article] /\ articles'[a] = row
      /\ \A b \in Articles \ {a} : articles'[b] = articles[b]
  BY DEF Inv, Types
<1>2. shown \subseteq shown' /\ shown' \subseteq Articles
      /\ (row.isPublished => a \in shown')
  BY <1>1 DEF Inv, Types, Shown
<1>3. Types'
  BY <1>1, <1>2, IdleIsShaped DEF Inv, Types, Finish, Shape
<1>4. \A v \in Workers : Shape(req[v])'
  BY <1>2, IdleIsShaped DEF Inv, Types, Finish, Shape, Idle
<1>5. (\A b \in Articles : articles[b].isPublished => b \in shown)'
  BY <1>1, <1>2 DEF Inv, Live
<1>6. ArticlesHold'
  <2>1. SlugsUnique'
    BY <1>1 DEF Inv, ArticlesHold, SlugsUnique, Live
  <2>2. RequestersSawIt'
    BY <1>2 DEF Inv, ArticlesHold, RequestersSawIt
  <2>3. PublicIsDated'
    BY <1>1 DEF Inv, ArticlesHold, PublicIsDated, Live
  <2> QED
    BY <2>1, <2>2, <2>3 DEF ArticlesHold
<1> QED
  BY <1>3, <1>4, <1>5, <1>6 DEF Inv

\* A row that is refused leaves the others as they are.
LEMMA RefusedRow ==
  ASSUME Inv, NEW w \in Workers, NEW a \in Articles,
         UNCHANGED <<articles, comments>>, Shown(a), Finish(w)
  PROVE  Inv'
<1>1. shown' = shown
  BY DEF Inv, Shown
<1> QED
  BY <1>1, IdleIsShaped, QuietStep DEF Finish

LEMMA InsertKeeps ==
  ASSUME Inv, NEW w \in Workers, Insert(w)
  PROVE  Inv'
<1> DEFINE r == req[w]
           row == [live |-> TRUE, slug |-> r.slug, author |-> r.by,
                   isPublished |-> r.publish, publishedAt |-> r.publish]
<1>1. r.pc = "insert" /\ Shape(r)
  BY DEF Inv, Insert, At
<1>2. r.article \in Articles /\ row \in Article
  BY <1>1 DEF Shape, Article
<1>3. Shown(r.article) /\ Finish(w) /\ UNCHANGED comments
  BY DEF Insert
<1>4. CASE Taken(r.slug, {})
  BY <1>2, <1>3, <1>4, RefusedRow DEF Insert
<1>5. CASE ~Taken(r.slug, {})
  <2>1. articles' = [articles EXCEPT ![r.article] = row]
    BY <1>5 DEF Insert
  <2>2. \A b \in Live \ {r.article} : articles[b].slug # row.slug
    BY <1>5 DEF Taken
  <2> QED
    BY <1>2, <1>3, <2>1, <2>2, WrittenRow
<1> QED
  BY <1>4, <1>5

LEMMA UpdateRowKeeps ==
  ASSUME Inv, NEW w \in Workers, UpdateRow(w)
  PROVE  Inv'
<1> DEFINE r == req[w]
           a == r.article
           row == Edited(articles[a], r)
<1>1. r.pc = "update" /\ Shape(r) /\ r \in Request
  BY DEF Inv, UpdateRow, At, Shape
<1>2. a \in Articles /\ articles[a] \in Article
  BY <1>1 DEF Inv, Types, Shape
<1>3. row \in Article
  BY <1>1, <1>2 DEF Shape, Request, Article, Edited
<1>4. Shown(a) /\ Finish(w) /\ UNCHANGED comments
  BY DEF UpdateRow
<1>5. CASE r.title # Nil /\ Taken(r.slug, {a})
  BY <1>2, <1>4, <1>5, RefusedRow DEF UpdateRow
<1>6. CASE ~(r.title # Nil /\ Taken(r.slug, {a}))
  <2>1. articles' = [articles EXCEPT ![a] = row]
    BY <1>6 DEF UpdateRow
  <2>2. row.live = articles[a].live
        /\ row.slug = IF r.title = Nil THEN articles[a].slug ELSE r.slug
    BY <1>2 DEF Edited, Article
  <2>3. row.live => row.isPublished = row.publishedAt
    <3>1. articles[a].live => articles[a].isPublished = articles[a].publishedAt
      BY <1>2 DEF Inv, ArticlesHold, PublicIsDated, Live
    <3> QED
      BY <1>2, <2>2, <3>1 DEF Edited, Article
  <2>4. row.live => \A b \in Live \ {a} : articles[b].slug # row.slug
    <3>1. CASE r.title = Nil
      BY <1>2, <2>2, <3>1 DEF Inv, ArticlesHold, SlugsUnique, Live
    <3>2. CASE r.title # Nil
      BY <1>6, <2>2, <3>2 DEF Taken
    <3> QED
      BY <3>1, <3>2
  <2> HIDE DEF row, a
  <2>5. a \in Articles /\ Shown(a)
    BY <1>2, <1>4
  <2> QED
    BY <1>3, <1>4, <2>1, <2>3, <2>4, <2>5, WrittenRow
<1> QED
  BY <1>5, <1>6

LEMMA InsertCommentKeeps ==
  ASSUME Inv, NEW w \in Workers, InsertComment(w)
  PROVE  Inv'
<1>1. req[w].article \in shown /\ req[w].article \in Articles /\ req[w].by \in Requesters
  BY DEF Inv, InsertComment, At, Shape
<1>2. Types' /\ \A v \in Workers : Shape(req[v])'
  BY <1>1, IdleIsShaped DEF Inv, Types, InsertComment, Finish, Shape
<1>3. ArticlesHold'
  BY <1>1 DEF Inv, ArticlesHold, SlugsUnique, RequestersSawIt, PublicIsDated, Live,
              InsertComment
<1> QED
  BY <1>2, <1>3 DEF Inv, InsertComment

LEMMA Keeps == Inv /\ [Next]_vars => Inv'
<1> SUFFICES ASSUME Inv, [Next]_vars PROVE Inv'
  OBVIOUS
<1>1. CASE UNCHANGED vars
  BY <1>1 DEF vars, Inv, Types, Shape, Live, ArticlesHold, SlugsUnique, RequestersSawIt,
              PublicIsDated
<1>2. ASSUME NEW w \in Workers, NEW a \in Articles, NEW p \in Staff,
             NEW t \in Titles, NEW publish \in BOOLEAN, Create(w, a, p, t, publish)
      PROVE  Inv'
  BY <1>2, CreateKeeps
<1>3. ASSUME NEW w \in Workers, NEW a \in Articles, NEW p \in Staff,
             NEW t \in Titles \cup {Nil}, NEW publish \in BOOLEAN \cup {Nil},
             Update(w, a, p, t, publish)
      PROVE  Inv'
  BY <1>3, UpdateKeeps
<1>4. ASSUME NEW w \in Workers, NEW a \in Articles, NEW p \in Requesters, Comment(w, a, p)
      PROVE  Inv'
  BY <1>4, CommentKeeps
<1>5. ASSUME NEW w \in Workers,
             TryBase(w) \/ TrySuffix(w) \/ Insert(w) \/ UpdateRow(w) \/ InsertComment(w)
      PROVE  Inv'
  BY <1>5, TryBaseKeeps, TrySuffixKeeps, InsertKeeps, UpdateRowKeeps, InsertCommentKeeps
<1> QED
  BY <1>1, <1>2, <1>3, <1>4, <1>5 DEF Next

-----------------------------------------------------------------------------
\* The inductive invariant: what writers hold, what is shown, and the property.
THEOREM Invariant == Spec => []Inv
BY Initially, Keeps, PTL DEF Spec

\* Articles, comments and requests keep to their types.
THEOREM TypeCorrect == Spec => []TypeOK
<1>1. Inv => TypeOK
  BY DEF Inv, Types, TypeOK
<1> QED
  BY <1>1, Invariant, PTL

\* Slugs are unique, publications dated, and requesters have commented only on what
\* has been public, for any number of overlapping requests.
THEOREM ArticlesAreConsistent == Spec => []ArticlesHold
<1>1. Inv => ArticlesHold
  BY DEF Inv
<1> QED
  BY <1>1, Invariant, PTL
=============================================================================
