------------------------------- MODULE MCDesk -------------------------------
(***************************************************************************)
(* The parts of the service desk that share nothing but the database, on   *)
(* small instances and in one run: a behaviour picks its area and stays    *)
(* in it, and the others rest in their initial state.                      *)
(***************************************************************************)
EXTENDS Integers, Sequences, FiniteSets

CONSTANTS Workers, Users, Nil,
          Articles, Titles, Suffixes, Admins, Agents, Requesters,
          Notes, Readers, Services, Assets, Impacted, MaxRows, Everyone, PageSize,
          Posts, Priorities, Fellows, MaxRules, Names, MaxIssued

VARIABLES area,
          articles, remarks, shown, writing,
          notes, active, told, reading,
          services, assets, deps, links, attached, asking,
          owner, live, match, walk,
          standing, comments, attachments, activities, audits, posting,
          item, filling,
          rules, applied, logged, applying,
          calendars, defaults, creating, shared,
          server, stored, page, call, renewal, disturbed

\* Forms of two fields, one of which may be shown by the other, in either order,
\* and what is filled in.
T(s) == [kind |-> "string", text |-> s]
Values == {Nil, T(""), T(" "), T("05"), T("true"),
           [kind |-> "number", text |-> "5"], [kind |-> "boolean", text |-> "true"]}
Field(types, required, by, values) ==
  [type : types, required : required, showWhen : by, showValue : values]
Plain == Field({"TEXT", "NUMBER", "BOOLEAN", "DATE", "SELECT"}, BOOLEAN, {Nil}, {""})
ShownBy(i) == Field({"TEXT", "NUMBER"}, {TRUE}, {i}, {"", "0", "5", "true", "iso"})
Forms == (Plain \X ShownBy(1)) \cup (ShownBy(2) \X Plain)
Payloads == Values \X Values

\* Two tabs, one of which makes two calls at a time.
Tabs == {"t1", "t2"}
Calls == {<<"t1", 1>>, <<"t1", 2>>, <<"t2", 1>>}

\* The two parts with proofs of their own come with them, for DeskProofs to cite.
K == INSTANCE KnowledgeProofs WITH comments <- remarks, req <- writing
I == INSTANCE Inbox WITH req <- reading
C == INSTANCE Cmdb WITH Workers <- Readers, req <- asking
L == INSTANCE Listing
V == INSTANCE Conversation WITH live <- standing, log <- audits, req <- posting
F == INSTANCE Catalog WITH req <- filling
R == INSTANCE Rules WITH Users <- Fellows, activities <- applied, log <- logged, req <- applying
B == INSTANCE Calendars
P == INSTANCE PortalProofs

Init ==
  /\ area \in {"knowledge", "inbox", "cmdb", "lists", "conversation", "catalog", "rules",
               "calendars", "portal"}
  /\ K!Init /\ I!Init /\ C!Init /\ L!Init /\ V!Init /\ F!Init /\ R!Init /\ B!Init /\ P!Init

AllKnowledge == <<articles, remarks, shown, writing>>
AllInbox == <<notes, active, told, reading>>
AllCmdb == <<services, assets, deps, links, attached, asking>>
AllLists == <<owner, live, match, walk>>
AllConversation == <<standing, comments, attachments, activities, audits, posting>>
AllCatalog == <<item, filling>>
AllRules == <<rules, applied, logged, applying>>
AllCalendars == <<calendars, defaults, creating, shared>>
AllPortal == <<server, stored, page, call, renewal, disturbed>>

vars == <<area, AllKnowledge, AllInbox, AllCmdb, AllLists, AllConversation,
          AllCatalog, AllRules, AllCalendars, AllPortal>>

Next ==
  \/ /\ area = "knowledge" /\ K!Next
     /\ UNCHANGED <<area, AllInbox, AllCmdb, AllLists, AllConversation,
                    AllCatalog, AllRules, AllCalendars, AllPortal>>
  \/ /\ area = "inbox" /\ I!Next
     /\ UNCHANGED <<area, AllKnowledge, AllCmdb, AllLists, AllConversation,
                    AllCatalog, AllRules, AllCalendars, AllPortal>>
  \/ /\ area = "cmdb" /\ C!Next
     /\ UNCHANGED <<area, AllKnowledge, AllInbox, AllLists, AllConversation,
                    AllCatalog, AllRules, AllCalendars, AllPortal>>
  \/ /\ area = "lists" /\ L!Next
     /\ UNCHANGED <<area, AllKnowledge, AllInbox, AllCmdb, AllConversation,
                    AllCatalog, AllRules, AllCalendars, AllPortal>>
  \/ /\ area = "conversation" /\ V!Next
     /\ UNCHANGED <<area, AllKnowledge, AllInbox, AllCmdb, AllLists, AllCatalog,
                    AllRules, AllCalendars, AllPortal>>
  \/ /\ area = "catalog" /\ F!Next
     /\ UNCHANGED <<area, AllKnowledge, AllInbox, AllCmdb, AllLists,
                    AllConversation, AllRules, AllCalendars, AllPortal>>
  \/ /\ area = "rules" /\ R!Next
     /\ UNCHANGED <<area, AllKnowledge, AllInbox, AllCmdb, AllLists,
                    AllConversation, AllCatalog, AllCalendars, AllPortal>>
  \/ /\ area = "calendars" /\ B!Next
     /\ UNCHANGED <<area, AllKnowledge, AllInbox, AllCmdb, AllLists,
                    AllConversation, AllCatalog, AllRules, AllPortal>>
  \/ /\ area = "portal" /\ P!Next
     /\ UNCHANGED <<area, AllKnowledge, AllInbox, AllCmdb, AllLists,
                    AllConversation, AllCatalog, AllRules, AllCalendars>>

Spec == Init /\ [][Next]_vars

-----------------------------------------------------------------------------
\* The part that the behaviour is about keeps to its types; the others rest.
TypesOK ==
  CASE area = "knowledge" -> K!TypeOK
    [] area = "inbox" -> I!TypeOK
    [] area = "cmdb" -> C!TypeOK
    [] area = "lists" -> L!TypeOK
    [] area = "conversation" -> V!TypeOK
    [] area = "catalog" -> F!TypeOK
    [] area = "rules" -> R!TypeOK
    [] area = "calendars" -> B!TypeOK
    [] area = "portal" -> P!TypeOK

\* Articles, slugs and comments, under edits that overlap.
ArticlesHold == K!ArticlesHold

\* What was read is what the log says was read.
LogAgrees == I!LogAgrees

\* The impact of a ticket lies between what it was and what it is.
ImpactIsBetween == C!ImpactIsBetween

\* A walk through the pages of a list skips no row and shows none of others.
WalkIsExact == L!WalkIsExact

\* The timeline, the posts and the log of a ticket agree.
TimelineIsWhole == V!TimelineIsWhole

\* A stored form is valid for who reads it.
StoredIsValid == F!StoredIsValid

\* Workflow rules act on the ticket as it was written, and are audited.
RulesHold == R!RulesHold

\* Two calendars are the default only after two creations at one time.
OneDefault == B!OneDefault

\* The browser keeps the session that the server keeps.
SessionSurvives == P!SessionSurvives
=============================================================================
