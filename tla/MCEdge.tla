------------------------------- MODULE MCEdge -------------------------------
(***************************************************************************)
(* The parts around the desk that have to come to an end, in one run: the  *)
(* pool of connections, the search for a deadline, the development script, *)
(* the session and the screens of the portal. A behaviour picks its area   *)
(* and stays in it; the others rest in their initial state, in which none  *)
(* of the fair actions is enabled.                                         *)
(***************************************************************************)
EXTENDS Integers, Sequences, FiniteSets

CONSTANTS Jobs, PoolSize, Week, Hours, MaxMinutes, MaxDay, Tries, MaxIssued,
          Saves, Texts, MaxRev, Nil

VARIABLES area,
          pc, free, queue, open, lent, audited, kept,
          job,
          taken, main, processes, shuttingDown, code, first,
          server, stored, page, call, renewal, disturbed,
          rev, posted, cache, fetch, draft, save

\* Ports, the exit code of a failed server, and two tabs, one of which makes two
\* calls at a time while the other one only logs in (MCDesk has calls of both).
Ports == 1..3
Codes == {0, 2}
Tabs == {"t1", "t2"}
Calls == {<<"t1", 1>>, <<"t1", 2>>}

\* The portal comes with its proofs, for EdgeProofs to cite.
C == INSTANCE ConnectionPool
B == INSTANCE BusinessCalendar
D == INSTANCE DevOrchestrator WITH server <- processes
P == INSTANCE PortalProofs
S == INSTANCE Screens

Init ==
  /\ area \in {"pool", "calendar", "scripts", "portal", "screens"}
  /\ C!Init /\ B!Init /\ D!Init /\ P!Init /\ S!Init

AllPool == <<pc, free, queue, open, lent, audited, kept>>
AllCalendar == <<job>>
AllScripts == <<taken, main, processes, shuttingDown, code, first>>
AllPortal == <<server, stored, page, call, renewal, disturbed>>
AllScreens == <<rev, posted, cache, fetch, draft, save>>
vars == <<area, AllPool, AllCalendar, AllScripts, AllPortal, AllScreens>>

Next ==
  \/ /\ area = "pool" /\ C!Next
     /\ UNCHANGED <<area, AllCalendar, AllScripts, AllPortal, AllScreens>>
  \/ /\ area = "calendar" /\ B!Next
     /\ UNCHANGED <<area, AllPool, AllScripts, AllPortal, AllScreens>>
  \/ /\ area = "scripts" /\ D!Next
     /\ UNCHANGED <<area, AllPool, AllCalendar, AllPortal, AllScreens>>
  \/ /\ area = "portal" /\ P!Next
     /\ UNCHANGED <<area, AllPool, AllCalendar, AllScripts, AllScreens>>
  \/ /\ area = "screens" /\ S!Next
     /\ UNCHANGED <<area, AllPool, AllCalendar, AllScripts, AllPortal>>

Spec ==
  /\ Init /\ [][Next]_vars
  /\ C!Fairness /\ B!Fairness /\ D!Fairness /\ P!Fairness /\ S!Fairness

-----------------------------------------------------------------------------
\* The part that the behaviour is about keeps to its types; the others rest.
TypesOK ==
  CASE area = "pool" -> C!TypeOK
    [] area = "calendar" -> B!TypeOK
    [] area = "scripts" -> D!TypeOK
    [] area = "portal" -> P!TypeOK
    [] area = "screens" -> S!TypeOK

\* Transactions leave the pool as it was, and a record of what they did.
TransactionsAddUp == C!TransactionsAddUp

\* A deadline lies as many open minutes away as the policy says.
DeadlineCounts == B!DeadlineCounts

\* The servers get ports of their own and are stopped in order.
ScriptIsTidy == D!ScriptIsTidy

\* A screen shows the effect of what was saved, and keeps what was not.
ScreenHolds == S!ScreenHolds

\* What has begun ends: handlers that wait for connections, the search for a
\* deadline, the script, the calls of a page, the saves of a screen.
WorkEnds ==
  C!HandlersEnd /\ B!SearchEnds /\ D!ScriptSettles /\ P!CallsEnd /\ S!SavesEnd
=============================================================================
