---------------------------- MODULE MCAccounts ----------------------------
(***************************************************************************)
(* A small instance of Accounts that serves one request at a time or two.  *)
(***************************************************************************)
EXTENDS Accounts, Integers, FiniteSets, TLC

VARIABLE load

Symmetry == Permutations(Workers) \cup Permutations(Emails) \cup Permutations(Passwords)

\* No action reads the records. LogoutHolds looks at the last session record,
\* with a load of 1; AuthorityTraced asks who was promoted, by whom, and whether
\* a bootstrap is among the records.
WithoutRecords ==
  <<users, held, req, load, IF load = 1 THEN latest ELSE Nil,
    {g.to : g \in log}, {g.by : g \in log}, {g.action : g \in log}>>

Busy == {w \in Workers : ~At(w, "idle")}

MCInit == Init /\ load \in 1..2
MCNext == Next /\ Cardinality(Busy') =< load /\ UNCHANGED load
MCSpec == MCInit /\ [][MCNext]_<<vars, load>>

\* Served one request at a time, a session that a logout has ended begins again
\* with a login only: none of the tokens sent before refreshes it. (logout clears
\* the hash that refresh asks for; a refresh under way during the logout writes a
\* new one back, which is why this takes a load of 1.)
LogoutHolds ==
  [][load = 1 => \A e \in Emails, w \in Workers :
       latest[e] = "out" /\ latest'[e] = "in" /\ At(w, "log") => req[w].ask = "login"]_vars
=============================================================================
