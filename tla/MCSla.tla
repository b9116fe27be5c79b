------------------------------- MODULE MCSla -------------------------------
(***************************************************************************)
(* Small instances of Sla.                                                 *)
(***************************************************************************)
EXTENDS Sla, TLC

Fixed == {[active |-> TRUE, response |-> 2, resolution |-> 3]}
Symmetry == Permutations(Workers)
OnOff == Fixed \cup {[active |-> FALSE, response |-> 2, resolution |-> 3]}

\* A run reads nothing more of the tickets it has evaluated.
Pending(Kept(_)) == [w \in Workers |-> [req[w] EXCEPT
  !.rows = [t \in req[w].todo |-> @[t]],
  !.seen = [t \in {u \in Tickets : u \in req[w].todo \cup {req[w].tk}} |-> Kept(@[t])]]]

\* What a run looks at whose properties say nothing of the records: nothing
\* reads them.
WithoutRecords ==
  LET Kept(row) == row IN <<now, policies, tickets, tracking, Pending(Kept)>>

\* What a run looks at whose properties say nothing of the deadlines stored in a
\* tracking: the engine computes them anew, and a resumption only moves them.
WithChanges ==
  LET Kept(row) == [row EXCEPT !.response = Nil, !.resolution = Nil]
  IN  <<now, policies, tickets, [t \in Tickets |-> Kept(tracking[t])], Pending(Kept), told, log>>
=============================================================================
