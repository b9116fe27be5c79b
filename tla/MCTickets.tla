----------------------------- MODULE MCTickets -----------------------------
(***************************************************************************)
(* Small instances of Tickets. Workers, approvals and tickets are          *)
(* interchangeable, and so are the users that are not administrators.      *)
(***************************************************************************)
EXTENDS TicketsRefinement, TLC

Symmetry == Permutations(Workers) \cup Permutations(Approvals)
            \cup Permutations(Staff \ Admins)

\* What a run looks at whose properties say nothing of the audit log: no
\* handler reads it, so states that differ in it alone behave alike.
WithoutLog == <<tickets, approvals, trail, req>>
=============================================================================
