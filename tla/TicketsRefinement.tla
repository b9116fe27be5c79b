------------------------- MODULE TicketsRefinement -------------------------
(* The rows of Tickets seen as the rows of AtomicTickets. *)
EXTENDS Tickets

Atomic == INSTANCE AtomicTickets WITH tickets <- tickets, approvals <- approvals

\* Served one at a time, the requests change tickets and approvals as if each
\* were a single step: the read before the transaction, the count and the
\* second read inside it, and the commit add up to one decision on one state.
RequestsAreAtomic == Atomic!Spec
=============================================================================
