----------------------------- MODULE Calendars -----------------------------
(***************************************************************************)
(* Business calendars, one of which is meant to be the default. To create  *)
(* a default calendar is two statements: it takes the mark from the others *)
(* and inserts its own row.                                                *)
(***************************************************************************)
EXTENDS Integers, FiniteSets

CONSTANTS Workers, Names

(***************************************************************************)
(* calendars are the rows, defaults those marked; creating[w] is the row   *)
(* that w has cleared the way for. shared tells that two creations of a    *)
(* default have been under way at one time since the mark was last alone.  *)
(***************************************************************************)
VARIABLES calendars, defaults, creating, shared

vars == <<calendars, defaults, creating, shared>>

Busy == {w \in Workers : creating[w] # {}}
Free == Names \ (calendars \cup UNION {creating[w] : w \in Workers})

Init ==
  /\ calendars = {} /\ defaults = {}
  /\ creating = [w \in Workers |-> {}]
  /\ shared = FALSE

-----------------------------------------------------------------------------
\* Without the mark it is one statement.
CreateCalendar(c) ==
  /\ c \in Free
  /\ calendars' = calendars \cup {c}
  /\ UNCHANGED <<defaults, creating, shared>>

ClearNothing(w, c) ==  \* Fault: the mark is not taken from the others
  /\ creating[w] = {} /\ c \in Free
  /\ creating' = [creating EXCEPT ![w] = {c}]
  /\ shared' = (Busy # {})
  /\ UNCHANGED <<calendars, defaults>>

\* A fresh start: nobody else is creating a default.
ClearDefaults(w, c) ==
  /\ creating[w] = {} /\ c \in Free
  /\ defaults' = {}
  /\ creating' = [creating EXCEPT ![w] = {c}]
  /\ shared' = (Busy # {})
  /\ UNCHANGED calendars

InsertDefault(w) ==
  /\ creating[w] # {}
  /\ calendars' = calendars \cup creating[w]
  /\ defaults' = defaults \cup creating[w]
  /\ creating' = [creating EXCEPT ![w] = {}]
  /\ UNCHANGED shared

\* The process stops, or the database refuses, between the two statements.
Fail(w) ==
  /\ creating[w] # {}
  /\ creating' = [creating EXCEPT ![w] = {}]
  /\ UNCHANGED <<calendars, defaults, shared>>

Next ==
  \/ \E c \in Names : CreateCalendar(c)
  \/ \E w \in Workers, c \in Names : ClearDefaults(w, c)
  \/ \E w \in Workers : InsertDefault(w) \/ Fail(w)

Spec == Init /\ [][Next]_vars

-----------------------------------------------------------------------------
\* Rows and creations keep to their types.
TypeOK ==
  /\ calendars \subseteq Names /\ defaults \subseteq calendars
  /\ creating \in [Workers -> SUBSET Names]
  /\ shared \in BOOLEAN

\* There are two defaults only when two were created at one time, and the next
\* creation on its own leaves one again; while one is created there is none, and
\* when it fails there is none after it. (createCalendar has no transaction.)
OneDefault == ~shared => Cardinality(defaults) =< 1
=============================================================================
