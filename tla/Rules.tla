------------------------------- MODULE Rules -------------------------------
(***************************************************************************)
(* The workflow rules that create and update apply to a ticket inside      *)
(* their transaction. The ticket is read once, before the first rule; what *)
(* the rules audit and notify is written on other connections and stays    *)
(* when the transaction is rolled back.                                    *)
(***************************************************************************)
EXTENDS Integers, Sequences, FiniteSetsExt

CONSTANTS Priorities, Users, MaxRules, Nil

(***************************************************************************)
(* rules are the rows in the order of their creation, activities the rules *)
(* that the timeline of the ticket tells were applied, log the audited     *)
(* rules. One request at a time writes the ticket, for it keeps the row    *)
(* locked: req is that request, req.row the columns as its transaction has *)
(* them, which is what Commit leaves.                                      *)
(***************************************************************************)
VARIABLES rules, activities, log, req

vars == <<rules, activities, log, req>>

Ticket == [priority : Priorities, assignee : Users \cup {Nil}]

\* Type, status and catalog item are matched like the priority, and the group
\* and the SLA policy are set like the assignee: one of each is enough.
Rule == [priorityEquals : Priorities \cup {Nil}, setPriority : Priorities \cup {Nil},
         assign : Users \cup {Nil}, notifyAssignee : BOOLEAN]
Number == 1..MaxRules

Request == [pc : {"idle", "match", "apply", "notify", "audit", "commit"},
            row : Ticket \cup {Nil}, original : Ticket \cup {Nil},
            matched : SUBSET Number, left : SUBSET Number, told : SUBSET Users]
Idle == [pc |-> "idle", row |-> Nil, original |-> Nil, matched |-> {}, left |-> {},
         told |-> {}]

Init ==
  /\ rules = <<>>
  /\ activities = {} /\ log = {}
  /\ req = Idle

-----------------------------------------------------------------------------
CreateWorkflowRule(r) ==
  /\ Len(rules) < MaxRules
  /\ rules' = Append(rules, r)
  /\ UNCHANGED <<activities, log, req>>

\* create inserts the row, or update writes what its caller asked for.
Write(t) ==
  /\ req.pc = "idle"
  /\ req' = [Idle EXCEPT !.pc = "match", !.row = t]
  /\ UNCHANGED <<rules, activities, log>>

Matches(r, t) == r.priorityEquals \in {t.priority, Nil}

\* All rules are matched with the ticket before any of them is applied.
Match ==
  LET found == {i \in DOMAIN rules : Matches(rules[i], req.row)} IN
  /\ req.pc = "match"
  /\ req' = [req EXCEPT !.pc = IF found = {} THEN "commit" ELSE "apply",
                        !.original = req.row, !.matched = found, !.left = found]
  /\ UNCHANGED <<rules, activities, log>>

Current == rules[Min(req.left)]

\* An action that asks for the value the ticket had before the rules is skipped,
\* also when an earlier rule has changed it.
Skips(value, column, t) == value \in {Nil, t[column]}

Applied(r, t, original) ==
  [priority |-> IF Skips(r.setPriority, "priority", original) THEN t.priority ELSE r.setPriority,
   assignee |-> IF Skips(r.assign, "assignee", original) THEN t.assignee ELSE r.assign]

ApplyMatching ==  \* Fault: a rule is matched with what the earlier ones have made of the ticket
  /\ req.pc = "apply"
  /\ req' = [req EXCEPT !.pc = "notify", !.row =
               IF Matches(Current, @) THEN Applied(Current, @, req.original) ELSE @]
  /\ UNCHANGED <<rules, activities, log>>

\* With the columns go the activity, which Commit shows, and a comment.
Apply ==
  /\ req.pc = "apply"
  /\ req' = [req EXCEPT !.pc = "notify", !.row = Applied(Current, @, req.original)]
  /\ UNCHANGED <<rules, activities, log>>

NotifyNew ==  \* Fault: the assignee that the rules have made is told
  /\ req.pc = "notify"
  /\ \E heard \in IF Current.notifyAssignee THEN SUBSET ({req.row.assignee} \ {Nil}) ELSE {{}} :
       req' = [req EXCEPT !.pc = "audit", !.told = @ \cup heard]
  /\ UNCHANGED <<rules, activities, log>>

\* Whoever was the assignee before the rules is told, if the broadcast finds the
\* account active. The administrators are told in the same way.
Notify ==
  /\ req.pc = "notify"
  /\ \E heard \in IF Current.notifyAssignee THEN SUBSET ({req.original.assignee} \ {Nil}) ELSE {{}} :
       req' = [req EXCEPT !.pc = "audit", !.told = @ \cup heard]
  /\ UNCHANGED <<rules, activities, log>>

\* On to the next rule; once all are applied the transaction commits.
Done == req.left \ {Min(req.left)}
NextRule == req' = [req EXCEPT !.left = Done, !.pc = IF Done = {} THEN "commit" ELSE "apply"]

AuditChanges ==  \* Fault: a rule that has changed nothing is not audited
  /\ req.pc = "audit"
  /\ log' = IF Applied(Current, req.original, req.original) = req.original THEN log
            ELSE log \cup {Min(req.left)}
  /\ NextRule
  /\ UNCHANGED <<rules, activities>>

Audit ==
  /\ req.pc = "audit"
  /\ log' = log \cup {Min(req.left)}
  /\ NextRule
  /\ UNCHANGED <<rules, activities>>

Commit ==
  /\ req.pc = "commit"
  /\ activities' = activities \cup req.matched
  /\ req' = Idle
  /\ UNCHANGED <<rules, log>>

\* The transaction took too long, a statement failed or the process stopped.
Rollback ==
  /\ req.pc # "idle"
  /\ req' = Idle
  /\ UNCHANGED <<rules, activities, log>>

Next ==
  \/ \E r \in Rule : CreateWorkflowRule(r)
  \/ \E t \in Ticket : Write(t)
  \/ Match \/ Apply \/ Notify \/ Audit \/ Commit \/ Rollback

Spec == Init /\ [][Next]_vars

-----------------------------------------------------------------------------
\* Rules, ticket and request keep to their types.
TypeOK ==
  /\ rules \in Seq(Rule) /\ Len(rules) =< MaxRules
  /\ activities \subseteq DOMAIN rules /\ log \subseteq DOMAIN rules
  /\ req \in Request

\* What the matched rules make of a column: the action of the last of them that
\* asks for something else than the ticket had, as if the others were not there.
Outcome(action, column) ==
  LET asking == {i \in req.matched : ~Skips(rules[i][action], column, req.original)} IN
  IF asking = {} THEN req.original[column] ELSE rules[Max(asking)][action]

\* The ticket that is committed has, column by column, what the rules that match
\* the ticket as written ask of it; that one rule changes a column that another
\* rule is about makes no difference. (The snapshot of applyWorkflowRules.)
RulesActOnTheSnapshot ==
  req.pc = "commit" /\ req.matched # {} =>
    /\ req.row.priority = Outcome("setPriority", "priority")
    /\ req.row.assignee = Outcome("assign", "assignee")

\* Who is told of the assignment had it when the request asked for it: whom a rule
\* puts in charge is told by no rule of the same request.
OnlyTheOldAssigneeIsTold ==
  req.pc = "commit" => req.told \subseteq {req.original.assignee}

\* Every rule that the timeline of the ticket tells is audited, though the audit
\* is not part of the transaction and an earlier try may have been rolled back.
AppliedAreAudited == activities \subseteq log

\* A request that is committed has been changed, told and audited as its rules ask.
RulesHold == RulesActOnTheSnapshot /\ OnlyTheOldAssigneeIsTold /\ AppliedAreAudited
=============================================================================
