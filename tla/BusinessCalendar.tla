-------------------------- MODULE BusinessCalendar --------------------------
(***************************************************************************)
(* The deadline of a policy that counts business hours: from an instant,   *)
(* the loop of addMinutesConsideringCalendar goes through the days until   *)
(* it has counted the minutes.                                             *)
(***************************************************************************)
EXTENDS Integers, FiniteSets

CONSTANTS Week, Hours, MaxMinutes, MaxDay

(***************************************************************************)
(* Instants are half minutes since the start of day 0 on the clock of the  *)
(* process; a day has Hours hours and an hour, in this scale, one minute.  *)
(* A holiday is a day of UTC, which is Ahead hours before the clock of the *)
(* process. job is one computation; MaxDay bounds its search.              *)
(***************************************************************************)
VARIABLE job

vars == <<job>>

Minute == 2
Hour == Minute
Day == Hours * Hour

\* What the service accepts as a calendar: any numbers for weekdays, of which only
\* 1..Week are ever looked for, and hours in any order.
Calendar == [openWeekdays : SUBSET (0..Week), startHour : 0..(Hours - 1), endHour : 1..Hours,
             holidays : SUBSET (1..2), ahead : 0..1]

Idle == [pc |-> "idle"]

Init == job = Idle

-----------------------------------------------------------------------------
DayOf(t) == t \div Day
DayOfUTC(cal, t) == (t + cal.ahead * Hour) \div Day
Weekday(t) == (DayOf(t) % Week) + 1
IsOpenDay(cal, t) ==
  Weekday(t) \in cal.openWeekdays /\ DayOfUTC(cal, t) \notin cal.holidays
DayStart(cal, t) == DayOf(t) * Day + cal.startHour * Hour
DayEnd(cal, t) == DayOf(t) * Day + cal.endHour * Hour
SameDay(cal, t) == DayStart(cal, t)  \* Fault: the date is not moved on
NextDay(cal, t) == DayStart(cal, t) + Day

StartJob ==
  /\ job.pc = "idle"
  /\ \E cal \in Calendar, start \in 0..(Day - 1), minutes \in 1..MaxMinutes :
       job' = [pc |-> "loop", cal |-> cal, start |-> start, minutes |-> minutes,
               cursor |-> start, remaining |-> minutes]

Later(t, u) == IF t < u THEN u ELSE t
Least(m, n) == IF m < n THEN m ELSE n

\* Minutes that the day still has from t on, rounded down.
AvailableUp(cal, t) == (DayEnd(cal, t) - t + 1) \div Minute  \* Fault: rounded up
Available(cal, t) == (DayEnd(cal, t) - t) \div Minute

\* One round of the loop: on to the next day, or count what this one has.
Loop ==
  LET cal == job.cal
      from == Later(job.cursor, DayStart(cal, job.cursor))
      consume == Least(job.remaining, Available(cal, from))
      closed == ~IsOpenDay(cal, job.cursor) \/ job.cursor >= DayEnd(cal, job.cursor)
  IN
  /\ job.pc = "loop" /\ job.remaining > 0 /\ DayOf(job.cursor) < MaxDay
  /\ job' = IF closed \/ Available(cal, from) =< 0
            THEN [job EXCEPT !.cursor = NextDay(cal, @)]
            ELSE [job EXCEPT !.cursor = from + consume * Minute, !.remaining = @ - consume]

Return ==
  /\ job.pc = "loop" /\ job.remaining = 0
  /\ job' = [job EXCEPT !.pc = "done"]

Forget == job.pc = "done" /\ job' = Idle

Next == StartJob \/ Loop \/ Return \/ Forget

\* The loop runs until it returns: it never waits for anything.
Fairness == WF_vars(Loop) /\ WF_vars(Return)

Spec == Init /\ [][Next]_vars
FairSpec == Spec /\ Fairness

-----------------------------------------------------------------------------
\* The job keeps to its type.
TypeOK ==
  \/ job = Idle
  \/ /\ job.pc \in {"loop", "done"}
     /\ job.cal \in Calendar
     /\ job.start \in 0..(Day - 1) /\ job.minutes \in 1..MaxMinutes
     /\ job.cursor \in job.start..((MaxDay + 1) * Day) /\ job.remaining \in 0..job.minutes

\* What the calendar means: an instant is open on an open day between the hours.
Open(cal, t) == IsOpenDay(cal, t) /\ DayStart(cal, t) =< t /\ t < DayEnd(cal, t)

\* The opening hours end before UTC has the next day, so that holidays are the
\* days the process means; the loop asks only once a day whether it is a holiday.
SameDays(cal) == cal.endHour + cal.ahead =< Hours

\* Between the start and the deadline lie the minutes of the policy and at most
\* a part of one more, lost when the first day closes; the deadline is never
\* early, and it comes at once after the last open instant.
DeadlineCounts ==
  job.pc = "done" /\ SameDays(job.cal) =>
    LET open == Cardinality({t \in job.start..(job.cursor - 1) : Open(job.cal, t)}) IN
    /\ open - job.minutes * Minute \in 0..(Minute - 1)
    /\ Open(job.cal, job.cursor - 1)

\* A calendar that opens at some time.
Opens(cal) == cal.openWeekdays \cap 1..Week # {} /\ cal.startHour < cal.endHour

\* The search ends, on every calendar that opens. On the others, which the service
\* accepts too, it does not, and the process is kept busy by it for ever.
Searching == job.pc = "loop" /\ Opens(job.cal)
SearchEnds == Searching ~> (job.pc = "done")
=============================================================================
