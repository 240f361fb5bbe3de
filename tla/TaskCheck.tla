----------------------------- MODULE TaskCheck ------------------------------
(***************************************************************************)
(* What Task::occurs answers, hour by hour, against what task_data.h says  *)
(* a repeat type means.  The listing is asked at any hour: the application *)
(* passes localtime of the moment the user looks at a day.                 *)
(***************************************************************************)
EXTENDS Task

CONSTANTS
    Tasks,      \* schedules to examine
    FirstHour,  \* bounds of the clock
    LastHour,
    DaysAhead   \* bound: how far the list is browsed

ASSUME TasksAssumption ==
    /\ FirstHour \in Nat
    /\ LastHour \in Nat
    /\ FirstHour <= LastHour
    /\ \A t \in FirstHour..LastHour : Covered(t)
    /\ DaysAhead \in Nat
    /\ \A t \in Tasks : /\ t.repeat_type \in RepeatTypes
                        /\ t.repeat_info \in Nat
                        /\ Covered(t.scheduled_start)

VARIABLES
    task,  \* the schedule under examination
    now    \* the time the listing is asked

vars == <<task, now>>

Init ==
    /\ task \in Tasks
    /\ now = FirstHour

\* The clock runs from FirstHour to LastHour and starts again.
Tick ==
    /\ now' = IF now < LastHour THEN now + 1 ELSE FirstHour
    /\ UNCHANGED task

Next == Tick

Spec == Init /\ [][Next]_vars

-----------------------------------------------------------------------------

OccursNow == Occurs(task, localtime(now))

\* The days on which a WithInterval task is due, counted in calendar days.
DueByInterval ==
    LET start == DayOf(task.scheduled_start)
    IN  /\ start <= DayOf(now)
        /\ (DayOf(now) - start) % task.repeat_info = 0

\* "If repeat_info is e.g. 10, the event happens every 10 days": a task with
\* an interval occurs on its first day, on every repeat_info-th day after it
\* and on no other day, whatever the hour the list is asked for.
IntervalEveryNthDay ==
    task.repeat_type = "WithInterval" => (OccursNow <=> DueByInterval)

\* The same with the clock between one and eleven in the evening: the answer
\* for those hours is right even across the changes to and from daylight
\* saving time, which move the start of a day by one hour.
IntervalAwayFromMidnight ==
    (task.repeat_type = "WithInterval" /\ localtime(now).hour \in 1..22)
        => (OccursNow <=> DueByInterval)

\* "If repeat_info is e.g. 25, repeats on the 5th day of the second week",
\* where the first week is the one with the first such day: tens are the
\* number of the weekday in its month and units the weekday.
MonthlyDayIsNthWeekday ==
    LET day == localtime(now)
    IN  task.repeat_type = "MonthlyDay" =>
            (OccursNow <=> /\ day.wday = (task.repeat_info % 10) % 7
                           /\ (day.mday - 1) \div 7 + 1 = task.repeat_info \div 10)

\* The two overloads of Task::occurs agree: the one that is given a date and
\* the one that is given localtime of any moment of that date.
OverloadsAgree ==
    LET day == localtime(now)
    IN  OccursNow <=> OccursOnDate(task, day.mon, day.mday)

\* A list looked at twice on one day shows the same tasks: the answer of
\* occurs does not change from one hour to the next before midnight.
SameAnswerAllDay ==
    DayOf(now + 1) = DayOf(now) =>
        (OccursNow <=> Occurs(task, localtime(now + 1)))

\* The day shown after some presses of next or previous, the first of them at
\* the present time.
Browsed(step(_), presses) ==
    LET date[n \in 0..presses] == IF n = 0 THEN now ELSE step(date[n - 1])
    IN  DayOf(date[presses])

\* Browsing from a look at the list between one and eleven in the evening
\* shows every day once, also across the days of 23 and 25 hours: each press
\* of next or previous goes to the neighbouring day.
BrowsingMissesNoDay ==
    localtime(now).hour \in 1..22 =>
        \A n \in 0..DaysAhead : /\ Browsed(nextDay, n) = DayOf(now) + n
                                /\ Browsed(previousDay, n) = DayOf(now) - n

=============================================================================
