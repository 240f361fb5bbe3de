-------------------------------- MODULE Task --------------------------------
(***************************************************************************)
(* The schedule of a task: tasktracker::Task::occurs and what it calls     *)
(* (src/lib/task.cpp).  Pure: nothing here has state.                      *)
(***************************************************************************)
EXTENDS Calendar

\* enum RepeatType; "Other" is any number that names none of them, which the
\* code casts to a RepeatType without a check.
RepeatTypes ==
    {"NoRepeat", "Monthly", "MonthlyDay", "SpecifiedDays", "WithInterval", "Other"}

\* Mutant of NthWeekdayOfMonth: week - 1 is taken for week.
WeekdayOneWeekLate(wday, week, day) ==
    LET first == mktime([day EXCEPT !.mday = 1, !.hour = 0])
        steps == CHOOSE k \in 0..6 : localtime(first + 24 * k).wday = wday
    IN  localtime(first + 24 * (steps + 7 * week))

(***************************************************************************)
(* s_get_nth_weekday_of_month: walk in steps of 24 hours from the first of *)
(* day's month at hour 0, with day's own tm_isdst, to the first time that  *)
(* falls on wday; then go on by whole weeks.  The walk has at most seven   *)
(* steps: one of the lost or won hours is not enough to miss a weekday     *)
(* twice.                                                                  *)
(***************************************************************************)
NthWeekdayOfMonth(wday, week, day) ==
    LET first == mktime([day EXCEPT !.mday = 1, !.hour = 0])
        On(k) == localtime(first + 24 * k).wday = wday
        steps == CHOOSE k \in 0..7 : On(k) /\ \A j \in 0..(k - 1) : ~On(j)
    IN  localtime(first + 24 * steps + (week - 1) * 7 * 24)

OccursMonthly(task, day) == day.mday = task.repeat_info

\* Only tm_mday of the date found is compared with the day asked for.
OccursMonthlyDay(task, day) ==
    LET wday == (task.repeat_info % 10) % 7
        week == (task.repeat_info \div 10) % 10
    IN  /\ day.wday = wday
        /\ day.mday = NthWeekdayOfMonth(wday, week, day).mday

OccursOnce(task, day) ==
    LET start == localtime(task.scheduled_start)
    IN  start.mon = day.mon /\ start.mday = day.mday

\* The decimal digits of a number, the leading zeros left out.
Digits(n) == {(n \div 10^k) % 10 : k \in {j \in 0..9 : n \div 10^j > 0}}

\* 7 is Sunday, and so is 0.
OccursOnListedDay(task, day) ==
    \E d \in Digits(task.repeat_info) : d = day.wday \/ (d = 7 /\ day.wday = 0)

\* Mutant of StartDay: the hour is not set to zero.
StartHour(task) == mktime(localtime(task.scheduled_start))

\* Midnight of the first day, by the daylight saving flag of the first day.
StartDay(task) == mktime([localtime(task.scheduled_start) EXCEPT !.hour = 0])

\* Mutant of DaysSinceStart: the days that have begun are counted.
DaysBegun(task, day) == (mktime(day) - StartDay(task) + 23) \div 24

\* Whole days of 24 hours between that midnight and the time asked about.
DaysSinceStart(task, day) == (mktime(day) - StartDay(task)) \div 24

\* Mutant of OccursAtInterval: days before the first are not ruled out.
OccursBeforeStart(task, day) == DaysSinceStart(task, day) % task.repeat_info = 0

OccursAtInterval(task, day) ==
    /\ StartDay(task) <= mktime(day)
    /\ DaysSinceStart(task, day) % task.repeat_info = 0

\* val % repeat_info with repeat_info 0: the division traps and the process
\* dies.
Traps(task, day) ==
    /\ task.repeat_type = "WithInterval"
    /\ task.repeat_info = 0
    /\ StartDay(task) <= mktime(day)

\* Task::occurs(tm), where it does not trap.
Occurs(task, day) ==
    \/ task.repeat_type = "Monthly" /\ OccursMonthly(task, day)
    \/ task.repeat_type = "MonthlyDay" /\ OccursMonthlyDay(task, day)
    \/ task.repeat_type = "NoRepeat" /\ OccursOnce(task, day)
    \/ task.repeat_type = "SpecifiedDays" /\ OccursOnListedDay(task, day)
    \/ task.repeat_type = "WithInterval" /\ OccursAtInterval(task, day)

\* Mutant of OccursOnDate: the date is not normalised.
OccursOnBareDate(task, mon, mday) == Occurs(task, FromYmd(mon, mday))

\* Task::occurs(year_month_day): the date goes through mktime and localtime
\* first, which puts the weekday right.
OccursOnDate(task, mon, mday) ==
    Occurs(task, localtime(mktime(FromYmd(mon, mday))))

\* Task::get_scheduled_start_time, of which only the hour is kept.
ScheduledHour(task) == localtime(task.scheduled_start).hour

=============================================================================
