--------------------------- MODULE ScheduleProofs ---------------------------
(***************************************************************************)
(* What occurs answers at every hour, for any schedules and any table of   *)
(* months.                                                                 *)
(***************************************************************************)
EXTENDS TaskCheck, CalendarProofs

-----------------------------------------------------------------------------

\* A schedule under examination, at an hour of the clock.
Examined ==
    /\ task \in Tasks
    /\ now \in FirstHour..LastHour

THEOREM ExaminedAlways == Spec => []Examined
<1>1. Init => Examined BY TasksAssumption DEF Init, Examined
<1>2. Examined /\ [Next]_vars => Examined'
  BY TasksAssumption DEF Examined, Next, Tick, vars
<1> QED BY <1>1, <1>2, PTL DEF Spec

LEMMA ExaminedCovered ==
  ASSUME Examined
  PROVE  /\ now \in Nat /\ Covered(now)
         /\ task.scheduled_start \in Nat /\ Covered(task.scheduled_start)
         /\ task.repeat_type \in RepeatTypes
         /\ task.repeat_info \in Nat
<1>1. now \in Nat /\ Covered(now) BY TasksAssumption DEF Examined
<1> QED BY <1>1, TasksAssumption DEF Examined, Covered

\* Of the alternatives of occurs only the one of the task's type is open.
LEMMA OccursByType ==
  ASSUME NEW t, NEW day
  PROVE  /\ t.repeat_type = "WithInterval" => (Occurs(t, day) <=> OccursAtInterval(t, day))
         /\ t.repeat_type = "MonthlyDay" => (Occurs(t, day) <=> OccursMonthlyDay(t, day))
<1>1. ASSUME t.repeat_type = "WithInterval"
      PROVE  /\ t.repeat_type # "Monthly" /\ t.repeat_type # "MonthlyDay"
             /\ t.repeat_type # "NoRepeat" /\ t.repeat_type # "SpecifiedDays"
  BY <1>1
<1>2. ASSUME t.repeat_type = "MonthlyDay"
      PROVE  /\ t.repeat_type # "Monthly" /\ t.repeat_type # "WithInterval"
             /\ t.repeat_type # "NoRepeat" /\ t.repeat_type # "SpecifiedDays"
  BY <1>2
<1> QED BY <1>1, <1>2, Zenon DEF Occurs

\* The answer for an interval is that of the calendar, when the two flags do
\* not carry the hour over midnight.
LEMMA DueWhenCounted ==
  ASSUME Examined, task.repeat_type = "WithInterval",
         (WallClock(now) % 24) + DstShift(IsDst(task.scheduled_start))
             - DstShift(IsDst(now)) \in 0..23
  PROVE  OccursNow <=> DueByInterval
<1>1. OccursNow <=> OccursAtInterval(task, localtime(now))
  BY OccursByType, Zenon DEF OccursNow
<1>2. OccursAtInterval(task, localtime(now)) <=>
          /\ DayOf(task.scheduled_start) <= DayOf(now)
          /\ (DayOf(now) - DayOf(task.scheduled_start)) % task.repeat_info = 0
  BY ExaminedCovered, IntervalByDays, Zenon
<1> QED BY <1>1, <1>2, Zenon DEF DueByInterval

\* In a zone without daylight saving time a task with an interval occurs on
\* every repeat_info-th day from its first, at every hour (Task::occurs).
THEOREM IntervalsByTheCalendar ==
  ASSUME FixedZone PROVE Spec => []IntervalEveryNthDay
<1>1. ASSUME Examined PROVE IntervalEveryNthDay
  <2>1. now \in Nat /\ task.scheduled_start \in Nat BY <1>1, ExaminedCovered
  <2>2. now \in Int /\ task.scheduled_start \in Int BY <2>1
  <2>3. DstShift(IsDst(now)) = 0 /\ DstShift(IsDst(task.scheduled_start)) = 0
    BY <2>2, FixedClock, Zenon DEF DstShift
  <2>4. WallClock(now) % 24 \in 0..23 BY <2>1, WallClockParts
  <2>5. ASSUME NEW h \in 0..23 PROVE h + 0 - 0 \in 0..23 OBVIOUS
  <2>6. (WallClock(now) % 24) + DstShift(IsDst(task.scheduled_start))
            - DstShift(IsDst(now)) \in 0..23
    BY <2>3, <2>4, <2>5, Zenon
  <2> QED BY <1>1, <2>6, DueWhenCounted, Zenon DEF IntervalEveryNthDay
<1> QED BY <1>1, ExaminedAlways, PTL

\* In any zone the same is true of a list looked at between one and eleven in
\* the evening: no change of the clock moves that hour into another day.
THEOREM IntervalsAwayFromMidnight == Spec => []IntervalAwayFromMidnight
<1>1. ASSUME Examined PROVE IntervalAwayFromMidnight
  <2> SUFFICES ASSUME task.repeat_type = "WithInterval", localtime(now).hour \in 1..22
               PROVE  OccursNow <=> DueByInterval
    BY Zenon DEF IntervalAwayFromMidnight
  <2>1. WallClock(now) % 24 \in 1..22 BY Zenon DEF localtime
  <2>2. ASSUME NEW h \in 1..22, NEW s \in {0, 1}, NEW r \in {0, 1} PROVE h + s - r \in 0..23
    OBVIOUS
  <2>3. (WallClock(now) % 24) + DstShift(IsDst(task.scheduled_start))
            - DstShift(IsDst(now)) \in 0..23
    <3>1. /\ DstShift(IsDst(task.scheduled_start)) \in {0, 1}
          /\ DstShift(IsDst(now)) \in {0, 1}
      BY ShiftType, Zenon
    <3> QED BY <2>1, <2>2, <3>1
  <2> QED BY <1>1, <2>3, DueWhenCounted, Zenon
<1> QED BY <1>1, ExaminedAlways, PTL

\* In a fixed zone a list shows the same tasks all day.
THEOREM AnswersLastAllDay ==
  ASSUME FixedZone PROVE Spec => []SameAnswerAllDay
<1>1. ASSUME Examined PROVE SameAnswerAllDay
  <2> SUFFICES ASSUME DayOf(now + 1) = DayOf(now)
               PROVE  OccursNow <=> Occurs(task, localtime(now + 1))
    BY Zenon DEF SameAnswerAllDay
  <2>1. now \in Nat /\ Covered(now) BY <1>1, ExaminedCovered
  <2>2. now + 1 \in Nat BY <2>1
  <2>3. Covered(now + 1) BY <2>1, <2>2, Zenon DEF Covered
  <2> QED BY <1>1, <2>1, <2>2, <2>3, ExaminedCovered, OccursByTheDay, Zenon DEF OccursNow
<1> QED BY <1>1, ExaminedAlways, PTL

\* In a fixed zone the overload for a date, which goes by way of midnight,
\* answers as the overload for a moment of that date does.
THEOREM OverloadsAlwaysAgree ==
  ASSUME FixedZone PROVE Spec => []OverloadsAgree
<1>1. ASSUME Examined PROVE OverloadsAgree
  <2> DEFINE d == DayOf(now)
             midnight == mktime(FromYmd(localtime(now).mon, localtime(now).mday))
  <2>1. now \in Nat /\ Covered(now) BY <1>1, ExaminedCovered
  <2>2. d \in Nat /\ d < MonthStart[Len(MonthStart)]
    BY <2>1, WallClockParts, Zenon DEF Covered
  <2>3. midnight = 24 * (MonthStart[MonthOf(d)] + (d - MonthStart[MonthOf(d)] + 1) - 1) + 0 - 0
    BY Zenon DEF mktime, FromYmd, localtime, DstShift
  <2>4. MonthStart[MonthOf(d)] \in Nat BY <2>2, MonthOfDay
  <2> HIDE DEF d, midnight
  <2>5. midnight = 24 * d
    <3>1. ASSUME NEW m \in Nat PROVE 24 * (m + (d - m + 1) - 1) + 0 - 0 = 24 * d
      BY <2>2
    <3> QED BY <2>3, <2>4, <3>1, Zenon
  <2>6. midnight \in Nat /\ DayOf(midnight) = d
    <3>1. 24 * d \in Nat /\ d \in Int BY <2>2
    <3> QED BY <2>5, <3>1, FixedMidnight, Zenon
  <2>7. Covered(midnight) BY <2>2, <2>6, Zenon DEF Covered
  <2>8. Occurs(task, localtime(now)) <=> Occurs(task, localtime(midnight))
    BY <1>1, <2>1, <2>6, <2>7, ExaminedCovered, OccursByTheDay, Zenon DEF d
  <2> QED BY <2>8, Zenon DEF OverloadsAgree, OccursNow, OccursOnDate, midnight
<1> QED BY <1>1, ExaminedAlways, PTL

\* In a fixed zone "the 5th day of the second week" and its like are found in
\* every month, for the four weeks that every month has.
THEOREM NthWeekdaysFound ==
  ASSUME FixedZone,
         \A t \in Tasks : t.repeat_type = "MonthlyDay" => t.repeat_info \div 10 \in 1..4
  PROVE  Spec => []MonthlyDayIsNthWeekday
<1>1. ASSUME Examined PROVE MonthlyDayIsNthWeekday
  <2> DEFINE day == localtime(now)
             info == task.repeat_info
             wday == (info % 10) % 7
             week == (info \div 10) % 10
             first == MonthStart[day.mon]
  <2> SUFFICES ASSUME task.repeat_type = "MonthlyDay"
               PROVE  OccursNow <=> /\ day.wday = wday
                                    /\ (day.mday - 1) \div 7 + 1 = info \div 10
    BY Zenon DEF MonthlyDayIsNthWeekday
  <2>1. now \in Nat /\ Covered(now) /\ info \in Nat BY <1>1, ExaminedCovered
  <2>2. info \div 10 \in 1..4 BY <1>1 DEF Examined
  <2>3. wday \in 0..6 /\ week = info \div 10 /\ week \in 1..4
    BY <2>1, <2>2
  <2>4. PICK k \in 0..6 :
            /\ (FirstWday + first + k) % 7 = wday
            /\ NthWeekdayOfMonth(wday, week, day).mday = k + 7 * (week - 1) + 1
    BY <2>1, <2>3, NthWeekday, Zenon
  <2>5. /\ day.mday \in 1..31 /\ first \in Nat
        /\ day.wday = (FirstWday + first + (day.mday - 1)) % 7
    <3>1. /\ DayOf(now) \in Nat /\ MonthStart[MonthOf(DayOf(now))] \in Nat
          /\ DayOf(now) - MonthStart[MonthOf(DayOf(now))] + 1 \in 1..31
      BY <2>1, WallClockParts, MonthOfDay DEF Covered
    <3>2. /\ day.mon = MonthOf(DayOf(now))
          /\ day.mday = DayOf(now) - MonthStart[MonthOf(DayOf(now))] + 1
          /\ day.wday = (FirstWday + DayOf(now)) % 7
      BY Zenon DEF localtime
    <3>3. ASSUME NEW d \in Nat, NEW m \in Nat
          PROVE  FirstWday + d = FirstWday + m + ((d - m + 1) - 1)
      BY WdayAssumption
    <3>4. FirstWday + DayOf(now) = FirstWday + first + (day.mday - 1)
      BY <3>1, <3>2, <3>3, Zenon
    <3> QED BY <3>1, <3>2, <3>4, Zenon
  <2>6. OccursNow <=> /\ day.wday = wday
                      /\ day.mday = NthWeekdayOfMonth(wday, week, day).mday
    BY OccursByType, Zenon DEF OccursNow, OccursMonthlyDay
  <2> HIDE DEF day, wday, week, first, info
  <2>7. ASSUME day.wday = wday
        PROVE  day.mday = k + 7 * (week - 1) + 1 <=> (day.mday - 1) \div 7 + 1 = week
    <3>1. ASSUME NEW n, n = day.mday, NEW x, x = FirstWday + first
          PROVE  n = k + 7 * (week - 1) + 1 <=> (n - 1) \div 7 + 1 = week
      <4>1. x \in Nat BY <2>5, <3>1, WdayAssumption
      <4>2. week \in 1..4 BY <2>3
      <4>3. n \in 1..31 BY <2>5, <3>1
      <4>4. (x + (n - 1)) % 7 = (x + k) % 7 BY <2>4, <2>5, <2>7, <3>1, Zenon
      <4>5. ASSUME n = k + 7 * (week - 1) + 1 PROVE (n - 1) \div 7 + 1 = week
        BY <4>2, <4>3, <4>5, WeekOfMonth
      <4>6. (n - 1) \div 7 + 1 = week => n = k + 7 * (week - 1) + 1
        BY <4>1, <4>2, <4>3, <4>4, DayInWeek, Zenon
      <4> QED BY <4>5, <4>6
    <3> QED BY <3>1
  <2> QED BY <2>3, <2>4, <2>6, <2>7, Zenon
<1> QED BY <1>1, ExaminedAlways, PTL

-----------------------------------------------------------------------------
(* Browsing.                                                               *)

\* The dates that a number of presses goes through.
Pressed(step(_), presses) ==
    CHOOSE date : date = [n \in 0..presses |-> IF n = 0 THEN now ELSE step(date[n - 1])]

\* Steps of one length.
LEMMA EvenSteps ==
  ASSUME Examined, NEW length \in Int, NEW presses \in Nat, NEW date,
         date = [n \in 0..presses |-> IF n = 0 THEN now ELSE date[n - 1] + length]
  PROVE  date[presses] = now + length * presses
<1> DEFINE T == {n \in Nat : n \in 0..presses /\ date[n] # now + length * n}
<1> SUFFICES ASSUME T # {} PROVE FALSE
  <2>1. presses \in 0..presses OBVIOUS
  <2> QED BY <2>1, Zenon
<1>1. now \in Int BY ExaminedCovered
<1>2. PICK n \in T : \A j \in T : n <= j
  <2>1. T \subseteq Nat OBVIOUS
  <2> QED BY <2>1, Least
<1>3. date[n] = IF n = 0 THEN now ELSE date[n - 1] + length BY <1>2, Zenon
<1>4. n # 0
  <2>1. length * 0 = 0 /\ now + 0 = now BY <1>1
  <2> QED BY <1>2, <1>3, <2>1
<1>5. n - 1 \in Nat /\ n - 1 \in 0..presses /\ ~(n <= n - 1) BY <1>2, <1>4
<1>6. date[n - 1] = now + length * (n - 1) BY <1>2, <1>5, Zenon
<1>7. now + length * (n - 1) + length = now + length * n
  <2>1. n \in Nat BY <1>2
  <2>2. length * (n - 1) = length * n - length BY <2>1
  <2>3. length * n \in Int BY <2>1
  <2> QED BY <1>1, <2>2, <2>3
<1> QED BY <1>2, <1>3, <1>4, <1>6, <1>7

\* 24 hours from an hour between one and eleven in the evening it is the
\* neighbouring day, and so on.
LEMMA WholeDaysAhead ==
  ASSUME NEW t \in Nat, WallClock(t) % 24 \in 1..22, NEW n \in Int
  PROVE  DayOf(t + 24 * n) = DayOf(t) + n
<1> DEFINE d == DayOf(t)
           h == WallClock(t) % 24
           s == DstShift(IsDst(t))
           u == t + 24 * n
           r == DstShift(IsDst(u))
<1>1. d \in Nat /\ h \in 1..22 /\ s \in {0, 1} /\ r \in {0, 1}
  BY WallClockParts, ShiftType
<1>2. t + s = 24 * d + h
  <2>1. WallClock(t) = t + s BY Zenon DEF WallClock
  <2>2. WallClock(t) = 24 * d + h BY WallClockParts
  <2> QED BY <2>1, <2>2
<1>3. WallClock(u) = u + r BY Zenon DEF WallClock
<1>4. u = t + 24 * n OBVIOUS
<1> HIDE DEF d, h, s, r, u
<1>5. u + r = 24 * (d + n) + (h + r - s) BY <1>1, <1>2, <1>4
<1>6. u + r \in Int /\ d + n \in Int /\ h + r - s \in Int /\ h + r - s \in 0..23
  BY <1>1, <1>4
<1>7. (u + r) \div 24 = d + n BY <1>5, <1>6, DivBounds
<1>8. DayOf(u) = d + n BY <1>3, <1>7, Zenon DEF DayOf
<1> QED BY <1>8 DEF d, u

\* Every press of next or previous shows the neighbouring day, across any
\* change of the clock (TaskListModel::nextDay, previousDay).
THEOREM BrowsingShowsEveryDay == Spec => []BrowsingMissesNoDay
<1>1. ASSUME Examined PROVE BrowsingMissesNoDay
  <2> SUFFICES ASSUME localtime(now).hour \in 1..22, NEW n \in 0..DaysAhead
               PROVE  /\ Browsed(nextDay, n) = DayOf(now) + n
                      /\ Browsed(previousDay, n) = DayOf(now) - n
    BY Zenon DEF BrowsingMissesNoDay
  <2>1. now \in Nat /\ n \in Nat BY <1>1, ExaminedCovered, TasksAssumption
  <2>2. WallClock(now) % 24 \in 1..22 BY Zenon DEF localtime
  <2>3. Browsed(nextDay, n) = DayOf(now) + n
    <3>1. Browsed(nextDay, n) = DayOf(Pressed(nextDay, n)[n]) BY Zenon DEF Browsed, Pressed
    <3>2. Pressed(nextDay, n)[n] = now + 24 * n
      <4> DEFINE f == [k \in 0..n |-> now + 24 * k]
                 date == Pressed(nextDay, n)
      <4>1. f = [k \in 0..n |-> IF k = 0 THEN now ELSE nextDay(f[k - 1])]
        BY <2>1 DEF nextDay
      <4>2. date = [k \in 0..n |-> IF k = 0 THEN now ELSE nextDay(date[k - 1])]
        BY <4>1, Zenon DEF Pressed
      <4>3. date = [k \in 0..n |-> IF k = 0 THEN now ELSE date[k - 1] + 24]
        BY <4>2, Zenon DEF nextDay
      <4> HIDE DEF date
      <4>5. 24 \in Int OBVIOUS
      <4>6. date[n] = now + 24 * n BY <1>1, <2>1, <4>3, <4>5, EvenSteps, Zenon
      <4> QED BY <4>6, Zenon DEF date
    <3> QED BY <2>1, <2>2, <3>1, <3>2, WholeDaysAhead
  <2>4. Browsed(previousDay, n) = DayOf(now) - n
    <3>1. Browsed(previousDay, n) = DayOf(Pressed(previousDay, n)[n])
      BY Zenon DEF Browsed, Pressed
    <3>2. Pressed(previousDay, n)[n] = now + (-24) * n
      <4> DEFINE f == [k \in 0..n |-> now - 24 * k]
                 date == Pressed(previousDay, n)
      <4>1. f = [k \in 0..n |-> IF k = 0 THEN now ELSE previousDay(f[k - 1])]
        BY <2>1 DEF previousDay
      <4>2. date = [k \in 0..n |-> IF k = 0 THEN now ELSE previousDay(date[k - 1])]
        BY <4>1, Zenon DEF Pressed
      <4>3. ASSUME NEW x PROVE x - 24 = x + (-24) OBVIOUS
      <4>4. date = [k \in 0..n |-> IF k = 0 THEN now ELSE date[k - 1] + (-24)]
        BY <4>2, <4>3 DEF previousDay
      <4> HIDE DEF date
      <4>5. -24 \in Int OBVIOUS
      <4>6. date[n] = now + (-24) * n BY <1>1, <2>1, <4>4, <4>5, EvenSteps, Zenon
      <4> QED BY <4>6, Zenon DEF date
    <3>3. now + (-24) * n = now + 24 * (-n) /\ -n \in Int BY <2>1
    <3>4. DayOf(now) \in Nat BY <2>1, WallClockParts
    <3>5. DayOf(now + 24 * (-n)) = DayOf(now) + (-n)
      BY <2>1, <2>2, <3>3, WholeDaysAhead
    <3>6. DayOf(now) + (-n) = DayOf(now) - n BY <2>1, <3>4
    <3> QED BY <3>1, <3>2, <3>3, <3>5, <3>6
  <2> QED BY <2>3, <2>4
<1> QED BY <1>1, ExaminedAlways, PTL

=============================================================================
