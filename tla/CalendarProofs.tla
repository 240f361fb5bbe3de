--------------------------- MODULE CalendarProofs ---------------------------
(***************************************************************************)
(* What localtime and mktime do for each other, for any table of months;   *)
(* and what occurs makes of it in a zone without daylight saving time.     *)
(***************************************************************************)
EXTENDS Task, WellFoundedInduction, TLAPS

-----------------------------------------------------------------------------
(* The table of months.                                                    *)

\* The only induction here: a set of natural numbers has a least one.
LEMMA Least ==
  ASSUME NEW T, T \subseteq Nat, T # {}
  PROVE  \E x \in T : \A y \in T : x <= y
<1>1. PICK x \in T : \A y \in T : ~(<<y, x>> \in OpToRel(<, Nat))
  BY NatLessThanWellFounded, WFMin, Zenon
<1>2. \A y \in T : ~(y < x) BY <1>1 DEF OpToRel
<1> QED BY <1>2

LEMMA MonthStartType ==
  /\ Len(MonthStart) \in Nat
  /\ \A m \in 1..Len(MonthStart) : MonthStart[m] \in Nat
BY MonthsAssumption

\* Later months start later.
LEMMA MonthsAscend ==
  ASSUME NEW m \in 1..Len(MonthStart), NEW n \in 1..Len(MonthStart), m < n
  PROVE  MonthStart[m] + 28 <= MonthStart[n]
<1> DEFINE T == {k \in Nat : m < k /\ k <= n /\ MonthStart[k] < MonthStart[m] + 28}
<1> SUFFICES ASSUME T # {} PROVE FALSE
  <2>1. MonthStart[m] \in Nat /\ MonthStart[n] \in Nat BY MonthStartType
  <2>2. n \notin T BY DEF T
  <2> HIDE DEF T
  <2>3. ~(MonthStart[n] < MonthStart[m] + 28) BY <2>2, MonthStartType DEF T
  <2> QED BY <2>1, <2>3
<1>1. T \subseteq Nat OBVIOUS
<1>2. PICK k \in T : \A j \in T : k <= j BY <1>1, Least
<1>3. /\ k \in Nat /\ m < k /\ k <= n /\ k - 1 \in Months
      /\ MonthStart[k] < MonthStart[m] + 28
  BY MonthStartType DEF Months
<1>4. MonthStart[k - 1] + 28 <= MonthStart[k]
  BY <1>3, MonthsAssumption
<1>5. MonthStart[k - 1] \in Nat /\ MonthStart[k] \in Nat /\ MonthStart[m] \in Nat
  BY <1>3, MonthStartType DEF Months
<1>6. k - 1 # m BY <1>3, <1>4, <1>5
<1>7. k - 1 \in T BY <1>3, <1>4, <1>5, <1>6
<1> QED BY <1>2, <1>3, <1>7

\* A day of month m, as MonthOf looks for it.
InMonth(day, m) == MonthStart[m] <= day /\ day < MonthStart[m + 1]

\* Every day of the table is in a month ...
LEMMA MonthExists ==
  ASSUME NEW day \in Nat, day < MonthStart[Len(MonthStart)]
  PROVE  \E m \in Months : InMonth(day, m)
<1> DEFINE T == {k \in Nat : k \in 1..Len(MonthStart) /\ day < MonthStart[k]}
<1>1. Len(MonthStart) \in T BY MonthsAssumption, MonthStartType
<1>2. PICK k \in T : \A j \in T : k <= j
  <2>1. T \subseteq Nat /\ T # {} BY <1>1
  <2> QED BY <2>1, Least
<1>3. k # 1 BY MonthsAssumption
<1>4. k - 1 \in Months BY <1>3, MonthStartType DEF Months
<1>5. k - 1 \notin T BY <1>2
<1>6. MonthStart[k - 1] <= day BY <1>4, <1>5, MonthStartType DEF Months
<1> QED BY <1>4, <1>6 DEF InMonth

\* ... and in one only.
LEMMA MonthIsUnique ==
  ASSUME NEW day \in Nat, NEW m \in Months, InMonth(day, m)
  PROVE  MonthOf(day) = m
<1>1. ASSUME NEW a \in Months, NEW b \in Months, InMonth(day, a), InMonth(day, b), a < b
      PROVE  FALSE
  <2>1. a + 1 \in 1..Len(MonthStart) /\ b \in 1..Len(MonthStart)
    BY MonthStartType DEF Months
  <2>2. MonthStart[a + 1] <= MonthStart[b]
    <3>1. CASE a + 1 = b BY <3>1, <2>1, MonthStartType
    <3>2. CASE a + 1 < b BY <3>2, <2>1, MonthsAscend, MonthStartType
    <3> QED BY <1>1, <3>1, <3>2 DEF Months
  <2> QED BY <1>1, <2>1, <2>2, MonthStartType DEF InMonth
<1>2. ASSUME NEW a \in Months, InMonth(day, a) PROVE a = m
  BY <1>1, <1>2 DEF Months
<1>3. MonthOf(day) \in Months /\ InMonth(day, MonthOf(day))
  BY Zenon DEF MonthOf, InMonth
<1> QED BY <1>2, <1>3

\* What MonthOf returns for a day of the table.
LEMMA MonthOfDay ==
  ASSUME NEW day \in Nat, day < MonthStart[Len(MonthStart)]
  PROVE  /\ MonthOf(day) \in Months
         /\ MonthStart[MonthOf(day)] \in Nat
         /\ MonthStart[MonthOf(day)] <= day
         /\ day - MonthStart[MonthOf(day)] + 1 \in 1..31
<1>1. PICK m \in Months : InMonth(day, m) BY MonthExists
<1>2. MonthOf(day) = m BY <1>1, MonthIsUnique
<1>3. /\ MonthStart[m] \in Nat /\ MonthStart[m + 1] \in Nat
      /\ MonthStart[m + 1] <= MonthStart[m] + 31
      /\ MonthStart[m] <= day /\ day < MonthStart[m + 1]
  BY <1>1, MonthsAssumption, MonthStartType DEF Months, InMonth
<1>4. ASSUME NEW a \in Nat, NEW b \in Nat, b <= a + 31, a <= day, day < b
      PROVE  day - a + 1 \in 1..31
  BY <1>4
<1>5. day - MonthStart[m] + 1 \in 1..31 BY <1>3, <1>4
<1> QED BY <1>1, <1>2, <1>3, <1>5, Zenon

-----------------------------------------------------------------------------
(* localtime and mktime.                                                   *)

LEMMA ShiftType == ASSUME NEW b PROVE DstShift(b) \in {0, 1}
BY DEF DstShift

LEMMA DivMod ==
  ASSUME NEW w \in Int
  PROVE  /\ w \div 24 \in Int
         /\ w % 24 \in 0..23
         /\ w = 24 * (w \div 24) + (w % 24)
         /\ w \in Nat => w \div 24 \in Nat
OBVIOUS

\* The day and the hour on the wall.
LEMMA WallClockParts ==
  ASSUME NEW t \in Nat
  PROVE  /\ WallClock(t) \in Nat
         /\ DayOf(t) \in Nat
         /\ WallClock(t) % 24 \in 0..23
         /\ WallClock(t) = 24 * DayOf(t) + (WallClock(t) % 24)
<1>1. WallClock(t) \in Nat BY ShiftType DEF WallClock
<1> QED BY <1>1, DivMod DEF DayOf

\* localtime fills a well-formed tm, with the day it is.
LEMMA LocaltimeFields ==
  ASSUME NEW t \in Nat, Covered(t)
  PROVE  /\ localtime(t) \in Tm
         /\ localtime(t).mon = MonthOf(DayOf(t))
         /\ localtime(t).mday = DayOf(t) - MonthStart[MonthOf(DayOf(t))] + 1
         /\ localtime(t).hour = WallClock(t) % 24
         /\ localtime(t).wday = (FirstWday + DayOf(t)) % 7
         /\ localtime(t).isdst = IsDst(t)
<1>1. DayOf(t) \in Nat /\ WallClock(t) % 24 \in 0..23 BY WallClockParts
<1>2. /\ MonthOf(DayOf(t)) \in Months
      /\ DayOf(t) - MonthStart[MonthOf(DayOf(t))] + 1 \in 1..31
  BY <1>1, MonthOfDay DEF Covered
<1>3. (FirstWday + DayOf(t)) % 7 \in 0..6
  BY <1>1, WdayAssumption
<1>4. IsDst(t) \in BOOLEAN BY DEF IsDst
<1> QED BY <1>1, <1>2, <1>3, <1>4, Zenon DEF localtime, Tm

\* The tm of a moment, put at another hour of the same day: mktime trusts
\* its tm_isdst.
LEMMA MktimeOfDay ==
  ASSUME NEW t \in Nat, Covered(t), NEW h \in 0..23
  PROVE  mktime([localtime(t) EXCEPT !.hour = h])
             = 24 * DayOf(t) + h - DstShift(IsDst(t))
<1> DEFINE tm == [localtime(t) EXCEPT !.hour = h]
<1>1. /\ tm.mon = MonthOf(DayOf(t))
      /\ tm.mday = DayOf(t) - MonthStart[MonthOf(DayOf(t))] + 1
      /\ tm.hour = h
      /\ tm.isdst = IsDst(t)
  BY LocaltimeFields, Zenon DEF localtime
<1>2. /\ DayOf(t) \in Nat /\ MonthStart[MonthOf(DayOf(t))] \in Nat
      /\ DstShift(IsDst(t)) \in {0, 1}
  BY WallClockParts, MonthOfDay, ShiftType DEF Covered
<1> HIDE DEF tm
<1>3. mktime(tm) = 24 * (MonthStart[tm.mon] + tm.mday - 1) + tm.hour - DstShift(tm.isdst)
  BY Zenon DEF mktime
<1>4. ASSUME NEW m \in Nat, NEW d \in Nat, NEW s \in Int
      PROVE  24 * (m + (d - m + 1) - 1) + h - s = 24 * d + h - s
  OBVIOUS
<1>5. mktime(tm) = 24 * (MonthStart[MonthOf(DayOf(t))]
                            + (DayOf(t) - MonthStart[MonthOf(DayOf(t))] + 1) - 1)
                      + h - DstShift(IsDst(t))
  BY <1>1, <1>3, Zenon
<1>6. DstShift(IsDst(t)) \in Int BY <1>2
<1>7. mktime(tm) = 24 * DayOf(t) + h - DstShift(IsDst(t))
  BY <1>2, <1>4, <1>5, <1>6
<1> QED BY <1>7 DEF tm

\* mktime is the inverse of localtime, on the days of a change too: what the
\* tracker computes from localtime of a moment starts from that moment
\* (task.cpp, mktime on either side of the difference in occurs).
THEOREM MktimeInvertsLocaltime ==
  ASSUME NEW t \in Nat, Covered(t)
  PROVE  mktime(localtime(t)) = t
<1>1. mktime([localtime(t) EXCEPT !.hour = WallClock(t) % 24])
          = 24 * DayOf(t) + (WallClock(t) % 24) - DstShift(IsDst(t))
  BY MktimeOfDay, WallClockParts
<1>2. [localtime(t) EXCEPT !.hour = WallClock(t) % 24] = localtime(t)
  BY DEF localtime
<1>3. 24 * DayOf(t) + (WallClock(t) % 24) - DstShift(IsDst(t)) = t
  <2>1. WallClock(t) = t + DstShift(IsDst(t)) BY DEF WallClock
  <2>2. WallClock(t) = 24 * DayOf(t) + (WallClock(t) % 24) BY WallClockParts
  <2>3. DstShift(IsDst(t)) \in Int BY ShiftType
  <2>4. 24 * DayOf(t) + (WallClock(t) % 24) = t + DstShift(IsDst(t)) BY <2>1, <2>2
  <2>5. ASSUME NEW d \in Int, NEW h \in Int, NEW s \in Int, 24 * d + h = t + s
        PROVE  24 * d + h - s = t
    BY <2>5
  <2>6. DayOf(t) \in Int /\ WallClock(t) % 24 \in Int BY WallClockParts
  <2> QED BY <2>3, <2>4, <2>5, <2>6
<1> QED BY <1>1, <1>2, <1>3, Zenon

-----------------------------------------------------------------------------
(* Task::occurs, by the day.                                               *)

\* A zone that never changes its clocks.
FixedZone == DstBegin = DstEnd

LEMMA FixedClock ==
  ASSUME FixedZone, NEW t \in Int
  PROVE  IsDst(t) = FALSE /\ WallClock(t) = t
<1>1. IsDst(t) = FALSE BY DstAssumption DEF FixedZone, IsDst
<1>2. t + 0 = t OBVIOUS
<1> QED BY <1>1, <1>2, Zenon DEF WallClock, DstShift

\* The midnight that days are counted from.
LEMMA StartDayIsMidnight ==
  ASSUME NEW task, task.scheduled_start \in Nat, Covered(task.scheduled_start)
  PROVE  StartDay(task) = 24 * DayOf(task.scheduled_start)
                              - DstShift(IsDst(task.scheduled_start))
<1>1. 0 \in 0..23 OBVIOUS
<1>2. mktime([localtime(task.scheduled_start) EXCEPT !.hour = 0])
          = 24 * DayOf(task.scheduled_start) + 0 - DstShift(IsDst(task.scheduled_start))
  BY <1>1, MktimeOfDay, Zenon
<1>3. /\ DayOf(task.scheduled_start) \in Nat
      /\ DstShift(IsDst(task.scheduled_start)) \in Int
  BY WallClockParts, ShiftType
<1>4. ASSUME NEW d \in Nat, NEW s \in Int PROVE 24 * d + 0 - s = 24 * d - s OBVIOUS
<1> QED BY <1>2, <1>3, <1>4, Zenon DEF StartDay

LEMMA DivBounds ==
  \A x, d, h \in Int : x = 24 * d + h /\ h \in 0..23 => x \div 24 = d
OBVIOUS

\* The code divides a number of hours by 24.  That counts calendar days if
\* the two flags do not carry the hour over midnight.
LEMMA CountsCalendarDays ==
  ASSUME NEW task, NEW start \in Nat, start = task.scheduled_start, Covered(start),
         NEW t \in Nat, Covered(t),
         (WallClock(t) % 24) + DstShift(IsDst(start)) - DstShift(IsDst(t)) \in 0..23
  PROVE  /\ DaysSinceStart(task, localtime(t)) = DayOf(t) - DayOf(start)
         /\ StartDay(task) <= mktime(localtime(t)) <=> DayOf(start) <= DayOf(t)
<1> DEFINE a == DayOf(start)
           b == DayOf(t)
           h == WallClock(t) % 24
           s == DstShift(IsDst(start))
           r == DstShift(IsDst(t))
<1>1. a \in Nat /\ b \in Nat /\ h \in 0..23 BY WallClockParts
<1>2. s \in {0, 1} /\ r \in {0, 1} BY ShiftType
<1>3. StartDay(task) = 24 * a - s BY StartDayIsMidnight
<1>4. mktime(localtime(t)) = t BY MktimeInvertsLocaltime
<1>5. t + r = 24 * b + h
  <2>1. WallClock(t) = t + r BY Zenon DEF WallClock
  <2>2. WallClock(t) = 24 * b + h BY WallClockParts
  <2> QED BY <2>1, <2>2
<1>6. h + s - r \in 0..23 OBVIOUS
<1>7. DaysSinceStart(task, localtime(t)) = (t - (24 * a - s)) \div 24
  BY <1>3, <1>4, Zenon DEF DaysSinceStart
<1> HIDE DEF a, b, h, s, r
<1>8. t - (24 * a - s) = 24 * (b - a) + (h + s - r) BY <1>1, <1>2, <1>5
<1>9. (t - (24 * a - s)) \div 24 = b - a
  <2>1. t - (24 * a - s) \in Int /\ b - a \in Int /\ h + s - r \in Int BY <1>1, <1>2
  <2> QED BY <1>6, <1>8, <2>1, DivBounds
<1>10. 24 * a - s <= t <=> a <= b BY <1>1, <1>2, <1>5, <1>6
<1>11. DaysSinceStart(task, localtime(t)) = b - a BY <1>7, <1>9
<1>12. StartDay(task) <= mktime(localtime(t)) <=> a <= b BY <1>3, <1>4, <1>10
<1> QED BY <1>11, <1>12 DEF a, b

\* A task with an interval is then due by the calendar.
LEMMA IntervalByDays ==
  ASSUME NEW task, NEW start \in Nat, start = task.scheduled_start, Covered(start),
         NEW t \in Nat, Covered(t),
         (WallClock(t) % 24) + DstShift(IsDst(start)) - DstShift(IsDst(t)) \in 0..23
  PROVE  OccursAtInterval(task, localtime(t)) <=>
             /\ DayOf(start) <= DayOf(t)
             /\ (DayOf(t) - DayOf(start)) % task.repeat_info = 0
BY CountsCalendarDays, Zenon DEF OccursAtInterval

\* The first of the month, at hour 0 by the flag of another day.
LEMMA MktimeOfFirst ==
  ASSUME NEW t
  PROVE  mktime([localtime(t) EXCEPT !.mday = 1, !.hour = 0])
             = 24 * (MonthStart[localtime(t).mon] + 1 - 1) + 0 - DstShift(IsDst(t))
BY DEF mktime, localtime

\* In a fixed zone the answer is one for the whole day.
LEMMA OccursByTheDay ==
  ASSUME FixedZone,
         NEW task, NEW start \in Nat, start = task.scheduled_start, Covered(start),
         NEW t \in Nat, Covered(t), NEW u \in Nat, Covered(u), DayOf(t) = DayOf(u)
  PROVE  Occurs(task, localtime(t)) <=> Occurs(task, localtime(u))
<1>1. /\ localtime(t).mon = localtime(u).mon
      /\ localtime(t).mday = localtime(u).mday
      /\ localtime(t).wday = localtime(u).wday
  BY Zenon DEF localtime
<1>2. IsDst(t) = FALSE /\ IsDst(u) = FALSE /\ IsDst(start) = FALSE
  <2>1. t \in Int /\ u \in Int /\ start \in Int OBVIOUS
  <2> QED BY <2>1, FixedClock, Zenon
<1>3. ASSUME NEW wday, NEW week
      PROVE  NthWeekdayOfMonth(wday, week, localtime(t))
                 = NthWeekdayOfMonth(wday, week, localtime(u))
  <2>1. mktime([localtime(t) EXCEPT !.mday = 1, !.hour = 0])
            = mktime([localtime(u) EXCEPT !.mday = 1, !.hour = 0])
    BY <1>1, <1>2, MktimeOfFirst
  <2> QED BY <2>1, Zenon DEF NthWeekdayOfMonth
<1>4. OccursMonthly(task, localtime(t)) <=> OccursMonthly(task, localtime(u))
  BY <1>1, Zenon DEF OccursMonthly
<1>5. OccursMonthlyDay(task, localtime(t)) <=> OccursMonthlyDay(task, localtime(u))
  BY <1>1, <1>3, Zenon DEF OccursMonthlyDay
<1>6. OccursOnce(task, localtime(t)) <=> OccursOnce(task, localtime(u))
  BY <1>1, Zenon DEF OccursOnce
<1>7. OccursOnListedDay(task, localtime(t)) <=> OccursOnListedDay(task, localtime(u))
  BY <1>1, Zenon DEF OccursOnListedDay
<1>8. OccursAtInterval(task, localtime(t)) <=> OccursAtInterval(task, localtime(u))
  <2>1. ASSUME NEW v \in Nat, Covered(v), IsDst(v) = FALSE
        PROVE  OccursAtInterval(task, localtime(v)) <=>
                   /\ DayOf(start) <= DayOf(v)
                   /\ (DayOf(v) - DayOf(start)) % task.repeat_info = 0
    <3>1. WallClock(v) % 24 \in 0..23 BY WallClockParts
    <3>2. DstShift(IsDst(start)) = 0 /\ DstShift(IsDst(v)) = 0
      BY <1>2, <2>1, Zenon DEF DstShift
    <3>3. ASSUME NEW h \in 0..23 PROVE h + 0 - 0 \in 0..23 OBVIOUS
    <3>4. (WallClock(v) % 24) + DstShift(IsDst(start)) - DstShift(IsDst(v)) \in 0..23
      BY <3>1, <3>2, <3>3, Zenon
    <3> QED BY <2>1, <3>4, IntervalByDays, Zenon
  <2> QED BY <1>2, <2>1, Zenon
<1> QED BY <1>4, <1>5, <1>6, <1>7, <1>8, Zenon DEF Occurs

-----------------------------------------------------------------------------
(* The n-th weekday of a month, in a fixed zone.                           *)

\* The day a number of hours belongs to.
LEMMA FixedDay ==
  ASSUME FixedZone, NEW d \in Int, NEW h \in 0..23
  PROVE  DayOf(24 * d + h) = d
<1>1. 24 * d + h \in Int OBVIOUS
<1>2. WallClock(24 * d + h) = 24 * d + h BY <1>1, FixedClock, Zenon
<1>3. (24 * d + h) \div 24 = d BY <1>1, DivBounds
<1> QED BY <1>2, <1>3 DEF DayOf

LEMMA FixedMidnight ==
  ASSUME FixedZone, NEW d \in Int
  PROVE  DayOf(24 * d) = d
<1>1. 0 \in 0..23 /\ 24 * d + 0 = 24 * d OBVIOUS
<1> QED BY <1>1, FixedDay, Zenon

\* Weekdays come round every seven days.
LEMMA WeekdayInWeek ==
  ASSUME NEW a \in Nat, NEW wday \in 0..6
  PROVE  \E k \in 0..6 : (a + k) % 7 = wday
<1>1. (wday - a) % 7 \in 0..6 OBVIOUS
<1>2. (a + ((wday - a) % 7)) % 7 = wday OBVIOUS
<1> QED BY <1>1, <1>2

LEMMA WeekdayAfterWeek ==
  ASSUME NEW a \in Nat
  PROVE  (a + 7) % 7 = (a + 0) % 7
OBVIOUS

\* The length of the walk of s_get_nth_weekday_of_month.
WalkFrom(first, wday) ==
    LET On(k) == localtime(first + 24 * k).wday = wday
    IN  CHOOSE k \in 0..7 : On(k) /\ \A j \in 0..(k - 1) : ~On(j)

LEMMA WalkOfMonth ==
  ASSUME NEW wday, NEW week, NEW day, NEW first,
         first = mktime([day EXCEPT !.mday = 1, !.hour = 0])
  PROVE  NthWeekdayOfMonth(wday, week, day)
             = localtime(first + 24 * WalkFrom(first, wday) + (week - 1) * 7 * 24)
BY Zenon DEF NthWeekdayOfMonth, WalkFrom

\* The walk ends within a week of the first.
LEMMA WalkEnds ==
  ASSUME FixedZone, NEW d \in Nat, NEW first, first = 24 * d, NEW wday \in 0..6
  PROVE  /\ WalkFrom(first, wday) \in 0..6
         /\ (FirstWday + d + WalkFrom(first, wday)) % 7 = wday
<1> DEFINE a == FirstWday + d
           On(k) == localtime(first + 24 * k).wday = wday
           T == {k \in 0..7 : On(k)}
           P(k) == On(k) /\ \A j \in 0..(k - 1) : ~On(j)
           steps == CHOOSE k \in 0..7 : P(k)
<1>1. a \in Nat BY WdayAssumption
<1>2. ASSUME NEW k \in 0..7 PROVE On(k) <=> (a + k) % 7 = wday
  <2>1. first + 24 * k = 24 * (d + k) /\ d + k \in Int
        /\ FirstWday + (d + k) = a + k
    BY WdayAssumption
  <2>2. DayOf(first + 24 * k) = d + k BY <2>1, FixedMidnight
  <2>3. localtime(first + 24 * k).wday = (FirstWday + (d + k)) % 7
    BY <2>2, Zenon DEF localtime
  <2> QED BY <2>1, <2>3
<1> HIDE DEF a, On
<1>3. T \subseteq Nat OBVIOUS
<1>4. T # {}
  <2>1. PICK k \in 0..6 : (a + k) % 7 = wday BY <1>1, WeekdayInWeek
  <2>2. k \in 0..7 OBVIOUS
  <2> QED BY <1>2, <2>1, <2>2
<1>5. PICK k \in T : \A j \in T : k <= j BY <1>3, <1>4, Least
<1>6. k \in 0..7 /\ On(k) BY <1>5
<1>7. \A j \in 0..(k - 1) : ~On(j)
  <2>1. ASSUME NEW j \in 0..(k - 1), On(j) PROVE FALSE
    <3>1. j \in 0..7 /\ ~(k <= j) BY <1>6
    <3> QED BY <1>5, <2>1, <3>1
  <2> QED BY <2>1
<1>8. steps \in 0..7 /\ P(steps) BY <1>6, <1>7, Zenon
<1>9. steps # 7
  <2> SUFFICES ASSUME steps = 7 PROVE FALSE OBVIOUS
  <2>1. 0 \in 0..(steps - 1) /\ 0 \in 0..7 /\ 7 \in 0..7 OBVIOUS
  <2>2. ~On(0) /\ On(7) BY <1>8, <2>1, Zenon
  <2> QED BY <1>1, <1>2, <2>1, <2>2, WeekdayAfterWeek, Zenon
<1>10. (a + steps) % 7 = wday BY <1>2, <1>8, Zenon
<1> HIDE DEF steps
<1>11. steps \in 0..6 BY <1>8, <1>9
<1>12. steps = WalkFrom(first, wday) BY Zenon DEF steps, P, On, WalkFrom
<1> QED BY <1>10, <1>11, <1>12, Zenon DEF a

\* What the code compares the day of the month with: the first such weekday
\* of the month, and a whole number of weeks.
LEMMA NthWeekday ==
  ASSUME FixedZone, NEW t \in Nat, Covered(t), NEW wday \in 0..6, NEW week \in 1..4
  PROVE  \E k \in 0..6 :
             /\ (FirstWday + MonthStart[localtime(t).mon] + k) % 7 = wday
             /\ NthWeekdayOfMonth(wday, week, localtime(t)).mday = k + 7 * (week - 1) + 1
<1> DEFINE m == MonthOf(DayOf(t))
           d == MonthStart[m]
           first == mktime([localtime(t) EXCEPT !.mday = 1, !.hour = 0])
           steps == WalkFrom(first, wday)
<1>1. m \in Months /\ d \in Nat /\ MonthStart[m + 1] \in Nat /\ d + 28 <= MonthStart[m + 1]
  <2>1. DayOf(t) \in Nat BY WallClockParts
  <2>2. m \in Months /\ d \in Nat BY <2>1, MonthOfDay DEF Covered
  <2> HIDE DEF m
  <2>3. MonthStart[m + 1] \in Nat BY <2>2, MonthStartType DEF Months
  <2> QED BY <2>2, <2>3, MonthsAssumption
<1>2. localtime(t).mon = m BY Zenon DEF localtime
<1>3. first = 24 * d
  <2>1. IsDst(t) = FALSE
    <3>1. t \in Int OBVIOUS
    <3> QED BY <3>1, FixedClock, Zenon
  <2>2. first = 24 * (d + 1 - 1) + 0 - DstShift(IsDst(t)) BY <1>2, MktimeOfFirst, Zenon
  <2>3. first = 24 * (d + 1 - 1) + 0 - 0 BY <2>1, <2>2, Zenon DEF DstShift
  <2> HIDE DEF first, d
  <2> QED BY <1>1, <2>3
<1>4. steps \in 0..6 /\ (FirstWday + d + steps) % 7 = wday
  <2> HIDE DEF m, d, first
  <2>1. d \in Nat /\ first = 24 * d BY <1>1, <1>3
  <2> QED BY <2>1, WalkEnds, Zenon
<1>5. NthWeekdayOfMonth(wday, week, localtime(t))
          = localtime(first + 24 * steps + (week - 1) * 7 * 24)
  BY WalkOfMonth, Zenon
<1> DEFINE n == d + steps + 7 * (week - 1)
<1> HIDE DEF m, d, first, steps
<1>6. first + 24 * steps + (week - 1) * 7 * 24 = 24 * n
  BY <1>1, <1>3, <1>4
<1>7. n \in Nat /\ d <= n /\ n < MonthStart[m + 1] BY <1>1, <1>4
<1> HIDE DEF n
<1>8. DayOf(24 * n) = n BY <1>7, FixedMidnight
<1>9. MonthOf(n) = m
  <2>1. InMonth(n, m) BY <1>7 DEF InMonth, d
  <2> QED BY <1>1, <1>7, <2>1, MonthIsUnique
<1>10. localtime(24 * n).mday = n - d + 1 BY <1>8, <1>9, Zenon DEF localtime, d
<1>11. n - d + 1 = steps + 7 * (week - 1) + 1 BY <1>1, <1>4 DEF n
<1>12. NthWeekdayOfMonth(wday, week, localtime(t)).mday = steps + 7 * (week - 1) + 1
  BY <1>5, <1>6, <1>10, <1>11
<1>13. (FirstWday + MonthStart[localtime(t).mon] + steps) % 7 = wday
  BY <1>2, <1>4, Zenon DEF d
<1> QED BY <1>4, <1>12, <1>13, Zenon

\* Within a month the n-th day of a weekday is told by its week.
LEMMA WeekOfMonth ==
  \A mday \in 1..31, k \in 0..6, week \in 1..4 :
      mday = k + 7 * (week - 1) + 1 => (mday - 1) \div 7 + 1 = week
OBVIOUS

LEMMA DayInWeek ==
  \A a \in Nat, mday \in 1..31, k \in 0..6, week \in 1..4 :
      (a + (mday - 1)) % 7 = (a + k) % 7 =>
          ((mday - 1) \div 7 + 1 = week => mday = k + 7 * (week - 1) + 1)
OBVIOUS

=============================================================================
