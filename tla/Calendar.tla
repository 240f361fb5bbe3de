------------------------------ MODULE Calendar ------------------------------
(***************************************************************************)
(* The C library's calendar, as src/lib and the application use it:        *)
(* localtime and mktime over a table of months and one daylight-saving     *)
(* period.                                                                 *)
(*                                                                         *)
(* A time_t is a number of hours of standard time since the start of the   *)
(* first day of the table: nothing in the scheduler depends on minutes.    *)
(* A (tm_year, tm_mon) pair is one index into the table of months, which   *)
(* keeps every comparison the code makes on the two.                       *)
(***************************************************************************)
EXTENDS Integers, Sequences

CONSTANTS
    MonthStart,  \* MonthStart[m]: number of the first day of month m; the
                 \* last entry only closes the last month
    FirstWday,   \* tm_wday of day 0
    DstBegin,    \* first hour with daylight saving time ...
    DstEnd       \* ... and first hour after it

Months == 1..(Len(MonthStart) - 1)

ASSUME MonthsAssumption ==
    /\ MonthStart \in Seq(Nat)
    /\ Len(MonthStart) > 1
    /\ MonthStart[1] = 0
    /\ \A m \in Months : /\ MonthStart[m] + 28 <= MonthStart[m + 1]
                         /\ MonthStart[m + 1] <= MonthStart[m] + 31

ASSUME WdayAssumption == FirstWday \in 0..6

ASSUME DstAssumption == DstBegin \in Nat /\ DstEnd \in Nat /\ DstBegin <= DstEnd

(***************************************************************************)
(* The fields of struct tm that the code reads or writes.                  *)
(***************************************************************************)
Tm == [mon : Months, mday : 1..31, hour : 0..23, wday : 0..6, isdst : BOOLEAN]

IsDst(t) == DstBegin <= t /\ t < DstEnd

DstShift(isdst) == IF isdst THEN 1 ELSE 0

\* The clock on the wall at time t, in hours.
WallClock(t) == t + DstShift(IsDst(t))

\* The number of the day it is at time t.
DayOf(t) == WallClock(t) \div 24

MonthOf(day) == CHOOSE m \in Months : MonthStart[m] <= day /\ day < MonthStart[m + 1]

\* The hours the table covers: the argument of localtime is one of them.
Covered(t) == /\ t \in Nat
              /\ DayOf(t) < MonthStart[Len(MonthStart)]

localtime(t) ==
    LET day == DayOf(t)
        mon == MonthOf(day)
    IN  [mon   |-> mon,
         mday  |-> day - MonthStart[mon] + 1,
         hour  |-> WallClock(t) % 24,
         wday  |-> (FirstWday + day) % 7,
         isdst |-> IsDst(t)]

(***************************************************************************)
(* mktime trusts tm_isdst: a wall clock time that is said to be daylight   *)
(* saving time is one hour earlier than the same clock time without, also  *)
(* on a day the clock was not changed.  tm_wday is not read.               *)
(***************************************************************************)
mktime(tm) ==
    24 * (MonthStart[tm.mon] + tm.mday - 1) + tm.hour - DstShift(tm.isdst)

\* The tm that code fills from a std::chrono::year_month_day: every other
\* field is zero, tm_wday and tm_isdst included.
FromYmd(mon, mday) ==
    [mon |-> mon, mday |-> mday, hour |-> 0, wday |-> 0, isdst |-> FALSE]

-----------------------------------------------------------------------------
(* TaskListModel::nextDay and previousDay, on m_date.                      *)

\* Mutant of nextDay: a digit of 24 * 60 * 60 is wrong.
ShortDay(date) == date + 20

nextDay(date) == date + 24
previousDay(date) == date - 24

=============================================================================
