---------------------------- MODULE MCTaskCheck -----------------------------
(***************************************************************************)
(* Values for TaskCheck: the months of December 2022 to January 2024, of   *)
(* which the clock runs through 2023, with or without the daylight saving  *)
(* time of Finland.                                                        *)
(***************************************************************************)
EXTENDS TaskCheck

Calendar2023 ==
    <<0, 31, 62, 90, 121, 151, 182, 212, 243, 274, 304, 335, 365, 396, 427>>

Thursday == 4  \* December 1st, 2022

\* 3 am of March 26th and 4 am (summer time) of October 29th, 2023.
SummerTimeBegins == 24 * 115 + 3
SummerTimeEnds == 24 * 332 + 3

NewYear == 24 * 31
NewYearsEve == 24 * 396 - 1

Schedule(type, info, start) ==
    [repeat_type |-> type, repeat_info |-> info, scheduled_start |-> start]

\* First days: January 2nd at 8, March 25th at 22, June 15th at 0 (summer
\* time), October 28th at 23 (summer time).
Starts == {24 * 32 + 8, 24 * 114 + 22, 24 * 196 - 1, 24 * 331 + 22}

Intervals == {Schedule("WithInterval", n, s) : n \in {1, 2, 7}, s \in Starts}

MonthlyDays(weeks, wdays) ==
    {Schedule("MonthlyDay", 10 * w + d, 24 * 32 + 8) : w \in weeks, d \in wdays}

FirstFourWeeks == MonthlyDays(1..4, {1, 3, 7})

ListedDays == {Schedule("SpecifiedDays", n, 24 * 32 + 8) : n \in {3, 67, 123, 40}}

OtherTypes ==
    {Schedule("Monthly", n, 24 * 32 + 8) : n \in {1, 31}} \cup
    {Schedule("NoRepeat", 0, s) : s \in Starts} \cup
    {Schedule("Other", 1, 24 * 32)}

AllSchedules == Intervals \cup FirstFourWeeks \cup ListedDays \cup OtherTypes

=============================================================================
