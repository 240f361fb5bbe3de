SPECIFICATION Spec
CONSTANTS
    MonthStart <- Calendar2023
    FirstWday <- Thursday
    DstBegin = 0
    DstEnd = 0
    Tasks <- AllSchedules
    FirstHour <- NewYear
    LastHour <- NewYearsEve
    DaysAhead = 7
INVARIANTS
    IntervalEveryNthDay
    MonthlyDayIsNthWeekday
    OverloadsAgree
    SameAnswerAllDay
