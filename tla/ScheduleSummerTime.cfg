SPECIFICATION Spec
CONSTANTS
    MonthStart <- Calendar2023
    FirstWday <- Thursday
    DstBegin <- SummerTimeBegins
    DstEnd <- SummerTimeEnds
    Tasks <- Intervals
    FirstHour <- NewYear
    LastHour <- NewYearsEve
    DaysAhead = 7
INVARIANTS
    IntervalAwayFromMidnight
    BrowsingMissesNoDay
