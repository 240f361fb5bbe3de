SPECIFICATION Spec
CONSTANTS
    MonthStart <- December
    FirstWday = 4
    DstBegin <- ChangeOfClock
    DstEnd = 5000
    Strings <- MCStrings
    NoText = ""
    Escape <- MCEscape
    MaxTaskId = 1
    NewTasks <- Evening
    Patches <- ToMorning
    Comments <- MCComments
    Dates <- BothDays
    BareDates <- OneDay
    CanCrash = TRUE
    ClearAnytime = FALSE
INVARIANTS
    StartsOnItsDay
PROPERTIES
    KeepsBoard
