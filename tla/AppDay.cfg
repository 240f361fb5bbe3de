SPECIFICATION FairAppSpec
CONSTANTS
    MonthStart <- December
    FirstWday = 4
    DstBegin = 0
    DstEnd = 0
    Strings <- MCStrings
    NoText = ""
    Escape <- MCEscape
    MaxTaskId = 1
    NewTasks <- DailyTask
    Patches <- DayEdits
    Comments <- NoComments
    Dates <- BothDays
    BareDates <- NoDays
    TestTasks <- OneTest
    CanCrash = TRUE
    ClearAnytime = TRUE
INVARIANTS
    ListIsCurrent
    RowsPointToInstances
    CacheStored
    AppTypeOK
PROPERTIES
    MarkIsUndoneFirst
    EventsEnd
    EventsAreBounded
