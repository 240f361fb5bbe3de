SPECIFICATION FairFaultSpec
CONSTANTS
    MonthStart <- December
    FirstWday = 4
    DstBegin = 0
    DstEnd = 0
    Strings <- MCStrings
    NoText = ""
    Escape <- MCEscape
    MaxTaskId = 2
    NewTasks <- DailyTask
    Patches <- BothAtOnce
    Comments <- NoComments
    Dates <- OneDay
    BareDates <- NoDays
    SetStates = {"Finished"}
    CanCrash = TRUE
    ClearAnytime = FALSE
INVARIANTS
    FaultTypeOK
    OnlyUnsavedDiffer
    HalfAddedIsBlank
    AddedIsNew
    OnlyInterruptedAreBlank
    ListingExact
PROPERTIES
    StartsNeverMove
    EveryCallReturns
