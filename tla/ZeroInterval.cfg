SPECIFICATION Spec
CONSTANTS
    MonthStart <- December
    FirstWday = 4
    DstBegin = 0
    DstEnd = 0
    Strings <- MCStrings
    NoText = ""
    Escape <- MCEscape
    MaxTaskId = 1
    NewTasks <- TwoTasks
    Patches <- TwoEdits
    Comments <- NoComments
    Dates <- OneDay
    BareDates <- NoDays
    CanCrash = FALSE
    ClearAnytime = FALSE
INVARIANTS
    ListingNeverTraps
