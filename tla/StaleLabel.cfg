SPECIFICATION AppSpec
CONSTANTS
    MonthStart <- December
    FirstWday = 4
    DstBegin = 0
    DstEnd = 0
    Strings <- MCStrings
    NoText = ""
    Escape <- MCEscape
    MaxTaskId = 1
    NewTasks <- TwoTasks
    Patches <- TwoEdits
    Comments <- NoComments
    Dates <- BothDays
    BareDates <- NoDays
    TestTasks <- OneTest
    CanCrash = FALSE
    ClearAnytime = TRUE
INVARIANTS
    LabelNamesDay
