SPECIFICATION FairPanelSpec
CONSTANTS
    Devices = {tv}
    SnoozeTicks = 2
    TimerTicks = 3
    MaxQueued = 2
    Reports <- MCReports
    Fragments = {0, 1}
INVARIANTS
    PanelTypeOK
    ShownIsCurrent
    OnlyShortLinesAbort
    RowsAreOfReport
PROPERTIES
    AlarmIsSeenBesideForecast
CHECK_DEADLOCK FALSE
