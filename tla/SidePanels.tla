----------------------------- MODULE SidePanels -----------------------------
(***************************************************************************)
(* The device list and the forecast, side by side on the page and in one   *)
(* main thread: while populate waits for the weather program, no refresh   *)
(* of the device list is handled and no press is seen.  The scheduler's    *)
(* thread and the clock go on.                                             *)
(***************************************************************************)
EXTENDS DeviceListModel, Sequences

CONSTANTS
    Reports,   \* of WeatherListModel
    Fragments

\* A text has a piece, and a piece a cell: at least the empty one.
ASSUME ReportsAssumption ==
    /\ Reports # {}
    /\ Reports \subseteq Seq(Seq(Int))
    /\ \A report \in Reports : report # <<>> /\ \A i \in DOMAIN report : report[i] # <<>>
    /\ Fragments \subseteq Int

VARIABLES
    process,
    due,
    running,
    m_api_output_lines

Weather == INSTANCE WeatherListModel

forecast == <<process, due, running, m_api_output_lines>>

panelVars == <<vars, forecast>>

\* main constructs the device list, then the forecast, whose first populate
\* comes before the callback of the scheduler is set.
PanelInit == Init /\ Weather!Init

\* The main thread does not wait for the weather program.
Free == process = "up" /\ ~running

\* Mutant of Beside: a refresh asked for while the thread is kept is lost.
BesideUnqueued ==
    /\ process = "up"
    /\ \/ Change
       \/ Tick
       \/ ~running /\ Report
       \/ /\ running
          /\ owed
          /\ owed' = FALSE
          /\ UNCHANGED <<unconnected, wanted, snooze, phase, queued, timer, pc, page>>
    /\ UNCHANGED forecast

\* What runs beside the main thread.
Beside == process = "up" /\ (Change \/ Report \/ Tick) /\ UNCHANGED forecast

DeviceStep == Free /\ (MainStep \/ SetSnooze) /\ UNCHANGED forecast

\* The timer of the forecast is served by the event loop.
HandleHour == EventLoop /\ Weather!HandleHour /\ UNCHANGED vars

\* The page reads the forecast.
ReadForecast == EventLoop /\ Weather!ReadThrows /\ UNCHANGED vars

HourPasses == phase # "crashed" /\ Weather!HourPasses /\ UNCHANGED vars

ProgramEnds == Weather!ProgramEnds /\ UNCHANGED vars

PopenFails == Weather!PopenFails /\ UNCHANGED vars

PanelNext ==
    \/ Beside
    \/ DeviceStep
    \/ HandleHour
    \/ ReadForecast
    \/ HourPasses
    \/ ProgramEnds
    \/ PopenFails

PanelSpec == PanelInit /\ [][PanelNext]_panelVars

\* The scheduler's thread, the clock and the weather program go on.  A turn
\* of the event loop takes what was posted and then every timer that has
\* fired: neither waits for ever behind the other.
FairPanelSpec ==
    /\ PanelSpec
    /\ WF_panelVars(Beside /\ Report)
    /\ WF_panelVars(Beside /\ Tick)
    /\ WF_panelVars(DeviceStep /\ MainStep)
    /\ SF_panelVars(DeviceStep /\ HandleNotify)
    /\ SF_panelVars(DeviceStep /\ HandleTimeout)
    /\ WF_panelVars(ProgramEnds)

-----------------------------------------------------------------------------

PanelTypeOK == TypeOK /\ Weather!TypeOK

OnlyShortLinesAbort == Weather!OnlyShortLinesAbort

RowsAreOfReport == Weather!RowsAreOfReport

\* No alarm stays unseen, neither one that a change raises nor one that comes
\* back as a snooze ends, however often the thread is kept by the weather
\* program, as long as that program ends each time, the process lives and a
\* device stays unconnected: without one the page has no row to show it on.
\* So it is from the first refresh on, or with a row from the start.  A page
\* loaded without rows misses a device that went, with an alarm, after the
\* model was made and before the callback was connected; nothing asks again.
AlarmIsSeenBesideForecast ==
    (/\ process = "up" /\ phase = "loaded"
     /\ heard \/ shown.devices # {}
     /\ AlarmDue /\ ~shown.alarm)
        ~> (process # "up" \/ shown.alarm \/ ~AlarmDue)

=============================================================================
