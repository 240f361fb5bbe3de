-------------------------- MODULE SidePanelsProofs --------------------------
(***************************************************************************)
(* The device list is right whenever nothing is on its way to it, for any  *)
(* devices, any length of a snooze and any timer that is longer; beside    *)
(* it the forecast, for any reports, cut off anywhere.                     *)
(***************************************************************************)
EXTENDS SidePanels, SequenceTheorems, TLAPS

-----------------------------------------------------------------------------
(* The device list by itself.                                              *)

\* The timer outlasts the snooze: when it is off no snooze is running.
Watched == snooze > 0 => timer > snooze

\* Refreshes run, and are waited for, in the event loop only.
Loaded == heard \/ pc # "idle" => phase = "loaded"

\* No change is waiting for the main thread.
NoneWaiting == queued = 0 /\ ~owed

\* What the model and the page hold of the scheduler, by the step that the
\* main thread has come to.
Followed ==
    /\ pc = "reset" /\ NoneWaiting => m_devices = unconnected
    /\ heard /\ pc = "idle" /\ NoneWaiting =>
          /\ shown.devices = unconnected
          /\ timer = Off => shown.alarm = AlarmDue

IInv == TypeOK /\ Watched /\ Loaded /\ Followed

-----------------------------------------------------------------------------

LEMMA InitIInv == ASSUME Init PROVE IInv
<1>1. snooze = 0 /\ timer = Off /\ queued = 0 BY DEF Init
<1>2. wanted \in BOOLEAN /\ owed \in BOOLEAN /\ heard \in BOOLEAN BY Zenon DEF Init
<1>3. snooze \in 0..SnoozeTicks /\ queued \in 0..MaxQueued /\ Watched
  BY <1>1, TicksAssumption, QueueAssumption DEF Watched
<1>4. shown \in [devices : SUBSET Devices, alarm : BOOLEAN]
  BY DEF Init
<1>5. TypeOK BY <1>1, <1>2, <1>3, <1>4 DEF Init, TypeOK, Phases
<1> QED BY <1>3, <1>5 DEF Init, IInv, Loaded, Followed

\* The numbers, of every step at once.
Numbers ==
    /\ snooze \in 0..SnoozeTicks
    /\ queued \in 0..MaxQueued
    /\ timer \in {Off} \cup 0..TimerTicks

LEMMA NextNumbers == ASSUME Numbers, [Next]_vars PROVE Numbers'
<1> USE TicksAssumption, QueueAssumption DEF Numbers, Off
<1>1. CASE Report
  <2>1. queued' = queued \/ (queued < MaxQueued /\ queued' = queued + 1)
    BY <1>1, Zenon DEF Report
  <2>2. snooze' = snooze /\ timer' = timer BY <1>1 DEF Report
  <2> QED BY <2>1, <2>2
<1>2. CASE Tick
  <2>1. /\ snooze' = IF snooze > 0 THEN snooze - 1 ELSE 0
        /\ timer' = IF timer > 0 THEN timer - 1 ELSE timer
        /\ queued' = queued
    BY <1>2, Zenon DEF Tick
  <2> QED BY <2>1
<1>3. CASE HandleNotify
  <2>1. queued > 0 /\ queued' = queued - 1 /\ snooze' = snooze /\ timer' = timer
    BY <1>3, Zenon DEF HandleNotify, scheduler
  <2> QED BY <2>1
<1>4. CASE SetSnooze
  <2>1. snooze' = SnoozeTicks /\ timer' = TimerTicks /\ queued' = queued
    BY <1>4, Zenon DEF SetSnooze
  <2> QED BY <2>1
<1>5. CASE HandleTimeout BY <1>5, Zenon DEF HandleTimeout, scheduler
<1>6. CASE Change \/ SetCallback \/ SetCallbackData \/ ConnectNotify \/ LoadPage
              \/ ReadDevices \/ EndReset \/ UNCHANGED vars
  <2>1. UNCHANGED <<snooze, queued, timer>>
    BY <1>6, Zenon DEF Change, SetCallback, SetCallbackData, ConnectNotify, LoadPage,
                       ReadDevices, EndReset, vars, scheduler
  <2> QED BY <2>1
<1> QED BY <1>1, <1>2, <1>3, <1>4, <1>5, <1>6, Zenon DEF Next, MainStep

\* The rest of the types.
LEMMA NextTypeOK == ASSUME TypeOK, [Next]_vars PROVE TypeOK'
<1>1. Numbers' BY NextNumbers DEF TypeOK, Numbers
<1>2. (/\ unconnected \in SUBSET Devices
       /\ wanted \in BOOLEAN
       /\ owed \in BOOLEAN
       /\ phase \in Phases
       /\ pc \in {"idle", "refresh", "reset"}
       /\ m_devices \in SUBSET Devices
       /\ heard \in BOOLEAN)'
  <2> USE DEF TypeOK, Phases, scheduler, page
  <2>1. CASE Change BY <2>1, Zenon DEF Change
  <2>2. CASE Report \/ Tick BY <2>2, Zenon DEF Report, Tick
  <2>3. CASE SetCallback \/ SetCallbackData
    BY <2>3, Zenon DEF SetCallback, SetCallbackData
  <2>4. CASE ConnectNotify BY <2>4, Zenon DEF ConnectNotify
  <2>5. CASE LoadPage BY <2>5, Zenon DEF LoadPage
  <2>6. CASE HandleNotify \/ HandleTimeout \/ SetSnooze
    BY <2>6, Zenon DEF HandleNotify, HandleTimeout, SetSnooze
  <2>7. CASE ReadDevices \/ EndReset BY <2>7, Zenon DEF ReadDevices, EndReset
  <2>8. CASE UNCHANGED vars BY <2>8, Zenon DEF vars
  <2> QED
    BY <2>1, <2>2, <2>3, <2>4, <2>5, <2>6, <2>7, <2>8, Zenon DEF Next, MainStep
<1>3. (shown \in [devices : SUBSET Devices, alarm : BOOLEAN])'
  <2> USE DEF TypeOK, page
  <2>1. CASE LoadPage \/ EndReset
    <3>1. (m_devices # {} /\ is_alarm) \in BOOLEAN BY Zenon DEF is_alarm
    <3>2. shown' = [devices |-> m_devices, alarm |-> m_devices # {} /\ is_alarm]
      BY <2>1, Zenon DEF LoadPage, EndReset, Rows
    <3> QED BY <3>1, <3>2
  <2>2. shown' = shown \/ LoadPage \/ EndReset
    BY Zenon DEF Next, MainStep, Change, Report, Tick, SetCallback, SetCallbackData,
                 ConnectNotify, HandleNotify, HandleTimeout, ReadDevices, SetSnooze, vars
  <2> QED BY <2>1, <2>2, Zenon
<1> QED BY <1>1, <1>2, <1>3 DEF TypeOK, Numbers

LEMMA NextIInv == ASSUME IInv, [Next]_vars PROVE IInv'
<1>1. TypeOK' BY NextTypeOK DEF IInv
<1>2. (Watched /\ Loaded /\ Followed)'
  <2> USE TicksAssumption DEF IInv, TypeOK, Watched, Loaded, Followed, NoneWaiting,
                              is_alarm, AlarmDue, Off
  <2>1. CASE Change BY <2>1 DEF Change, page
  \* A report that crashes comes before the page is loaded.
  <2>2. CASE Report
    <3>1. /\ UNCHANGED <<snooze, timer, pc, page>>
          /\ phase' = IF phase = "callback set" THEN "crashed" ELSE phase
      BY <2>2 DEF Report
    <3>2. CASE phase = "loaded"
      <4>1. phase' = "loaded" /\ queued' = queued + 1 BY <2>2, <3>2 DEF Report
      <4>2. queued' # 0 BY <4>1
      <4> QED BY <3>1, <4>1, <4>2 DEF page
    <3>3. CASE phase # "loaded"
      <4>1. ~heard /\ pc = "idle" BY <3>3
      <4>2. heard' = heard /\ pc' = pc /\ snooze' = snooze /\ timer' = timer
        BY <3>1 DEF page
      <4> QED BY <4>1, <4>2
    <3> QED BY <3>2, <3>3
  \* With the timer off no snooze is running, so a tick leaves the alarm.
  <2>3. CASE Tick BY <2>3 DEF Tick, page
  \* Before the page is loaded nothing has been heard.
  <2>4. CASE SetCallback \/ SetCallbackData \/ ConnectNotify
    <3>1. phase # "loaded" /\ UNCHANGED <<scheduler, queued, timer, pc, page>>
      BY <2>4 DEF SetCallback, SetCallbackData, ConnectNotify
    <3>2. ~heard /\ pc = "idle" BY <3>1
    <3>3. heard' = heard /\ pc' = pc /\ snooze' = snooze /\ timer' = timer
      BY <3>1 DEF scheduler, page
    <3> QED BY <3>2, <3>3
  <2>5. CASE LoadPage BY <2>5 DEF LoadPage, Rows, scheduler
  <2>6. CASE HandleNotify \/ HandleTimeout
    BY <2>6 DEF HandleNotify, HandleTimeout, EventLoop, scheduler, page
  <2>7. CASE ReadDevices BY <2>7 DEF ReadDevices, scheduler
  <2>8. CASE EndReset BY <2>8 DEF EndReset, Rows, scheduler
  <2>9. CASE SetSnooze BY <2>9 DEF SetSnooze, EventLoop, page
  <2>10. CASE UNCHANGED vars BY <2>10 DEF vars, scheduler, page
  <2> QED
    BY <2>1, <2>2, <2>3, <2>4, <2>5, <2>6, <2>7, <2>8, <2>9, <2>10
    DEF Next, MainStep
<1> QED BY <1>1, <1>2 DEF IInv

LEMMA IInvAlways == Spec => []IInv
BY InitIInv, NextIInv, PTL DEF Spec

-----------------------------------------------------------------------------

\* The variables of the device list keep their types.
THEOREM DeviceTypeCorrect == Spec => []TypeOK
<1>1. IInv => TypeOK BY DEF IInv
<1> QED BY <1>1, IInvAlways, PTL

\* The page shows the devices and the alarm of the scheduler whenever no
\* change, report, queued refresh or running timer stands between the two
\* (DeviceListModel.cpp, populate and setSnooze; main.cpp, the callback).
THEOREM PageFollowsScheduler == Spec => []ShownIsCurrent
<1>1. IInv => ShownIsCurrent
  BY DEF IInv, TypeOK, Followed, NoneWaiting, ShownIsCurrent, Quiet, EventLoop, AlarmDue
<1> QED BY <1>1, IInvAlways, PTL

-----------------------------------------------------------------------------
(* The device list beside the forecast.                                    *)

LEMMA PanelStepIsDeviceStep == [PanelNext]_panelVars => [Next]_vars
<1> SUFFICES ASSUME [PanelNext]_panelVars PROVE [Next]_vars OBVIOUS
<1>1. CASE Beside BY <1>1, Zenon DEF Beside, Next
<1>2. CASE DeviceStep BY <1>2, Zenon DEF DeviceStep, Next
<1>3. CASE HandleHour \/ ReadForecast \/ HourPasses \/ ProgramEnds \/ PopenFails
  BY <1>3, Zenon DEF HandleHour, ReadForecast, HourPasses, ProgramEnds, PopenFails
<1>4. CASE UNCHANGED panelVars BY <1>4, Zenon DEF panelVars
<1> QED BY <1>1, <1>2, <1>3, <1>4, Zenon DEF PanelNext

\* Beside the forecast the device list is still one of DeviceListModel: that
\* its steps wait for the weather program takes behaviours away and adds none.
THEOREM PanelsImplementDevices == PanelSpec => Spec
<1>1. PanelInit => Init BY DEF PanelInit
<1> QED BY <1>1, PanelStepIsDeviceStep, PTL DEF PanelSpec, Spec

\* The page shows the devices and the alarm of the scheduler whenever
\* nothing is on its way to it, also after the thread was kept by the
\* program (main.cpp, the callback; WeatherListModel::populate).
THEOREM PanelsFollowScheduler == PanelSpec => []ShownIsCurrent
BY PanelsImplementDevices, PageFollowsScheduler, PTL

-----------------------------------------------------------------------------
(* The forecast.                                                           *)

\* One of its own steps, or none of its business.
LEMMA PanelStepIsForecastStep == [PanelNext]_panelVars => [Weather!Next]_forecast
<1> SUFFICES ASSUME [PanelNext]_panelVars PROVE [Weather!Next]_forecast OBVIOUS
<1>1. CASE Beside \/ DeviceStep BY <1>1, Zenon DEF Beside, DeviceStep
<1>2. CASE HandleHour \/ ReadForecast \/ HourPasses \/ ProgramEnds \/ PopenFails
  BY <1>2, Zenon DEF HandleHour, ReadForecast, HourPasses, ProgramEnds, PopenFails,
                     Weather!Next
<1>3. CASE UNCHANGED panelVars BY <1>3, Zenon DEF panelVars
<1> QED BY <1>1, <1>2, <1>3, Zenon DEF PanelNext

\* The forecast beside the device list is one of WeatherListModel.
THEOREM PanelsImplementForecast == PanelSpec => Weather!Spec
<1>1. PanelInit => Weather!Init BY DEF PanelInit
<1>2. PanelSpec => Weather!Init /\ [][Weather!Next]_forecast
  BY <1>1, PanelStepIsForecastStep, PTL DEF PanelSpec
<1> QED BY <1>2 DEF Weather!Spec, Weather!vars, forecast

\* The lines are whole pieces of a report, in place, without their ends.
WholeLines(lines) ==
    \E report \in Reports :
        /\ Len(lines) + 2 <= Len(report) \/ lines = <<>>
        /\ \A i \in 1..Len(lines) :
               lines[i] = SubSeq(report[i + 1], 1, Len(report[i + 1]) - 1)

\* Whatever is left of the cell at which the program died is dropped with
\* the piece it stands in, and the header as well.
LEMMA CutIsWhole ==
    ASSUME NEW report \in Reports, NEW n \in 0..(Len(report) - 1),
           NEW k \in 0..(Len(report[n + 1]) - 1), NEW fragment \in Fragments,
           NEW lines, lines = Weather!split_api_output(Weather!Cut(report, n, k, fragment))
    PROVE  lines \in Seq(Seq(Int)) /\ WholeLines(lines)
<1> DEFINE head == SubSeq(report, 1, n)
           last == Append(SubSeq(report[n + 1], 1, k), fragment)
           cut == Append(head, last)
           kept == SubSeq(cut, 2, n)
<1>1. report \in Seq(Seq(Int)) /\ fragment \in Int BY ReportsAssumption
<1>2. report[n + 1] \in Seq(Int) BY <1>1
<1>3. head \in Seq(Seq(Int)) /\ Len(head) = n /\ \A i \in 1..n : head[i] = report[i]
  BY <1>1
<1>4. last \in Seq(Int) BY <1>1, <1>2
<1>5. cut \in Seq(Seq(Int)) /\ Len(cut) = n + 1 /\ \A i \in 1..n : cut[i] = report[i]
  <2> HIDE DEF head, last
  <2> QED BY <1>3, <1>4
<1>6. /\ kept \in Seq(Seq(Int))
      /\ Len(kept) = IF n >= 2 THEN n - 1 ELSE 0
      /\ \A i \in 1..Len(kept) : kept[i] = report[i + 1]
  <2> HIDE DEF cut
  <2>1. n \in Int /\ 2 \in Int BY <1>1
  <2>2. \A i \in 2..n : cut[i] \in Seq(Int) BY <1>5
  <2>3. /\ kept \in Seq(Seq(Int))
        /\ Len(kept) = IF 2 <= n THEN n - 2 + 1 ELSE 0
        /\ \A i \in 1..(n - 2 + 1) : kept[i] = cut[2 + i - 1]
    BY <2>1, <2>2, SubSeqProperties
  <2> HIDE DEF kept
  <2>4. \A i \in 1..Len(kept) : i \in 1..(n - 2 + 1) /\ 2 + i - 1 = i + 1 /\ i + 1 \in 1..n
    <3>1. ASSUME NEW a \in Int, NEW l \in Int, l = IF 2 <= a THEN a - 2 + 1 ELSE 0
          PROVE  \A i \in 1..l : i \in 1..(a - 2 + 1) /\ 2 + i - 1 = i + 1 /\ i + 1 \in 1..a
      BY <3>1
    <3>2. ASSUME NEW a \in Int PROVE (IF 2 <= a THEN a - 2 + 1 ELSE 0) \in Int
      OBVIOUS
    <3>3. Len(kept) \in Int BY <2>1, <2>3, <3>2, Zenon
    <3> QED BY <2>1, <2>3, <3>1, <3>3, Zenon
  <2>5. \A i \in 1..Len(kept) : kept[i] = report[i + 1]
    <3> SUFFICES ASSUME NEW i \in 1..Len(kept) PROVE kept[i] = report[i + 1]
      OBVIOUS
    <3>1. kept[i] = cut[2 + i - 1] BY <2>3, <2>4, Zenon
    <3>2. cut[2 + i - 1] = cut[i + 1] BY <2>4, Zenon
    <3>3. cut[i + 1] = report[i + 1] BY <1>5, <2>4, Zenon
    <3> QED BY <3>1, <3>2, <3>3, Zenon
  <2>6. Len(kept) = IF n >= 2 THEN n - 1 ELSE 0
    <3>1. ASSUME NEW a \in Int
          PROVE  (IF 2 <= a THEN a - 2 + 1 ELSE 0) = IF a >= 2 THEN a - 1 ELSE 0
      OBVIOUS
    <3> QED BY <2>1, <2>3, <3>1, Zenon
  <2> QED BY <2>3, <2>5, <2>6, Zenon
<1>7. lines = [i \in DOMAIN kept |-> SubSeq(kept[i], 1, Len(kept[i]) - 1)]
  <2>1. Weather!Cut(report, n, k, fragment) = cut BY DEF Weather!Cut
  <2>2. Weather!split(cut, TRUE) = kept
    <3> HIDE DEF cut
    <3> QED BY <1>5 DEF Weather!split
  <2> HIDE DEF cut, kept
  <2> QED BY <2>1, <2>2 DEF Weather!split_api_output, Weather!split
<1> HIDE DEF kept
<1>8. DOMAIN kept = 1..Len(kept) /\ Len(kept) \in Nat BY <1>6
<1>9. \A i \in 1..Len(kept) : kept[i] \in Seq(Int) BY <1>6
<1>10. \A i \in 1..Len(kept) : SubSeq(kept[i], 1, Len(kept[i]) - 1) \in Seq(Int)
  BY <1>9
<1>11. lines \in Seq(Seq(Int)) /\ Len(lines) = Len(kept)
  BY <1>7, <1>8, <1>10
<1>12. \A i \in 1..Len(lines) :
          lines[i] = SubSeq(report[i + 1], 1, Len(report[i + 1]) - 1)
  BY <1>6, <1>7, <1>8, <1>11
<1>13. Len(lines) + 2 <= Len(report) \/ lines = <<>>
  <2>1. CASE n >= 2 BY <2>1, <1>1, <1>6, <1>11
  <2>2. CASE n < 2 BY <2>2, <1>1, <1>6, <1>11
  <2> QED BY <2>1, <2>2
<1> QED BY <1>11, <1>12, <1>13 DEF WholeLines

ForecastInv ==
    /\ Weather!TypeOK
    /\ WholeLines(m_api_output_lines)
    /\ OnlyShortLinesAbort

LEMMA InitForecastInv == ASSUME PanelInit PROVE ForecastInv
<1>1. /\ process = "up" /\ due = FALSE /\ running = TRUE
      /\ m_api_output_lines = <<>>
  BY DEF PanelInit, Weather!Init
<1>2. PICK report \in Reports : TRUE BY ReportsAssumption
<1>3. WholeLines(m_api_output_lines)
  <2>1. Len(m_api_output_lines) = 0 BY <1>1
  <2> QED BY <1>1, <1>2, <2>1 DEF WholeLines
<1>4. Weather!TypeOK
  <2>1. <<>> \in Seq(Seq(Int)) OBVIOUS
  <2>2. due \in BOOLEAN /\ running \in BOOLEAN BY <1>1, Zenon
  <2> QED BY <1>1, <2>1, <2>2, Zenon DEF Weather!TypeOK
<1> QED BY <1>1, <1>3, <1>4
        DEF ForecastInv, OnlyShortLinesAbort, Weather!OnlyShortLinesAbort

LEMMA NextForecastInv ==
    ASSUME ForecastInv, [Weather!Next]_forecast PROVE ForecastInv'
<1> USE DEF ForecastInv, Weather!TypeOK, OnlyShortLinesAbort,
            Weather!OnlyShortLinesAbort
<1>1. CASE Weather!HourPasses BY <1>1 DEF Weather!HourPasses, WholeLines
<1>2. CASE Weather!HandleHour BY <1>2 DEF Weather!HandleHour, WholeLines
<1>3. CASE Weather!ProgramEnds
  <2>1. PICK report \in Reports :
          \E n \in 0..(Len(report) - 1), fragment \in Fragments :
          \E k \in 0..(Len(report[n + 1]) - 1) :
              m_api_output_lines'
                  = Weather!split_api_output(Weather!Cut(report, n, k, fragment))
    BY <1>3 DEF Weather!ProgramEnds
  <2>2. PICK n \in 0..(Len(report) - 1), fragment \in Fragments :
          \E k \in 0..(Len(report[n + 1]) - 1) :
              m_api_output_lines'
                  = Weather!split_api_output(Weather!Cut(report, n, k, fragment))
    BY <2>1
  <2>3. PICK k \in 0..(Len(report[n + 1]) - 1) :
              m_api_output_lines'
                  = Weather!split_api_output(Weather!Cut(report, n, k, fragment))
    BY <2>2
  <2>4. m_api_output_lines' \in Seq(Seq(Int)) /\ WholeLines(m_api_output_lines')
    BY <2>3, CutIsWhole
  <2>5. process' = "up" /\ process = "up" /\ due' = due /\ running' = FALSE
    BY <1>3 DEF Weather!ProgramEnds
  <2> QED BY <2>4, <2>5 DEF WholeLines
<1>4. CASE Weather!PopenFails BY <1>4 DEF Weather!PopenFails, WholeLines
\* The row that is read has all seven columns, so the one before it is short.
<1>5. CASE Weather!ReadThrows
  <2>1. PICK row \in Weather!Rows : Weather!Throws(row)
    BY <1>5 DEF Weather!ReadThrows
  <2>2. row > 0 /\ row - 1 + 1 \in DOMAIN m_api_output_lines
    BY <2>1 DEF Weather!Rows, Weather!rowCount, Weather!Throws, Weather!HasData,
           Weather!RainThrows, Weather!Line
  <2>3. Len(m_api_output_lines[row - 1 + 1]) < 5
    BY <2>1, <2>2 DEF Weather!Throws, Weather!RainThrows, Weather!HasData, Weather!Line
  <2>4. UNCHANGED <<due, running, m_api_output_lines>> /\ process' = "aborted"
    BY <1>5 DEF Weather!ReadThrows
  <2>5. \E i \in DOMAIN m_api_output_lines : Len(m_api_output_lines[i]) < 5
    BY <2>2, <2>3
  <2> QED BY <2>4, <2>5 DEF WholeLines
<1>6. CASE UNCHANGED forecast BY <1>6 DEF forecast, WholeLines
<1> QED BY <1>1, <1>2, <1>3, <1>4, <1>5, <1>6 DEF Weather!Next

LEMMA ForecastInvAlways == PanelSpec => []ForecastInv
<1>1. ForecastInv /\ [PanelNext]_panelVars => ForecastInv'
  BY PanelStepIsForecastStep, NextForecastInv
<1> QED BY <1>1, InitForecastInv, PTL DEF PanelSpec

\* The forecast and the device list keep their types, whatever is printed.
THEOREM PanelTypeCorrect == PanelSpec => []PanelTypeOK
<1>1. TypeOK /\ ForecastInv => PanelTypeOK BY DEF ForecastInv, PanelTypeOK
<1> QED BY <1>1, ForecastInvAlways, PanelsImplementDevices, DeviceTypeCorrect, PTL

\* Only a line without a column for the rain can make the read of a row
\* throw, wherever the program dies (WeatherListModel::data,
\* get_rain_ammount).
THEOREM ShortLinesAbort == PanelSpec => []OnlyShortLinesAbort
<1>1. ForecastInv => OnlyShortLinesAbort BY DEF ForecastInv
<1> QED BY <1>1, ForecastInvAlways, PTL

\* No fragment of a line is ever shown, and no row out of its place
\* (split, split_api_output, rowCount).
THEOREM RowsFromReport == PanelSpec => []RowsAreOfReport
<1>1. ForecastInv => RowsAreOfReport
  <2> SUFFICES ASSUME ForecastInv PROVE RowsAreOfReport OBVIOUS
  <2>1. PICK report \in Reports :
          \A i \in 1..Len(m_api_output_lines) :
              m_api_output_lines[i] = SubSeq(report[i + 1], 1, Len(report[i + 1]) - 1)
    BY DEF ForecastInv, WholeLines
  <2>2. Len(m_api_output_lines) \in Nat
    BY DEF ForecastInv, Weather!TypeOK
  <2>3. \A row \in Weather!Rows :
          Weather!Line(row) = SubSeq(report[row + 2], 1, Len(report[row + 2]) - 1)
    <3> SUFFICES ASSUME NEW row \in Weather!Rows
                 PROVE  Weather!Line(row)
                            = SubSeq(report[row + 2], 1, Len(report[row + 2]) - 1)
      OBVIOUS
    <3>1. row + 1 \in 1..Len(m_api_output_lines) /\ row + 1 + 1 = row + 2
      BY <2>2 DEF Weather!Rows, Weather!rowCount
    <3> QED BY <2>1, <3>1 DEF Weather!Line
  <2> QED BY <2>3 DEF RowsAreOfReport, Weather!RowsAreOfReport
<1> QED BY <1>1, ForecastInvAlways, PTL

=============================================================================
