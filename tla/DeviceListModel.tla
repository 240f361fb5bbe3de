-------------------------- MODULE DeviceListModel ---------------------------
(***************************************************************************)
(* DeviceListModel and the page that shows it, beside the scheduler of the *)
(* BoredomScheduler library, which has a thread of its own.                *)
(*                                                                         *)
(* The library is external: here it has a set of unconnected devices and a *)
(* wish to raise the alarm, both of which change at any time and are       *)
(* reported afterwards through a callback; is_alarm is that wish, unless   *)
(* snoozed.  The end of a snooze is reported by nobody.                    *)
(*                                                                         *)
(* The callback emits a signal across threads, so the refresh it asks for  *)
(* is queued for the main thread.  The library keeps the callback and its  *)
(* data, a null pointer at first, apart.                                   *)
(***************************************************************************)
EXTENDS Integers

CONSTANTS
    Devices,      \* names of devices
    SnoozeTicks,  \* m_snooze_time
    TimerTicks,   \* the interval of m_timer: m_snooze_time and five seconds
    MaxQueued     \* bound: refreshes queued at once

ASSUME TicksAssumption ==
    /\ SnoozeTicks \in Nat \ {0}
    /\ TimerTicks \in Nat
    /\ SnoozeTicks < TimerTicks

ASSUME QueueAssumption == MaxQueued \in Nat \ {0}

VARIABLES
    unconnected,  \* the scheduler: devices not connected,
    wanted,       \*   does it want the alarm,
    snooze,       \*   ticks until the end of the snooze,
    owed,         \*   a change it has not reported yet
    phase,        \* how far main has come, or that it crashed
    queued,       \* refreshes waiting for the main thread
    timer,        \* ticks until m_timer fires; Off when it is not active
    pc,           \* the main thread: "idle" is the event loop
    m_devices,    \* the names in the model
    shown,        \* what the page has last read
    heard         \* has a refresh ended since the page was loaded

scheduler == <<unconnected, wanted, snooze, owed>>
page == <<m_devices, shown, heard>>
vars == <<scheduler, phase, queued, timer, pc, page>>

Off == -1

is_alarm == wanted /\ snooze = 0

Phases == {"constructed", "callback set", "data set", "connected", "loaded", "crashed"}

TypeOK ==
    /\ unconnected \in SUBSET Devices
    /\ wanted \in BOOLEAN
    /\ snooze \in 0..SnoozeTicks
    /\ owed \in BOOLEAN
    /\ phase \in Phases
    /\ queued \in 0..MaxQueued
    /\ timer \in {Off} \cup 0..TimerTicks
    /\ pc \in {"idle", "refresh", "reset"}
    /\ m_devices \in SUBSET Devices
    /\ shown \in [devices : SUBSET Devices, alarm : BOOLEAN]
    /\ heard \in BOOLEAN

\* The model has just been constructed, with the devices of that moment.
Init ==
    /\ unconnected \in SUBSET Devices
    /\ wanted \in BOOLEAN
    /\ snooze = 0
    /\ owed = FALSE
    /\ phase = "constructed"
    /\ queued = 0
    /\ timer = Off
    /\ pc = "idle"
    /\ m_devices = unconnected
    /\ shown = [devices |-> {}, alarm |-> FALSE]
    /\ heard = FALSE

-----------------------------------------------------------------------------
(* The scheduler's thread, and time.                                       *)

Change ==
    /\ phase # "crashed"
    /\ ~owed
    /\ unconnected' \in SUBSET Devices
    /\ wanted' \in BOOLEAN
    /\ <<unconnected', wanted'>> # <<unconnected, wanted>>
    /\ owed' = TRUE
    /\ UNCHANGED <<snooze, phase, queued, timer, pc, page>>

\* refresh_device_list: the signal of the notifier reaches whoever is
\* connected to it by now.  As long as the callback has no data the notifier
\* is a null pointer, and the process ends.
Report ==
    /\ phase # "crashed"
    /\ owed
    /\ owed' = FALSE
    /\ phase' = IF phase = "callback set" THEN "crashed" ELSE phase
    /\ IF phase \in {"connected", "loaded"}
       THEN queued < MaxQueued /\ queued' = queued + 1
       ELSE UNCHANGED queued
    /\ UNCHANGED <<unconnected, wanted, snooze, timer, pc, page>>

Tick ==
    /\ phase # "crashed"
    /\ snooze > 0 \/ timer > 0
    /\ snooze' = IF snooze > 0 THEN snooze - 1 ELSE 0
    /\ timer' = IF timer > 0 THEN timer - 1 ELSE timer
    /\ UNCHANGED <<unconnected, wanted, owed, phase, queued, pc, page>>

-----------------------------------------------------------------------------
(* The main thread.                                                        *)

\* The rest of main: the callback, its data, the connection, the page, which
\* reads the rows as it is loaded.
SetCallback ==
    /\ phase = "constructed"
    /\ phase' = "callback set"
    /\ UNCHANGED <<scheduler, queued, timer, pc, page>>

SetCallbackData ==
    /\ phase = "callback set"
    /\ phase' = "data set"
    /\ UNCHANGED <<scheduler, queued, timer, pc, page>>

\* What the page sees: a row for each name of the model, on which the alarm,
\* asked for as the row is read, is a colour.  Without a row there is none.
Rows == [devices |-> m_devices, alarm |-> m_devices # {} /\ is_alarm]

ConnectNotify ==
    /\ phase = "data set"
    /\ phase' = "connected"
    /\ UNCHANGED <<scheduler, queued, timer, pc, page>>

LoadPage ==
    /\ phase = "connected"
    /\ phase' = "loaded"
    /\ shown' = Rows
    /\ UNCHANGED <<scheduler, queued, timer, pc, m_devices, heard>>

EventLoop == phase = "loaded" /\ pc = "idle"

\* Mutant of HandleNotify: the loop refreshes without having been asked.
RefreshUnasked ==
    /\ EventLoop
    /\ queued' = queued - 1
    /\ pc' = "refresh"
    /\ UNCHANGED <<scheduler, phase, timer, page>>

HandleNotify ==
    /\ EventLoop
    /\ queued > 0
    /\ queued' = queued - 1
    /\ pc' = "refresh"
    /\ UNCHANGED <<scheduler, phase, timer, page>>

\* m_timer is a single shot.
HandleTimeout ==
    /\ EventLoop
    /\ timer = 0
    /\ timer' = Off
    /\ pc' = "refresh"
    /\ UNCHANGED <<scheduler, phase, queued, page>>

\* populate: the names are read in one call of the scheduler ...
ReadDevices ==
    /\ pc = "refresh"
    /\ m_devices' = unconnected
    /\ pc' = "reset"
    /\ UNCHANGED <<scheduler, phase, queued, timer, shown, heard>>

\* ... and the alarm in another, when the reset makes the page read the rows.
EndReset ==
    /\ pc = "reset"
    /\ shown' = Rows
    /\ heard' = TRUE
    /\ pc' = "idle"
    /\ UNCHANGED <<scheduler, phase, queued, timer, m_devices>>

\* Mutant of SetSnooze: a timer that is running is left to run.
SnoozeKeepTimer ==
    /\ EventLoop
    /\ shown.devices # {}
    /\ snooze' = SnoozeTicks
    /\ timer' = IF timer = Off THEN TimerTicks ELSE timer
    /\ pc' = "refresh"
    /\ UNCHANGED <<unconnected, wanted, owed, phase, queued, page>>

\* setSnooze, for a press on any row, whether it shows an alarm or not; start
\* begins the interval anew when the timer is running.
SetSnooze ==
    /\ EventLoop
    /\ shown.devices # {}
    /\ snooze' = SnoozeTicks
    /\ timer' = TimerTicks
    /\ pc' = "refresh"
    /\ UNCHANGED <<unconnected, wanted, owed, phase, queued, page>>

MainStep ==
    \/ SetCallback
    \/ SetCallbackData
    \/ ConnectNotify
    \/ LoadPage
    \/ HandleNotify
    \/ HandleTimeout
    \/ ReadDevices
    \/ EndReset

Next == Change \/ Report \/ Tick \/ MainStep \/ SetSnooze

Spec == Init /\ [][Next]_vars

-----------------------------------------------------------------------------

\* There is a device to show the alarm on.
AlarmDue == is_alarm /\ unconnected # {}

\* Nothing is on its way to the page.
Quiet == EventLoop /\ queued = 0 /\ ~owed /\ timer = Off

\* The page is right when nothing is on its way to it, however changes,
\* their reports, the two reads of a refresh, snoozes and the timer have
\* followed on each other.  Only what changed before the callback was
\* connected may have been missed, until the first refresh.
ShownIsCurrent ==
    Quiet /\ heard => shown = [devices |-> unconnected, alarm |-> AlarmDue]

=============================================================================
