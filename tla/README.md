# Verification of tasktracker

TLA+ models of the task tracker: a C++ library (`src/lib`) that keeps recurring
tasks and their daily instances in an SQLite file, and a Qt application
(`src/src/app`) that shows the instances of a day, lets the user mark them, and
takes tasks from an HTTP server. The models are checked with TLC on small instances;
theorems about the schedule, the tracker, its database driver, the application and
its side panels are proved with TLAPS for every value of the constants.

## 1. The system

| Component | Code | State | Operations |
|---|---|---|---|
| Schedule | `task.cpp` `Task::occurs`, `s_get_nth_weekday_of_month` | none | does a task occur on a day; its hour |
| Task tracker | `tasktracklib.cpp`, `task.cpp` | `m_tasks`, `m_task_instances` | `add_task`, `delete_task`, edits of a `Task`, `get_task_instances` by `tm` and by date, `clear`; `start/skip/finish_task`, `set_undone`, `set_comment` on an instance |
| Database driver | `database_driver.cpp` | the tables `TASKS` and `TASK_INSTANCES`; a handle | one SQL statement, one transaction, per call |
| HTTP server | `AddTaskServer.cpp` | none of its own | `/add`, `/modify`, `/delete`, `/gettasks`; `dataModified` after each change |
| Task list model | `TaskListModel.cpp`, QML | `m_active_task_instance_list` (pointers to instances), `m_date`; the date above the list | set finished, undone, skipped; remove; refresh; next, previous day; today |
| Application | `main.cpp` | owns everything | wires the signals; optional clear and test tasks |
| Device list model | `DeviceListModel.cpp` | known devices, an alarm, a snooze timer | refresh, snooze; a notification from the scheduler's thread |
| Weather list model | `WeatherListModel.cpp` | the split output of a program, an hourly timer | populate, which waits for the program; row guards |
| Top options | `TopOptions.cpp` | an address chosen once | forwards two values to QML |

**How they interact.** The list model holds raw pointers to the instances the
tracker caches and calls their operations. The HTTP server edits the tracker's
tasks and emits `dataModified`, which `main.cpp` connects to the list model's
`refresh`. Everything but the device scheduler runs in the one Qt thread, so
calls into the tracker do not overlap. What does interleave is the *end of the
process* with the statements of a call: `add_task` is an INSERT and an UPDATE, a
new instance is an INSERT and an UPDATE, `clear` is two DROPs, and nothing
groups them. The next process starts with what the file holds and an empty cache.
In the same way every statement can throw `DatabaseErr`; the application catches
nothing, so there an exception is the end of the process, but the library promises
the exception to callers who may catch it and go on. The side panels share no data
with the list; they share its thread, which the weather program keeps for as long
as it runs.

**What is hard.**

- A cache over a table: an operation on an instance changes memory and then the
  row, and an UPDATE of a row that is not there does nothing and says nothing.
- Two statements per creation, with a crash, or an exception, in between; memory
  changed before the UPDATE that may throw.
- One handle per call, closed by the statement that fails and never reset.
- Identity: the uid of an instance is made of the name, the id and the date,
  and SQLite gives the id of the last deleted task to the next one.
- Time: `occurs` divides seconds by 24 hours; days are 23 or 25 hours long
  twice a year, and `mktime` trusts the `tm_isdst` it is given.
- Sequences of legal requests that reach a state the code does not expect: an
  edit that makes a task periodic and leaves its interval zero.

**What makes each part correct.** Schedule: a task occurs on the days its type
names, whatever the hour asked and whichever overload. Tracker: memory agrees
with the file; a cached instance has a row and equals it; a listing is exact;
the user's marks survive edits and restarts as long as their task is there;
pointers handed out stay good; every call ends. Driver: a handle is open only while the call that opened it
runs; a new id is that of one's own row. List model: the label names the day that is shown, and
its pointers are into the cache; browsing skips no day. Device model: an alarm is shown until it is
snoozed and comes back after the snooze. Weather model: a row that passes the
guard is a whole line of one report and reads no column that is missing.

The hazards, each at its line, are in `PROJECT.json`.

## 2. Modules

| Module | Lines of code it stands for | What it is |
|---|---|---|
| `Calendar` | the C library; `nextDay`, `previousDay` | `localtime` and `mktime` over a table of months and one daylight saving period |
| `Task` | `task.cpp` 5-20, 148-262 | `occurs` and the scheduled hour, as operators |
| `TaskCheck`, `MCTaskCheck` | | a clock that runs through a year, asks `occurs` every hour and browses the days from there |
| `CalendarProofs`, `ScheduleProofs` | | theorems about `Calendar` and `Task`, and about `TaskCheck` |
| `TaskTracker` | `tasktracklib.cpp`, `database_driver.cpp`, the instance operations of `task.cpp`, the handlers of `AddTaskServer.cpp` | the tracker and its tables, statement by statement |
| `MCTaskTracker` | | values for `TaskTracker` |
| `TaskTrackerProofs` | | theorems about `TaskTracker` |
| `TrackerFaults`, `MCTrackerFaults` | `m_execute`'s `throw`, through every call of the tracker | the tracker for a caller that catches what a statement throws (EXTENDS `TaskTracker`); values for it |
| `TrackerFaultsProofs` | | theorems about `TrackerFaults` |
| `TaskBoard` | | the abstract specification: a board of tasks and marks, with no memory, file or cache |
| `TrackerBoard` | | the refinement mapping of `TaskTracker` to `TaskBoard` |
| `BoardProofs` | | the tracker, and the application, implement `TaskBoard` |
| `DatabaseDriver` | `database_driver.cpp` | a call of a driver from `m_open_db` to `m_close_db`, with everything that can fail in it; the mapping to `DriverStore` |
| `DriverStore` | | the abstract specification: a store whose calls happen at one moment, with no handles and no statements |
| `DatabaseDriverProofs` | | theorems about `DatabaseDriver` |
| `TaskListModel` | `TaskListModel.cpp`, `TaskList.qml`, the date in `Main.qml` | the list of a day, over the calls of `TaskTracker` (EXTENDS it) |
| `App`, `MCApp` | `main.cpp`, `add_test_tasks`, the handlers of `AddTaskServer.cpp` as requests | start, requests, clock and end of the process, over `TaskListModel`; values for it |
| `AppProofs` | | theorems about `App`; it implements `TaskTracker` |
| `DeviceListModel` | `DeviceListModel.cpp`, `DeviceList.qml`, the callback in `main.cpp` | the device list beside the scheduler's thread; it shares nothing with the tracker |
| `WeatherListModel` | `WeatherListModel.cpp`, `WeatherList.qml` | the forecast: timer, program, rows |
| `SidePanels`, `MCSidePanels` | the event loop of `main.cpp` | both panels in one thread (EXTENDS `DeviceListModel`, INSTANCE `WeatherListModel`); values for it |
| `SidePanelsProofs` | | theorems about the two panels, alone and together |

**Time** (`Calendar`). A `time_t` is a number of hours, since nothing in the
scheduler depends on minutes or seconds. The pair of year and month is one index
into a table of month starts. `mktime` is given the `tm_isdst` it is given: this
is what the C library does with a flag that is zero or positive, and it is where
the errors in the days of a change of the clock come from. `mktime` does not
normalise an `mday` of 0 or more than the month has: the code never passes one.
`nextDay` and `previousDay` are what the slots of these names do to `m_date`: a day
is 24 hours to them, whatever the clock does.

**Schedule** (`Task`). One operator per branch of `occurs`. `Traps` is the
division by `repeat_info` zero. C++ integer division is `\div` here, because the
dividend is not negative where it is reached.

**Tracker** (`TaskTracker`). The two tables are durable; `m_tasks` and
`m_task_instances` are not. `pc` is the statement the running call has come to:
`idle`, `adding` (after the INSERT of `add_task`), `scanning` (in the loop of
`get_task_instances`), `filling` (after the INSERT of an instance), `clearing`
(after the first DROP) and `down`. Each step between two of these issues at most
one statement. Correspondence:

| Action | Code |
|---|---|
| `AddTask`, `AddTaskFill` | `TaskTracker::add_task` with `TaskDatabase::create_task`, `update_task` |
| `DeleteTask` | `TaskTracker::delete_task`: the row and the task; instances stay |
| `ModifyTask`, `ModifyUnknownTask` | `TaskServer::modifyTask`; an unknown id is a null dereference, which ends the process |
| `SetTaskComment` | `Task::set_comment` |
| `StartTask`, `SkipTask`, `FinishTask`, `SetUndone`, `SetComment` | the operations of `TaskInstance` |
| `GetTaskInstances`, `GetTaskInstancesOn` | the two `get_task_instances`: the second passes a `tm` whose weekday is not set |
| `ScanSkip`, `ScanCached`, `ScanLoad`, `ScanInsert`, `Fill`, `ScanTrap`, `ListReturn` | one turn of its loop, by the branch taken in `m_create_task_instance` |
| `Clear`, `ClearInstances` | `TaskTracker::clear` |
| `Crash`, `Restart` | the end of the process, and the constructor |

A row is a record of the columns. `SavedTask` and `SavedInstance` are what an
UPDATE writes: the comment escaped, and no finish time that the code does not
set. `BlankTask` and `BlankInstance` are what a SELECT reads from a row that was
only inserted. `escape_quote` is a function on the strings that occur, and is
only assumed to be idempotent and to keep the empty string. A name is a value,
not characters: the identifier ends in four numbers, so it can be taken apart
from the right and equal identifiers have equal parts.

**Exceptions** (`TrackerFaults`). Every statement of the tracker may throw, and the
caller may catch it and make another call. `AddTaskThrows`, `ModifyTaskThrows`,
`SetTaskCommentThrows`, `SetStateThrows`, `SetCommentThrows`, `ScanThrows`,
`FillThrows` and `ClearThrows` are the calls of `TaskTracker` up to the statement
that throws; what they have changed by then, in memory or in the file, stays
changed. A statement that throws before its call has changed anything leaves no
trace and is no step. Four history variables say what such a caller would have to
remember: tasks and instances whose last change is in memory alone, rows a listing
did not complete, and a `clear` that stopped half way (`halfCleared`). After that
`clear` the old tasks are still in memory, the new table counts from one again, and
`add_task` puts a second task with the id of an old one into `m_tasks`. The model
files tasks by id and cannot show two of one id, so it adds no task until a `clear`
or a start that succeeds; this bound is in the guard of `PlainStep`, and `AddedIsNew`
says that it is not about what comes after such a `clear`. Every other call is made
there too.

**Driver** (`DatabaseDriver`). One call at a time of one of the two drivers.
`Program` is the order of a call's steps: open, one statement or two, close; for
`clear` that twice. Every open and every statement may fail: `OpenFails` throws with
a handle that nobody closes, or with none; `StatementFails` closes the handle and
throws. `m_db` keeps an address after it is closed, and an address that is free may
be given again, to the other driver too; that is how a handle used too late would
show. `OtherInserts` is another program on the same file, between any two steps.

| Action | Code |
|---|---|
| `Open`, `OpenFails` | `m_open_db` |
| `Create`, `Drop`, `InsertTask`, `InsertInstance`, `LastInsertRowid`, `Update`, `Delete`, `Select` | `m_execute`, the statement succeeding |
| `StatementFails` | `m_execute`, the statement failing |
| `Close`, `Return` | `m_close_db`, the return of the call |

**Store** (`DriverStore`). The tracker's model takes a call of a driver for one
step; `DriverStore` is what makes that right, and `KeepsStore` says that the driver
implements it. A call is asked for, takes effect at one moment and returns, or
throws; `clear` alone takes effect at two, and in between its table is not there.
The mapping (`Request`, `Phase`) forgets the handle and counts the statements: a call
has happened with its first statement. For a new task that is the INSERT, although
its id is asked for later, so the mapped call has the id from the INSERT on, and a
question that read another id would be no step of the store.

**Promise** (`TaskBoard`, `TrackerBoard`). Users of the tracker see tasks, and
marks (state and comment) on the instances that have been listed. `TaskBoard`
has these, the set of instances shown, and a flag for a `clear` that is under
way; it has no cache, no file and no restart. `Close`, the end of the process,
takes only what is shown, and may leave a task of which there is just a name.
`Remove` takes the task; whether the marks on its instances go with it is left open,
because `TaskListModel.h:59` says they do and the code keeps them.
Under the mapping the tasks are those in memory while there is a process and
those of the file when there is none, and a mark is read from the cached instance
first: so what `KeepsBoard` says is that what the user saw is what the next
process finds.

**List** (`TaskListModel`). A handler of the list model makes a call of the
tracker, which takes several steps, and goes on when it returns. `call` says
which part of a handler is left: `populate` (a listing is running),
`refresh` (a change was made, and `refresh` follows), `none` (the event loop).
`rows` is `m_active_task_instance_list` as a set of identifiers, `label` the day
`Main.qml` last heard of through `dateChanged`.

| Action | Code |
|---|---|
| `SetToday`, `NextDay`, `PreviousDay` | the slots of these names: `m_date`, `dateChanged`, `populate` |
| `Refresh` | `refresh`: the same for today, without `dateChanged` |
| `BeginPopulate`, `EndPopulate` | `populate` on either side of the listing |
| `SetFinished`, `SetSkipped`, `SetUndoneRow`, `RemoveTask` | the slots, with the guards of the buttons in `TaskList.qml` |

**Application** (`App`). `Start`, `ClearForTests`, `AddTestTask` and
`MakeListModel` are `main` up to the event loop; `call` is then `starting` or
`testing`. `Serve` is a request: the operation, then `dataModified`, which is
connected to `refresh`. `Tick` is the clock, between events. `Stop` is every way
the process ends. Each step is one of `TaskTracker` or leaves it alone, which is
proved (`AppImplementsTracker`) and lets its theorems be used here.

**Device list** (`DeviceListModel`). The scheduler (a library) is external: a
set of unconnected devices and a wish to raise the alarm that may change at any
moment (`Change`) and are reported afterwards (`Report`); `is_alarm` is the
wish unless a snooze runs, and nobody reports the end of a snooze. This is how
`main.cpp` and the model use it. The callback emits a signal from the
scheduler's thread, so what it asks for is queued. The main thread first
finishes `main` (`SetCallback`, `SetCallbackData`, `ConnectNotify`, `LoadPage`), then
handles a queued refresh, the timer or a press (`HandleNotify`, `HandleTimeout`,
`SetSnooze`); each runs a refresh in two steps, the names (`ReadDevices`) and,
as the page reads the rows, the alarm (`EndReset`), and the scheduler may
change in between. A report between `SetCallback` and `SetCallbackData` finds a null
notifier and ends the process (`crashed`). `Rows` is what the page reads: the alarm is
a role of a row, so without a device there is no alarm to see (`AlarmDue`).

**Forecast** (`WeatherListModel`). A text is the sequence of its pieces between
newlines and a piece that of its cells between commas, so `split` is a subsequence:
it drops what stands after the last delimiter, and the header. `process` is `up`
until `popen` fails (`exit`) or a missing column is read (`at` throws, nobody
catches). `RainThrows` is what is kept of the rain of an hour: which columns of which
rows it reads. The number it shows is left out. A view asks for the rows there are
(`Rows`): the guard of `data` would not stop any other one when there is no line, since
it then compares with the largest `size_t`.

| Action | Code |
|---|---|
| `HourPasses` | the timer of the constructor fires |
| `HandleHour` | the event loop calls `populate`, which starts the program |
| `ProgramEnds` | the rest of `populate`: `read_weather` returns what was printed, at most a whole report and possibly less (`Cut`), and the lines are replaced |
| `PopenFails`, `ReadThrows` | the two ways out |

**Side panels** (`SidePanels`). While `running`, the main thread does nothing else:
`DeviceStep`, `HandleHour` and `ReadForecast` need it `Free`; the scheduler's thread
and the clock (`Beside`) go on. `main` populates the forecast before it sets the
scheduler's callback, so the first wait falls between the two.

Definitions named in a comment "Mutant of ..." are not part of the
specification. Each is the definition it names with one plausible mistake in it,
kept to show which property notices the mistake.

## 3. Runs

Deadlock is checked in every run but `SidePanels`: at every state some call can be
made, or the process can be started again. In `SidePanels` the process can end, by
`exit` or an exception, and nothing in it starts it again.

| Run | Question | Bounds |
|---|---|---|
| `ScheduleFixedZone` | In a zone without daylight saving time, are the answers of `occurs` those its types promise, at every hour, in both overloads? | 35 schedules of all types, every hour of 2023 |
| `ScheduleSummerTime` | With Finnish summer time, are intervals right from 1 to 22 o'clock, and does browsing from there show every day once? | 12 intervals from four first days on either side of the changes; 7 presses of next or previous |
| `TrackerCrashes` | Do memory and file agree, are the user's marks kept as long as their task is there, and does every call come nearer to its end with each step, whatever is called and wherever the process is killed? `clear` may come at any time | 1 id, used again under two names, one of which and the comment have a quote |
| `TrackerDays` | Does each instance start on its day although the clock is put forward between two listings, and does the tracker implement the board (`KeepsBoard`)? `clear` only before the first listing, as in `main.cpp` | 1 task at ten in the evening, which edits move to one in the morning; two days in two months, the change of the clock on the second; both ways of listing |
| `TrackerThrows` | What does a caller that catches exceptions find: are listings exact, does only what threw differ between memory and file, are new ids new, do the starts stay of tasks that are not edited, does every call end? `clear` only before the first listing, and it may throw half way | 2 ids, tasks that share a name, one day, one edit; instances are set to one state |
| `MonthlyDaySummerTime` | "repeats on the 5th day of the second week": refuted on March 26th, once the clock is put forward; the fourth Sunday is not listed | weeks 1 to 4 and three weekdays, every hour of 2023 |
| `CrashInListing` | "when the task was scheduled to start": an instance inserted before a crash starts at zero for ever | |
| `ZeroInterval` | `get_task_instances` returns a list: an edit to an interval task whose `repeat_info` stays zero makes the next listing divide by zero | |
| `AppDay` | With requests, touches, midnight and the end of the process in any order: is the list that of the tasks as they are, are its pointers good, does a mark last until it is undone or its task removed, has every cached instance a row, does every event end, and within the steps counted? `clear` is as free as the library leaves it; that only `main` calls it is part of `App` | 1 id, one daily task, two days, three edits (another hour; another way of repeating; a first day that is the second of the two, so that an edit takes the task out of a day's list or puts it back), test tasks or not |
| `StaleLabel` | "get date of currently displayed tasks": a request returns the list to today, and the date above it stays | |
| `SidePanels` | In one thread with the weather program: is the device page right when nothing is on its way to it, is every alarm seen that a row can show, is every row of the forecast a whole line of a report, what ends the process? | 1 device, snooze 2 ticks, timer 3, 2 refreshes queued; 4 reports of up to five lines, cut off in any cell |
| `DatabaseDriver` | Through failures of every step: is each handle closed once and not used afterwards, is a missing table never taken for an empty one, and does a call happen at one moment or not at all, with the id of its own row (`KeepsStore`)? | both drivers, ids 1 and 2, 3 addresses |

**Why the bounds are enough to be of use.** One id already shows reuse, edits
after listings, a deletion during the life of a cached instance and a restart
with any combination of rows; the second id in `TrackerThrows` is what makes a
listing pass over one task with another still to come, and a retried `add_task`
find the row of the first try. Two days in two months
are needed for a listing of another day than a task's first, and for the month
in an identifier. A year hour by hour is every case `occurs` tells apart except
leap days. In `AppDay` the days that can be shown are those of `Dates`: `NextDay`
and `PreviousDay` go no further, and the pair is enough for the list to be of
another day than today. The timer of the device list runs five seconds longer
than the snooze of ten minutes; what matters is that it is longer, so 2 and 3
stand for them, and the proofs are for any two such numbers. `MaxQueued` bounds
how far the scheduler can run ahead of the main thread; without it the queue
grows for ever. One device shows a page that lags behind; more are proved. The
reports have a line of each length the code tells apart (seven columns, fewer, too
few for the rain), each before and after a longer one, and a message without any
comma. Three addresses are one more than two drivers can hold, so that an address
can be given again or not; `MaxKey` 2 is an own row and one of the other program.
`SetStates` leaves one state to set: the four differ by a constant. `DaysAhead` 7 is
enough to come past a change of the clock from either side. What the properties say for larger instances is proved, not
extrapolated (section 4).

**Fairness.** `FairFaultSpec` assumes weak fairness of `FaultNext /\ Internal`, the
steps of a call that has begun in which no statement throws. The thread that runs a
call waits for nothing in it, so it goes on unless the process ends. A throw may end
the call instead at each statement, and none ever has to. Nothing is assumed of users: no call need ever be made, and no process need be started again.
`EveryCallReturns` counts the end of the process as an end, and is not thereby
empty: crashes are not assumed to happen.

`FairAppSpec` assumes the same of `Running`, the steps of the application that
follow an event or the start by themselves; no user, no client and no clock need
do anything. `EventsEnd` allows the end of the process, since a request for an
unknown task and an interval of zero do end it.

`FairPanelSpec` assumes weak fairness of `Report` (the scheduler's thread calls the
callback after a change), of `Tick` (time passes), of the main thread, and of
`ProgramEnds`: a weather program that never ends keeps the thread for ever, and then
nothing is seen, which is why the fairness is needed. It assumes strong fairness of
`HandleNotify` and `HandleTimeout`: hourly forecasts take the thread again and
again, so these are enabled again and again rather than for ever; a turn of Qt's
event loop takes the events that were posted and then every timer that has fired, so
neither is passed over each time. Nothing is assumed of `Change`, `SetSnooze` and the
hour.

## 4. Proofs

`TaskTrackerProofs` proves, for any number of tasks, names, edits, days and any
calendar that `Calendar` admits:

| Theorem | Statement |
|---|---|
| `TypeCorrect` | `Spec => []TypeOK` |
| `TasksAlwaysAgree` | memory and table hold the same tasks between calls and during listings |
| `CacheAlwaysCoherent` | what is cached and stored is the same in both |
| `CacheAlwaysStored` | what is cached is stored, if `clear` is not called when instances are cached (`~ClearAnytime`, an assumption of the theorem) |
| `ListingsExact` | a listing finds exactly the due tasks of those it has passed |
| `PointersStayValid` | no step of a living process removes a cached instance |
| `StatusAlwaysKept` | as long as its task is there, a row's status and comment change only with the cached copy, or by `clear` |
| `NamesAlwaysQuoted` | every name a statement is built from is escaped |
| `LocalsAlwaysGood` | the row and the tasks a running call refers to are there |
| `StartsAlwaysOnTheirDay` | an instance starts on the day in its identifier, in a zone without daylight saving time (`FixedZone`) and for listings of days the table covers |
| `StartsOnTheirDayAway` | the same in any zone (`StartsAway`): if tasks are added and edited to hours from 1 to 22 and nothing crashes; or, with crashes and midnight too, if no listing is asked for on the day the clock is put forward, after the change (`SpringDayUnseen`) |
| `CallsAlwaysBounded` | every step while a call runs is one step less of it |

They rest on the assumptions named in `Calendar` and `TaskTracker`: the month
table, that listings are asked for at times the table covers, and that escaping
is idempotent.

The argument goes in layers. `Safe` is `TypeOK /\ LocalsOK`, and is inductive:
types alone are not, because `DeleteTask` could take away the task that a running
listing has yet to come to, and `Fill` reads the row that `ScanInsert` left;
`LocalsOK` says that the row is there, that the task is due, and that the
instance is not cached. On top of `Safe`, `Agreement` adds `RowsSaved` (what a
table holds has been through the escaping of an UPDATE, so that writing it again
changes nothing) to `TasksAgree` and `CacheCoherent`: without it a reloaded row
might differ from what the next UPDATE writes. `Stored`, the invariant behind
`CacheAlwaysStored`, says in addition that `clear` runs with an empty cache only.
Each layer has one lemma per group of actions. `Dated`, behind
`StartsAlwaysOnTheirDay`, adds to the property that a running listing is of a day
that `localtime` can give and that cached instances, which are written back, start
on their day too. With daylight saving time the property is false for tasks next to
midnight: see section 5. `StartsOnTheirDayAway` keeps those out with `TasksAway`, an
invariant of its own: all starts, in memory and in the file, are away from midnight,
but for that of the task that is being added, which is zero. A crash makes that zero
last, and time zero is midnight, or one o'clock where it falls into summer time. Midnight
is safe unless the listing is of a day that began in standard time and is in summer time
by now: only then does the start get a `tm_isdst` that puts it an hour back, into the day
before. `SpringDayUnseen` keeps that one case out, and with it `StartsAway` allows
crashes and tasks at midnight. Without it crashes are excluded; `TrackerDays`, which has
both crashes and a listing on that day, checks such an instance by itself.

`CallsAlwaysBounded` is the half of termination that needs no fairness. `StepsLeft`
counts what the running call can still do: two steps for each task a listing has yet
to come to, and its return. It falls with every step, and `StepsCounted` bounds it
by `2 * MaxTaskId + 1`. `FillsOne` (the UPDATE of a new instance is for a task that
is still to be come to) is what makes room in the count for the steps after it.

`LocalsOK` here, and `OwnId` of the driver below, are checked by these proofs and by
no run.

`AppProofs` proves of the application, for any tasks, requests and days, and for
any number of test tasks:

| Theorem | Statement |
|---|---|
| `AppImplementsTracker` | `AppSpec => Spec`: the identity is the refinement mapping |
| `AppTypeCorrect` | `AppSpec => []AppTypeOK`, with `CallsFit`: no call of the tracker is under way in the event loop |
| `ListAlwaysCurrent` | in the event loop the rows are the due tasks of the day shown |
| `RowsAlwaysPoint` | every row points to a cached instance, also while a deleted task is still in the list |
| `AppCacheStored` | every cached instance has its row; no assumption on `ClearAnytime` |
| `MarksUndoneFirst` | as long as its task is there, a mark goes only as the user undoes it |
| `EventsAlwaysBounded` | every step after an event, or of the start, is one step less of it |

The inductive invariant is `AppInv`: `Safe`, `ListingExact` and `Stored` of the
tracker, `AppTypeOK`, the two list properties, and two parts they need. `Fresh`
says that nothing is cached before there is a list; with it `clear`, which the
start calls, meets an empty cache, and `StoredNext` applies. `Asked` says that a
running listing is of the day of `m_date`, so that what it has found when it
ends, exact by `ListingExact`, is what `ListIsCurrent` asks for. The marks follow
from `Agreement`: a row and its cached copy have the same state, the copy
changes only by a handler (`CachedChange`), and the guard of the page leaves only
the undoing to a marked row. `EventStepsLeft` counts the handlers that are left: a
`refresh` has one listing in it and no `refresh`, so it falls too, and with it no
request can keep the thread for ever by leading to another.

`SidePanelsProofs` proves for any set of devices, any snooze, any longer timer, any
bound on the queue and any reports:

| Theorem | Statement |
|---|---|
| `DeviceTypeCorrect`, `PageFollowsScheduler` | `TypeOK` and `ShownIsCurrent` of the device list by itself |
| `PanelsImplementDevices`, `PanelsImplementForecast` | `PanelSpec` implements the specification of each panel, the identity being the mapping |
| `PanelsFollowScheduler` | `ShownIsCurrent` beside the forecast, from the two above |
| `PanelTypeCorrect` | `PanelSpec => []PanelTypeOK` |
| `ShortLinesAbort` | only a line without the column of the rain aborts the process |
| `RowsFromReport` | every row is a whole line of one report, at its place after the header |

The invariant of the device list adds `Watched` (a running snooze ends before
the timer fires, hence the assumption that the timer is longer), `Loaded`
(refreshes run in the event loop only) and `Followed` (what the model and the
page hold when no report is waiting, step by step of a refresh). That of the
forecast adds `WholeLines`: the lines are whole pieces of one report, in place,
without their last cells. `CutIsWhole` is the lemma that carries it: wherever the
program dies, `split` drops the piece it was printing.

`DatabaseDriverProofs` proves `DriverTypes`, `HandlesAreClosed`, `IdsAreOwn`,
`TableIsThere` and `StoreAlwaysKept` for any drivers, bounds, values and addresses,
with every step failing at any time. `TypeOK` is inductive, and with it
`HandleOfCall`. `OwnId` needs `OwnRow` (the row that a connection inserted last has
the content of the call as long as the call runs, since the other program only
inserts) and `IdRead` (the id read is the id of that row). `ReturnsWithTable` needs
`Past`: once a call is past its first statement, or `clear` past its second, the
table is there. `StoreAlwaysKept` is the refinement, `Spec => KeepsStore`: opening
and closing a handle and asking for the id are stutters of the store, a statement is
the moment its call takes effect, and a step that fails is `Throw` at any moment.

`TrackerFaultsProofs` proves of a tracker whose statements throw:

| Theorem | Statement |
|---|---|
| `ThrowingListingsExact` | `ListingExact` |
| `AddedAlwaysNew` | `AddedIsNew`: a new id is that of no task in memory, but for a `clear` that threw, after which the model adds no task |
| `HalfAddedAlwaysBlank` | `HalfAddedIsBlank` |
| `ThrowingCallsBounded` | `CallsAreBounded` |
| `OnlyInterruptedAlwaysBlank` | `OnlyInterruptedAreBlank`, if `~ClearAnytime` and `LaterDays` |
| `FaultTypeCorrect`, `OnlyUnsavedAlwaysDiffer`, `StartsAreKept` | `FaultTypeOK`, `OnlyUnsavedDiffer`, `StartsNeverMove`, if `~ClearAnytime` |

`Safe` and `ListingExact` survive a throw, because it only ends a call. `TaskRows`
takes the place of `Agreement`: the ids in memory are ids of rows, those of other
rows are blank, and those not marked as unsaved are equal; that memory has no id
without a row is what makes the next rowid new. After a `clear` that threw it says
nothing of those in memory, until they are cleared or loaded again. `InstanceRows` says the same of
instances, and that a row being completed has no start yet, so that completing it
moves none; it needs `clear` to come first for the same reason as `Stored`.
`OnlyInterruptedAlwaysBlank` assumes in `LaterDays` that no listing is of the very
first day of the table, the day of the epoch: there the first hour is the number
zero, which the code cannot tell from a start that was never set.

`CalendarProofs` and `ScheduleProofs` prove, for any table of months and any
schedules:

| Theorem | Statement |
|---|---|
| `MktimeInvertsLocaltime` | `mktime(localtime(t)) = t`, in any zone |
| `IntervalsByTheCalendar`, `AnswersLastAllDay`, `OverloadsAlwaysAgree` | `IntervalEveryNthDay`, `SameAnswerAllDay`, `OverloadsAgree`, in a `FixedZone` |
| `NthWeekdaysFound` | `MonthlyDayIsNthWeekday`, in a `FixedZone` and for the weeks one to four |
| `IntervalsAwayFromMidnight` | `IntervalAwayFromMidnight`, in any zone |
| `BrowsingShowsEveryDay` | `BrowsingMissesNoDay`, in any zone and for any number of presses |

`FixedZone` is `DstBegin = DstEnd`, and is where the schedule is right: the runs show
what a change of the clock does to it. The month of a day exists and is unique
because the months of the table ascend (`MonthsAscend`). Such statements need
induction, which is used here as the existence of a least element: a lemma `Least`,
from the library's theorem that `<` on the naturals is well founded, says that a
non-empty set of naturals has one, and each proof takes the least counterexample.
From there the argument is arithmetic: `localtime` and `mktime` cancel up to the
difference of two daylight saving flags, and that difference moves no hour from 1 to
22 into another day.

`BoardProofs` proves the refinement for any tasks, calendar and calls:

| Theorem | Statement |
|---|---|
| `TrackerKeepsBoard` | `Spec => KeepsBoard`, if `~ClearAnytime` |
| `AppKeepsBoard` | `AppSpec => KeepsBoard`, with no such assumption |

The initial states map to initial states (`BoardInit`), and `BoardStep` maps each
step to one of `TaskBoard` or to a stutter, one lemma per kind of step. They
use `BoardInv`: `Safe`, `Agreement`, `Stored`, and `Inserted` (the row of a
running `add_task` has the name asked for and nothing else, so that completing it
gives the task asked for). Two lemmas carry the weight: by `Agreement` and
`Stored` the marks on the board are those of the table (`MarksAreStored`), and,
unless `add_task` is running, the tasks are those of the table
(`TasksAreStored`); the end of a process and the next start then change nothing.
Without the assumption on `clear` the refinement is false: an instance cached
before a `clear` can be marked, and the mark is lost with the process.

By TLC alone are checked the liveness properties `EveryCallReturns`, `EventsEnd` and
`AlarmIsSeenBesideForecast`: the prover has no rule for fairness. For the first two
the measures above are proved, so that what rests on TLC is only that a step is
always possible.

## 5. What the code does that its comments do not say

Beside the four refutations above, these differences were met while modelling
and are part of the models, without a run of their own:

- A task of the first Tuesday is listed on March 28th, 2023, the fourth: once the
  clock has been put forward the walk of `s_get_nth_weekday_of_month` starts on
  February 28th, a Tuesday, and only the day of the month is compared
  (`task.cpp:13`, `221`). Of the states of `MonthlyDaySummerTime` these and the misses
  of the fourth Sunday, Monday and Tuesday on March 26th to 28th are the wrong ones;
  in October every answer is right.
- With daylight saving time an interval is counted a day off in the hour next to
  midnight (`task.cpp:256`), and a task at midnight gets a start on the day
  before when the day of the change is listed after it (`tasktracklib.cpp:223`).
- An edit of a task's hour leaves the instances that exist at the old hour, while
  `task_data.h:57` says they "always start at the same time as the original one"
  (`AddTaskServer.cpp:174`). `StartsNeverMove` leaves edits out and does not decide.
- The last line of a forecast is never shown: `rowCount` is the number of lines
  minus one, and the header has been dropped before (`WeatherListModel.cpp:88`).
- A line with fewer than five columns before a whole one ends the process
  (`WeatherListModel.cpp:96`): the guard of `data` looks at the row itself only.
- A handle that failed to open is not closed (`database_driver.cpp:201`), although
  SQLite gives one that should be.
- A retried `add_task` leaves the row of the try that threw; it has no schedule, and
  becomes a task at the next start.
- A fifth week in a February of 28 days runs into March and matches the first
  week (`task.cpp:221`).
- `get_task_instances` by date passes weekday 0 for every date
  (`tasktracklib.cpp:37`), so listed weekdays go by Sunday's rule.
- `TaskListModel.h:59` says removing a task removes its instances;
  `delete_task` leaves them, with their marks. `StatusKept`, `MarkIsUndoneFirst` and
  the board say nothing of the marks of a removed task.
- `database_driver.h:91` calls a task's id unique; without AUTOINCREMENT
  SQLite gives the id of the last deleted task to the next one, whose listing
  finds the old instances if it has the same name.
- `DeviceListModel` compares the alarm before and after a populate, so a change
  of the alarm between two populates emits nothing; nothing is connected to
  `isAlarmChanged` either, and the rows show the alarm anyway.
- The device names the page first shows are those of the construction of the
  model; a change before the callback is connected is shown with the next refresh. If
  the model was constructed without a device, and one went and raised the alarm before
  `main.cpp:229`, the page has no row and shows no alarm until then.
- The callback is set before its data (`main.cpp:226`, `227`): a report in between
  uses a null `QuickNotify`.
- A `clear` that throws after its first DROP leaves the tasks in memory; ids are given
  from one again, and two tasks in memory have one id (`tasktracklib.cpp:148`).
- With no line at all `WeatherListModel.cpp:111` compares the row with the largest
  `size_t`, and `at` would throw; the view asks for no row then.
- `clear` leaves the cache as it is (`tasktracklib.cpp:148`): an instance stays
  cached without a row, and later changes of it are lost. The application calls
  it only at its start.
- `tasktracklib.h:77` says pointers from `get_tasks` live until `clear`;
  `delete_task` destroys the task.
- `task.h:54` says `finish_task` logs the finish time; nothing sets it.
- `task.h:123` promises the saved comment; a comment with a quote reads
  differently before and after a restart.

## 6. What is not modelled

- Minutes and seconds; a negative `repeat_info`; leap days; edits of a task's name
  through the mutable `Task::get_data`, which nothing in the application does.
- Requests with missing or malformed fields (they change nothing), and the list of
  tasks the server returns (a read).
- `TaskInstanceDatabase::delete_task` and `get_tasks`, which nothing calls. The
  second hands the rows to the callback of the other table.
- A constructor that throws, and an `add_task` after a `clear` that threw (section 2,
  Exceptions); other processes that change rows of this one's tasks. In the driver another
  process may insert.
- The order of a listing: `std::sort` by start and then name, on rows whose start is
  fixed, is a strict weak order, and nothing else depends on it.
- The text of columns and labels, the number shown as the rain of an hour among them;
  `isAlarmChanged` of the device list, to which nothing is connected.
- Of `main.cpp`, reading the configuration: each value is read once, or its default
  taken, before anything runs.
- `TopOptions`: its constructor dereferences the result of a search for a network
  address without a check; after it nothing changes.

## 7. Plan

Done: the schedule, the tracker with crashes and with exceptions, the driver, the
list model, the application, both side panels, the abstract board and the
abstract store with their refinements, and the proofs above. What could follow:

1. `add_task` after a `clear` that threw, which needs `m_tasks` as a sequence of
   tasks rather than a function of ids; a constructor that throws.
2. The application and its side panels as one specification: they share the thread,
   so a request waits for the weather program too.
