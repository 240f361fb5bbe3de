-------------------------------- MODULE App ---------------------------------
(***************************************************************************)
(* The application, without its side panels: main constructs the tracker,  *)
(* makes test tasks when it is told to, constructs the list model and      *)
(* enters the event loop, which serves the user and the HTTP requests.     *)
(* Every request that is accepted ends with dataModified, which main has   *)
(* connected to the list model's refresh; a request with missing fields    *)
(* changes nothing.                                                        *)
(*                                                                         *)
(* Every step is a step of TaskTracker or leaves the tracker alone.        *)
(***************************************************************************)
EXTENDS TaskListModel

CONSTANTS
    TestTasks  \* the tasks of add_test_tasks, in their order

ASSUME TestTasksAssumption ==
    /\ TestTasks \in Seq(NewTasks)
    /\ Len(TestTasks) <= MaxTaskId

VARIABLES
    tests  \* how many of them have been made

appVars == <<vars, now, display, call, tests>>

Calls == {"down", "starting", "testing", "none", "refresh", "populate"}

\* The running handler of the application and the running call of the
\* tracker fit: in particular nothing of the tracker runs in the event loop.
CallsFit ==
    /\ call = "down" <=> pc = "down"
    /\ call \in {"starting", "none"} => pc = "idle"
    /\ call = "testing" => pc \in {"idle", "adding", "clearing"}
    /\ call = "refresh" => pc \in {"idle", "adding"}
    /\ call = "populate" <=> pc \in {"scanning", "filling"}

AppTypeOK ==
    /\ now \in Dates
    /\ m_date \in Dates
    /\ label \in Int
    /\ rows \in SUBSET Uid
    /\ call \in Calls
    /\ tests \in 0..Len(TestTasks)
    /\ CallsFit

\* The first start, with no database.
AppInit ==
    /\ Init
    /\ now \in Dates
    /\ m_date = now
    /\ label = DayOf(now)
    /\ rows = {}
    /\ call = "starting"
    /\ tests = 0

\* The clock goes on between events; a handler reads it once.
Tick ==
    /\ call \in {"none", "down"}
    /\ \E t \in Dates : t > now /\ now' = t
    /\ UNCHANGED <<vars, display, call, tests>>

-----------------------------------------------------------------------------
(* The start of the program.                                               *)

Start ==
    /\ Restart
    /\ call' = "starting"
    /\ tests' = 0
    /\ UNCHANGED <<now, display>>

\* Mutant of ClearForTests: the list is there already.
ClearWithList ==
    /\ call = "none"
    /\ Clear
    /\ call' = "testing"
    /\ tests' = 0
    /\ UNCHANGED <<now, display>>

\* add_test_tasks, before there is a list model.
ClearForTests ==
    /\ call = "starting"
    /\ Clear
    /\ call' = "testing"
    /\ UNCHANGED <<now, display, tests>>

AddTestTask ==
    /\ call = "testing"
    /\ tests < Len(TestTasks)
    /\ AddTask(TestTasks[tests + 1])
    /\ tests' = tests + 1
    /\ UNCHANGED <<now, display, call>>

\* The constructor of the list model is setToday; the page then shows date().
MakeListModel ==
    /\ \/ call = "starting"
       \/ call = "testing" /\ tests = Len(TestTasks)
    /\ pc = "idle"
    /\ Show(now)
    /\ UNCHANGED tests

-----------------------------------------------------------------------------
(* The HTTP server.                                                        *)

\* parseRequest: the operation, then dataModified.
Serve(operation) ==
    /\ Waiting
    /\ operation
    /\ call' = "refresh"
    /\ UNCHANGED <<now, display, tests>>

\* delete_task of an id that is not there returns at once.
DeleteUnknownTask(id) ==
    /\ pc = "idle"
    /\ id \notin DOMAIN tasksTable
    /\ UNCHANGED vars

ServerEvent ==
    \/ \E task \in NewTasks : Serve(AddTask(task))
    \/ \E id \in TaskIds :
          \/ \E patch \in Patches : Serve(ModifyTask(id, patch))
          \/ Serve(DeleteTask(id))
          \/ Serve(DeleteUnknownTask(id))

-----------------------------------------------------------------------------

\* The process ends: by a request for a task that is not there, by a listing
\* that divides by zero, or killed.
Stop ==
    /\ \/ Waiting /\ ModifyUnknownTask
       \/ \E id \in TaskIds : ScanTrap(id)
       \/ Crash
    /\ call' = "down"
    /\ rows' = {}
    /\ UNCHANGED <<now, m_date, label, tests>>

\* The statements of a call of the tracker, but for those that end it or the
\* process.
TrackerStep ==
    /\ \/ AddTaskFill
       \/ ClearInstances
       \/ \E id \in TaskIds :
             \/ ScanSkip(id) \/ ScanCached(id) \/ ScanLoad(id)
             \/ ScanInsert(id) \/ Fill(id)
    /\ UNCHANGED <<now, display, call, tests>>

\* What goes on by itself once a handler, or main, has begun.
Running ==
    \/ TrackerStep
    \/ \E id \in TaskIds : Stop /\ ScanTrap(id)
    \/ EndPopulate /\ UNCHANGED tests
    \/ Refresh /\ UNCHANGED tests
    \/ AddTestTask
    \/ MakeListModel

AppNext ==
    \/ Running
    \/ UserEvent /\ UNCHANGED tests
    \/ ServerEvent
    \/ Tick
    \/ Stop
    \/ Start
    \/ ClearForTests

AppSpec == AppInit /\ [][AppNext]_appVars

\* main and the handlers go on; events need not come.
FairAppSpec == AppSpec /\ WF_appVars(Running)

-----------------------------------------------------------------------------

\* Whenever the thread waits for an event the list is the list of the tasks
\* as they now are: the instances of exactly the tasks that occur on the day
\* of m_date, after every edit, addition and removal from either side.
ListIsCurrent ==
    Waiting => rows = {UidOf(id, localtime(m_date)) :
                         id \in {k \in DOMAIN m_tasks :
                                   /\ ~Traps(m_tasks[k], localtime(m_date))
                                   /\ Occurs(m_tasks[k], localtime(m_date))}}

\* The pointers in the list are to instances the tracker holds, also while a
\* task has been deleted and the list has not been made again.
RowsPointToInstances == rows \subseteq DOMAIN m_task_instances

\* As long as its task is there a mark survives everything but its undoing: a
\* row of the table that is finished or skipped becomes neither and nothing
\* else, and only as the user undoes it in the list; no restart, edit of the
\* task, request for another one or listing changes it.  Test tasks start with
\* empty tables.  What becomes of the marks of a task that is removed is left
\* open: removeTask "Removes all task instances" by TaskListModel.h, and does
\* not by the code.
MarkIsUndoneFirst ==
    [][\A uid \in DOMAIN instancesTable :
          /\ uid.id \in DOMAIN tasksTable \cap DOMAIN tasksTable'
          /\ instancesTable[uid].state \in {"Finished", "Skipped"}
          => \/ pc = "clearing"
             \/ /\ uid \in DOMAIN instancesTable'
                /\ \/ instancesTable'[uid].state = instancesTable[uid].state
                   \/ /\ uid \in rows
                      /\ instancesTable'[uid].state = "NotStarted"]_appVars

\* The most steps that a listing of any tasks takes, its first included.
ListingSteps == 2 * MaxTaskId + 2

\* The most steps that a handler, or main before its event loop, can still
\* take.
EventStepsLeft ==
    CASE call = "starting" -> 2 * Len(TestTasks) + 2 + ListingSteps
      [] call = "testing" -> StepsLeft + 2 * (Len(TestTasks) - tests) + ListingSteps
      [] call = "refresh" -> StepsLeft + ListingSteps
      [] call = "populate" -> StepsLeft
      [] OTHER -> 0

\* No handler keeps the thread for ever: what a request, a refresh or the
\* start of the program has yet to do becomes less with every step, so that
\* it comes to the event loop, or to the end of the process, within a number
\* of steps that grows with the number of tasks and with nothing else.
EventsAreBounded ==
    [][call \notin {"none", "down"} =>
          EventStepsLeft' \in 0..(EventStepsLeft - 1)]_appVars

\* Every event and the start of the program lead back to the event loop, or
\* to the end of the process.
EventsEnd == call # "none" ~> call \in {"none", "down"}

\* "get date of currently displayed tasks" (TaskListModel.h) is what stands
\* above the list: the day it names is the day shown.
LabelNamesDay == Waiting => label = DayOf(m_date)

=============================================================================
