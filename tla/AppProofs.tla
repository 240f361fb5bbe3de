----------------------------- MODULE AppProofs ------------------------------
(***************************************************************************)
(* The application uses the tracker as the tracker allows, so all that is  *)
(* proved of the tracker holds in it; and its list is the list of the      *)
(* tasks as they are, for any tasks, days and requests.                    *)
(***************************************************************************)
EXTENDS App, TaskTrackerProofs

\* Before there is a list nothing is cached, and nothing is pointed to.
Fresh ==
    /\ call \in {"down", "starting", "testing"} => DOMAIN m_task_instances = {}
    /\ call \in {"down", "starting", "testing"} => rows = {}

\* A listing is of the day the list model has set.
Asked == call = "populate" => listing.date = localtime(m_date)

ListInv == AppTypeOK /\ Fresh /\ Asked /\ RowsPointToInstances /\ ListIsCurrent

AppInv == Safe /\ ListingExact /\ Stored /\ ListInv

-----------------------------------------------------------------------------
(* Every step of the application is a step of the tracker.                 *)

LEMMA ShowIsListCall ==
  ASSUME NEW t \in Dates, BeginPopulate(t) PROVE ListCall
BY DEF BeginPopulate, ListCall

LEMMA UserEventStep == ASSUME AppTypeOK, UserEvent PROVE [Next]_vars
<1>1. SetToday \/ NextDay \/ PreviousDay => ListCall
  BY ShowIsListCall DEF SetToday, NextDay, PreviousDay, Show, AppTypeOK
<1>2. ASSUME NEW uid \in rows,
             SetFinished(uid) \/ SetSkipped(uid) \/ SetUndoneRow(uid)
      PROVE  InstanceCall
  <2>1. uid \in DOMAIN m_task_instances
    BY <1>2 DEF SetFinished, SetSkipped, SetUndoneRow, FinishTask, SkipTask,
                SetUndone, SetState
  <2> QED
    BY <1>2, <2>1 DEF SetFinished, SetSkipped, SetUndoneRow, InstanceCall
<1>3. ASSUME NEW uid \in rows, RemoveTask(uid) PROVE TaskCall
  <2>1. uid.id \in TaskIds
    BY DEF AppTypeOK, Uid
  <2> QED
    BY <1>3, <2>1 DEF RemoveTask, TaskCall
<1> QED
  BY <1>1, <1>2, <1>3 DEF UserEvent, Next

LEMMA ServerEventStep == ASSUME ServerEvent PROVE [Next]_vars
<1>1. ASSUME NEW task \in NewTasks, Serve(AddTask(task)) PROVE TaskCall
  BY <1>1 DEF Serve, TaskCall
<1>2. ASSUME NEW id \in TaskIds, NEW patch \in Patches, Serve(ModifyTask(id, patch))
      PROVE  TaskCall
  BY <1>2 DEF Serve, TaskCall
<1>3. ASSUME NEW id \in TaskIds, Serve(DeleteTask(id)) PROVE TaskCall
  BY <1>3 DEF Serve, TaskCall
<1>4. ASSUME NEW id \in TaskIds, Serve(DeleteUnknownTask(id)) PROVE UNCHANGED vars
  BY <1>4 DEF Serve, DeleteUnknownTask
<1> QED
  BY <1>1, <1>2, <1>3, <1>4 DEF ServerEvent, Next

LEMMA RunningStep == ASSUME AppTypeOK, Running PROVE [Next]_vars
<1>1. TrackerStep => Internal
  BY DEF TrackerStep, Internal, Scan
<1>2. ASSUME NEW id \in TaskIds, ScanTrap(id) PROVE Internal
  BY <1>2 DEF Internal, Scan
<1>3. EndPopulate => Internal
  BY DEF EndPopulate, Internal
<1>4. Refresh \/ MakeListModel => ListCall
  BY ShowIsListCall DEF Refresh, MakeListModel, Show, AppTypeOK
<1>5. ASSUME AddTestTask PROVE TaskCall
  <2>1. TestTasks[tests + 1] \in NewTasks
    BY <1>5, TestTasksAssumption DEF AddTestTask, AppTypeOK
  <2> QED
    BY <1>5, <2>1 DEF AddTestTask, TaskCall
<1> QED
  BY <1>1, <1>2, <1>3, <1>4, <1>5 DEF Running, Next

LEMMA AppStep == ASSUME AppTypeOK, [AppNext]_appVars PROVE [Next]_vars
<1>1. Stop => [Next]_vars
  BY DEF Stop, Next, TaskCall, Internal, Scan
<1>2. Start \/ ClearForTests => [Next]_vars
  BY DEF Start, ClearForTests, Next
<1>3. Tick \/ UNCHANGED appVars => [Next]_vars
  BY DEF Tick, appVars
<1> QED
  BY <1>1, <1>2, <1>3, UserEventStep, ServerEventStep, RunningStep DEF AppNext

-----------------------------------------------------------------------------
(* The list.                                                               *)

LEMMA LocaltimeDay == ASSUME NEW t \in Dates PROVE DayOf(t) \in Int
BY ArgumentsAssumption DEF DayOf, WallClock, DstShift

\* A listing begins, for the day of t.
LEMMA InvPopulate ==
  ASSUME AppInv, NEW t \in Dates, BeginPopulate(t), m_date' = t,
         label' \in Int, tests' \in 0..Len(TestTasks)
  PROVE  ListInv'
<1>1. /\ pc' = "scanning" /\ call' = "populate"
      /\ now' = now /\ rows' = rows /\ m_task_instances' = m_task_instances
      /\ listing'.date = localtime(t)
  BY DEF BeginPopulate, GetTaskInstances, BeginListing, memory
<1>2. AppTypeOK'
  BY <1>1 DEF AppInv, ListInv, AppTypeOK, CallsFit, Calls
<1> QED
  BY <1>1, <1>2
  DEF AppInv, ListInv, Fresh, Asked, RowsPointToInstances, ListIsCurrent, Waiting

\* A tracker step of a handler or of the start that goes on.
LEMMA InvTrackerStep == ASSUME AppInv, TrackerStep PROVE ListInv'
<1>1. UNCHANGED <<now, m_date, label, rows, call, tests>>
  BY DEF TrackerStep, display
<1>2. CASE AddTaskFill
  <2>1. pc = "adding" /\ pc' = "idle" /\ m_task_instances' = m_task_instances
    BY <1>2 DEF AddTaskFill
  <2>2. call \in {"testing", "refresh"}
    BY <2>1 DEF AppInv, ListInv, AppTypeOK, CallsFit, Calls
  <2> QED
    BY <1>1, <2>1, <2>2
    DEF AppInv, ListInv, AppTypeOK, CallsFit, Calls, Fresh, Asked,
        RowsPointToInstances, ListIsCurrent, Waiting
<1>3. CASE ClearInstances
  <2>1. pc = "clearing" /\ pc' = "idle" /\ m_task_instances' = m_task_instances
    BY <1>3 DEF ClearInstances
  <2>2. call = "testing"
    BY <2>1 DEF AppInv, ListInv, AppTypeOK, CallsFit, Calls
  <2> QED
    BY <1>1, <2>1, <2>2
    DEF AppInv, ListInv, AppTypeOK, CallsFit, Calls, Fresh, Asked,
        RowsPointToInstances, ListIsCurrent, Waiting
<1>4. ASSUME NEW id \in TaskIds,
             \/ ScanSkip(id) \/ ScanCached(id) \/ ScanLoad(id)
             \/ ScanInsert(id) \/ Fill(id)
      PROVE  ListInv'
  <2>1. /\ pc \in {"scanning", "filling"} /\ IsCurrent(id)
        /\ pc' \in {"scanning", "filling"}
    BY <1>4 DEF ScanSkip, ScanCached, ScanLoad, ScanInsert, Fill, Scanning
  <2>2. call = "populate"
    BY <2>1 DEF AppInv, ListInv, AppTypeOK, CallsFit
  <2>3. listing \in Listing
    BY <2>1 DEF AppInv, Safe, TypeOK
  <2>4. listing'.date = listing.date
    BY <1>4, <2>3 DEF ScanSkip, ScanCached, ScanLoad, ScanInsert, Fill, Advance, Listing
  <2>5. DOMAIN m_task_instances \subseteq DOMAIN m_task_instances'
    BY <1>4 DEF ScanSkip, ScanCached, ScanLoad, ScanInsert, Fill, Put, memory
  <2> QED
    BY <1>1, <2>1, <2>2, <2>4, <2>5
    DEF AppInv, ListInv, AppTypeOK, CallsFit, Calls, Fresh, Asked,
        RowsPointToInstances, ListIsCurrent, Waiting
<1> QED
  BY <1>2, <1>3, <1>4 DEF TrackerStep

\* A listing ends: what it has found is the list.
LEMMA InvEndPopulate ==
  ASSUME AppInv, EndPopulate, UNCHANGED tests PROVE ListInv'
<1>1. /\ pc = "scanning" /\ pc' = "idle" /\ listing.todo = {}
      /\ UNCHANGED <<m_tasks, m_task_instances, now, m_date, label>>
      /\ rows' = listing.found /\ call = "populate" /\ call' = "none"
  BY DEF EndPopulate, ListReturn, memory
<1>2. listing \in Listing /\ listing.date = localtime(m_date)
  BY <1>1 DEF AppInv, ListInv, Safe, TypeOK, Asked
<1>3. /\ listing.found = {UidOf(id, listing.date) : id \in {k \in DOMAIN m_tasks : Due(k)}}
      /\ listing.found \subseteq DOMAIN m_task_instances
  BY <1>1 DEF AppInv, ListingExact
<1>4. rows' \in SUBSET Uid
  BY <1>1, <1>2 DEF Listing
<1>5. AppTypeOK'
  BY <1>1, <1>4 DEF AppInv, ListInv, AppTypeOK, CallsFit, Calls
<1>6. listing.found =
        {UidOf(id, localtime(m_date)) :
            id \in {k \in DOMAIN m_tasks :
                      /\ ~Traps(m_tasks[k], localtime(m_date))
                      /\ Occurs(m_tasks[k], localtime(m_date))}}
  BY <1>2, <1>3 DEF Due
<1>7. ListIsCurrent'
  BY <1>1, <1>6 DEF ListIsCurrent, UidOf
<1> QED
  BY <1>1, <1>3, <1>5, <1>7
  DEF AppInv, ListInv, Fresh, Asked, RowsPointToInstances

\* An operation on a row leaves tasks, cache and list what they are.
LEMMA InvMark ==
  ASSUME AppInv, NEW uid \in rows,
         SetFinished(uid) \/ SetSkipped(uid) \/ SetUndoneRow(uid),
         UNCHANGED tests
  PROVE  ListInv'
<1>1. /\ UNCHANGED <<m_tasks, pc, listing, now, m_date, label, rows, call>>
      /\ Waiting
      /\ DOMAIN m_task_instances' = DOMAIN m_task_instances
  BY DEF SetFinished, SetSkipped, SetUndoneRow, FinishTask, SkipTask, SetUndone,
         SetState, WriteInstance, display
<1> QED
  BY <1>1
  DEF AppInv, ListInv, AppTypeOK, CallsFit, Calls, Fresh, Asked,
      RowsPointToInstances, ListIsCurrent, UidOf, Waiting

\* A change of the tasks is followed by a refresh, and so is a request that
\* changes nothing.
LEMMA InvModified ==
  ASSUME AppInv, Waiting, call' = "refresh", pc' \in {"idle", "adding"},
         UNCHANGED <<now, display, tests, m_task_instances>>
  PROVE  ListInv'
BY DEF AppInv, ListInv, AppTypeOK, CallsFit, Calls, Fresh, Asked,
       RowsPointToInstances, ListIsCurrent, Waiting, display

\* A process that ends has no list.
LEMMA InvStop == ASSUME AppInv, Stop PROVE ListInv'
<1>1. pc' = "down" /\ DOMAIN m_task_instances' = {}
  BY NoRowsFacts DEF Stop, ModifyUnknownTask, ScanTrap, Crash, Die
<1>2. call' = "down" /\ rows' = {} /\ UNCHANGED <<now, m_date, label, tests>>
  BY DEF Stop
<1> QED
  BY <1>1, <1>2
  DEF AppInv, ListInv, AppTypeOK, CallsFit, Calls, Fresh, Asked,
      RowsPointToInstances, ListIsCurrent, Waiting

\* The start of the program, up to the list.
LEMMA InvStart ==
  ASSUME AppInv, Start \/ ClearForTests \/ AddTestTask PROVE ListInv'
<1>1. CASE Start
  <2>1. /\ pc = "down" /\ pc' = "idle" /\ m_task_instances' = m_task_instances
        /\ call' = "starting" /\ tests' = 0
        /\ UNCHANGED <<now, m_date, label, rows>>
    BY <1>1 DEF Start, Restart, display
  <2>2. call = "down" /\ 0 \in 0..Len(TestTasks)
    BY <2>1, TestTasksAssumption DEF AppInv, ListInv, AppTypeOK, CallsFit
  <2> QED
    BY <2>1, <2>2
    DEF AppInv, ListInv, AppTypeOK, CallsFit, Calls, Fresh, Asked,
        RowsPointToInstances, ListIsCurrent, Waiting
<1>2. CASE ClearForTests
  <2>1. /\ pc' = "clearing" /\ m_task_instances' = m_task_instances
        /\ call = "starting" /\ call' = "testing"
        /\ UNCHANGED <<now, m_date, label, rows, tests>>
    BY <1>2 DEF ClearForTests, Clear, display, memory
  <2> QED
    BY <2>1
    DEF AppInv, ListInv, AppTypeOK, CallsFit, Calls, Fresh, Asked,
        RowsPointToInstances, ListIsCurrent, Waiting
<1>3. CASE AddTestTask
  <2>1. /\ pc' = "adding" /\ m_task_instances' = m_task_instances
        /\ call = "testing" /\ call' = "testing"
        /\ UNCHANGED <<now, m_date, label, rows>>
    BY <1>3 DEF AddTestTask, AddTask, display, memory
  <2>2. tests' \in 0..Len(TestTasks)
    BY <1>3, TestTasksAssumption DEF AddTestTask, AppInv, ListInv, AppTypeOK
  <2> QED
    BY <2>1, <2>2
    DEF AppInv, ListInv, AppTypeOK, CallsFit, Calls, Fresh, Asked,
        RowsPointToInstances, ListIsCurrent, Waiting
<1> QED
  BY <1>1, <1>2, <1>3

\* The clock, and nothing else.
LEMMA InvTick ==
  ASSUME AppInv, Tick \/ UNCHANGED appVars PROVE ListInv'
<1>1. now' \in Dates /\ UNCHANGED <<m_tasks, m_task_instances, pc, listing>>
  BY DEF Tick, appVars, vars, AppInv, ListInv, AppTypeOK
<1>2. UNCHANGED <<m_date, label, rows, call, tests>>
  BY DEF Tick, appVars, display
<1> QED
  BY <1>1, <1>2
  DEF AppInv, ListInv, AppTypeOK, CallsFit, Calls, Fresh, Asked,
      RowsPointToInstances, ListIsCurrent, UidOf, Waiting

\* A day is shown, by the user, by a refresh or at the start.
LEMMA InvShow ==
  ASSUME AppInv,
         \/ (SetToday \/ NextDay \/ PreviousDay) /\ UNCHANGED tests
         \/ Refresh /\ UNCHANGED tests
         \/ MakeListModel
  PROVE  ListInv'
<1>1. /\ now \in Dates
      /\ label \in Int
      /\ UNCHANGED tests => tests' \in 0..Len(TestTasks)
  BY DEF AppInv, ListInv, AppTypeOK
<1>2. ASSUME NEW t \in Dates, Show(t), UNCHANGED tests PROVE ListInv'
  <2>1. m_date' = t /\ label' \in Int /\ BeginPopulate(t)
    BY <1>2, LocaltimeDay DEF Show
  <2> QED
    BY <1>1, <1>2, <2>1, InvPopulate
<1>3. ASSUME Refresh, UNCHANGED tests PROVE ListInv'
  <2>1. m_date' = now /\ label' \in Int /\ BeginPopulate(now)
    BY <1>1, <1>3 DEF Refresh
  <2> QED
    BY <1>1, <1>3, <2>1, InvPopulate
<1> QED
  BY <1>1, <1>2, <1>3 DEF SetToday, NextDay, PreviousDay, MakeListModel

LEMMA ListInvNext == ASSUME AppInv, [AppNext]_appVars PROVE ListInv'
<1>1. Running => ListInv'
  <2>1. \A id \in TaskIds : Stop /\ ScanTrap(id) => ListInv'
    BY InvStop
  <2> QED
    BY <2>1, InvTrackerStep, InvEndPopulate, InvShow, InvStart DEF Running
<1>2. ASSUME UserEvent, UNCHANGED tests PROVE ListInv'
  <2>1. ASSUME NEW uid \in rows, RemoveTask(uid) PROVE ListInv'
    <3>1. Waiting /\ call' = "refresh" /\ UNCHANGED <<now, display>>
      BY <2>1 DEF RemoveTask
    <3>2. pc' = "idle" /\ UNCHANGED m_task_instances
      BY <2>1 DEF RemoveTask, DeleteTask
    <3> QED
      BY <1>2, <3>1, <3>2, InvModified
  <2> QED
    BY <1>2, <2>1, InvShow, InvMark DEF UserEvent
<1>3. ASSUME ServerEvent PROVE ListInv'
  <2>1. /\ Waiting /\ call' = "refresh"
        /\ UNCHANGED <<now, display, tests>>
    BY <1>3 DEF ServerEvent, Serve
  <2>2. pc' \in {"idle", "adding"} /\ UNCHANGED m_task_instances
    BY <1>3 DEF ServerEvent, Serve, AddTask, ModifyTask, DeleteTask,
                DeleteUnknownTask, vars, memory
  <2> QED
    BY <2>1, <2>2, InvModified
<1> QED
  BY <1>1, <1>2, <1>3, InvTick, InvStop, InvStart DEF AppNext

-----------------------------------------------------------------------------
(* The invariant.                                                          *)

\* The tables are cleared before anything is cached.
LEMMA ClearedEarly ==
  ASSUME AppInv, [AppNext]_appVars, Clear PROVE DOMAIN m_task_instances = {}
<1>1. pc = "idle" /\ pc' = "clearing"
  BY DEF Clear
<1>2. ~Stop /\ ~Tick /\ ~Start /\ ~UNCHANGED appVars
  BY <1>1, SMT DEF Stop, ModifyUnknownTask, ScanTrap, Crash, Die, Tick, Start, Restart,
              appVars, vars
<1>3. ~Running
  BY <1>1 DEF Running, TrackerStep, AddTaskFill, ClearInstances, ScanSkip, ScanCached,
              ScanLoad, ScanInsert, Fill, Scanning, ScanTrap, EndPopulate, ListReturn,
              Refresh, AddTestTask, AddTask, MakeListModel, Show, BeginPopulate,
              GetTaskInstances, BeginListing
<1>4. ~UserEvent
  BY <1>1 DEF UserEvent, SetToday, NextDay, PreviousDay, Show, BeginPopulate,
              GetTaskInstances, BeginListing, SetFinished, SetSkipped, SetUndoneRow,
              FinishTask, SkipTask, SetUndone, SetState, RemoveTask, DeleteTask
<1>5. ~ServerEvent
  BY <1>1 DEF ServerEvent, Serve, AddTask, ModifyTask, DeleteTask, DeleteUnknownTask,
              vars
<1>6. ClearForTests
  BY <1>2, <1>3, <1>4, <1>5 DEF AppNext
<1> QED
  BY <1>6 DEF ClearForTests, AppInv, ListInv, Fresh

LEMMA AppInvInit == AppInit => AppInv
<1> SUFFICES ASSUME AppInit PROVE AppInv
  OBVIOUS
<1>1. Init /\ call = "starting" /\ rows = {} /\ tests = 0
  BY DEF AppInit
<1>2. Safe
  BY <1>1, SafeInit
<1>3. pc = "idle" /\ m_task_instances = NoRows
  BY <1>1 DEF Init
<1>4. ListingExact /\ Stored
  BY <1>3, NoRowsFacts DEF ListingExact, Stored, CacheStored
<1>5. now \in Dates /\ m_date \in Dates /\ label \in Int
  BY LocaltimeDay DEF AppInit
<1>6. 0 \in 0..Len(TestTasks)
  BY TestTasksAssumption
<1>7. AppTypeOK
  BY <1>1, <1>3, <1>5, <1>6 DEF AppTypeOK, Calls, CallsFit
<1>8. Fresh /\ Asked /\ RowsPointToInstances /\ ListIsCurrent
  BY <1>1, <1>3, NoRowsFacts
  DEF Fresh, Asked, RowsPointToInstances, ListIsCurrent, Waiting
<1> QED
  BY <1>2, <1>4, <1>7, <1>8 DEF AppInv, ListInv

LEMMA AppInvNext == AppInv /\ [AppNext]_appVars => AppInv'
<1> SUFFICES ASSUME AppInv, [AppNext]_appVars PROVE AppInv'
  OBVIOUS
<1>1. Safe /\ ListingExact /\ Stored /\ AppTypeOK
  BY DEF AppInv, ListInv
<1>2. [Next]_vars
  BY <1>1, AppStep
<1>3. Safe' /\ ListingExact'
  BY <1>1, <1>2, SafeNext, ExactNext
<1>4. Stored'
  BY <1>1, <1>2, ClearedEarly, StoredNext
<1> QED
  BY <1>3, <1>4, ListInvNext DEF AppInv

LEMMA AppInvAlways == AppSpec => []AppInv
BY AppInvInit, AppInvNext, PTL DEF AppSpec

-----------------------------------------------------------------------------

\* The application makes no call of the tracker that the tracker does not
\* allow: each of its behaviours is one of TaskTracker, of which everything
\* proved in TaskTrackerProofs therefore holds here.
THEOREM AppImplementsTracker == AppSpec => Spec
<1>1. AppInit => Init
  BY DEF AppInit
<1>2. AppInv /\ [AppNext]_appVars => [Next]_vars
  BY AppStep DEF AppInv, ListInv
<1> QED
  BY <1>1, <1>2, AppInvAlways, PTL DEF AppSpec, Spec

\* The state of the application has its types, and no call of the tracker is
\* under way in the event loop.
THEOREM AppTypeCorrect == AppSpec => []AppTypeOK
<1>1. AppInv => AppTypeOK
  BY DEF AppInv, ListInv
<1> QED
  BY <1>1, AppInvAlways, PTL

\* Whenever the thread waits for an event the list shows the tasks as they
\* are on the day shown, whatever the user and the clients did.
THEOREM ListAlwaysCurrent == AppSpec => []ListIsCurrent
<1>1. AppInv => ListIsCurrent
  BY DEF AppInv, ListInv
<1> QED
  BY <1>1, AppInvAlways, PTL

\* No row of the list points to an instance that is gone.
THEOREM RowsAlwaysPoint == AppSpec => []RowsPointToInstances
<1>1. AppInv => RowsPointToInstances
  BY DEF AppInv, ListInv
<1> QED
  BY <1>1, AppInvAlways, PTL

\* In the application every cached instance has its row, without the
\* assumption on clear that CacheAlwaysStored makes: main calls clear before
\* there is a list.
THEOREM AppCacheStored == AppSpec => []CacheStored
<1>1. AppInv => CacheStored
  BY DEF AppInv, Stored
<1> QED
  BY <1>1, AppInvAlways, PTL

-----------------------------------------------------------------------------
(* Marks.                                                                  *)

\* What a handler does to an instance, it does to a row of the list.
LEMMA CachedChange ==
  ASSUME AppInv, [AppNext]_appVars,
         NEW uid \in DOMAIN m_task_instances \cap DOMAIN m_task_instances',
         m_task_instances'[uid] # m_task_instances[uid]
  PROVE  uid \in rows /\ (SetFinished(uid) \/ SetSkipped(uid) \/ SetUndoneRow(uid))
<1>1. m_task_instances' # m_task_instances
  OBVIOUS
<1>2. m_task_instances' # NoRows
  BY NoRowsFacts
<1>3. ~Stop /\ ~Tick /\ ~UNCHANGED appVars /\ ~Start /\ ~ClearForTests
  BY <1>1, <1>2 DEF Stop, ModifyUnknownTask, ScanTrap, Crash, Die, Tick, appVars,
                    vars, Start, Restart, ClearForTests, Clear, memory
<1>4. ~ServerEvent
  BY <1>1 DEF ServerEvent, Serve, AddTask, ModifyTask, DeleteTask, DeleteUnknownTask,
              vars, memory
<1>5. ~TrackerStep
  <2>1. ASSUME NEW id \in TaskIds, ScanLoad(id) PROVE FALSE
    BY <2>1 DEF ScanLoad, Put
  <2>2. ASSUME NEW id \in TaskIds, Fill(id) PROVE FALSE
    <3>1. UidOf(id, listing.date) \notin DOMAIN m_task_instances
      BY <2>2 DEF Fill, AppInv, Safe, LocalsOK
    <3> QED
      BY <2>2, <3>1 DEF Fill, Put
  <2> QED
    BY <1>1, <2>1, <2>2 DEF TrackerStep, AddTaskFill, ClearInstances, ScanSkip,
                            ScanCached, ScanInsert, memory
<1>6. ~Running
  BY <1>1, <1>3, <1>5
  DEF Running, EndPopulate, ListReturn, Refresh, AddTestTask, AddTask, MakeListModel,
      Show, BeginPopulate, GetTaskInstances, BeginListing, memory
<1>7. PICK row \in rows : SetFinished(row) \/ SetSkipped(row) \/ SetUndoneRow(row)
  <2>1. ~SetToday /\ ~NextDay /\ ~PreviousDay
    BY <1>1 DEF SetToday, NextDay, PreviousDay, Show, BeginPopulate, GetTaskInstances,
                BeginListing, memory
  <2>2. \A row \in rows : ~RemoveTask(row)
    BY <1>1 DEF RemoveTask, DeleteTask
  <2> QED
    BY <1>3, <1>4, <1>6, <2>1, <2>2 DEF AppNext, UserEvent
<1>8. \E data : m_task_instances' = [m_task_instances EXCEPT ![row] = data]
  BY <1>7 DEF SetFinished, SetSkipped, SetUndoneRow, FinishTask, SkipTask, SetUndone,
              SetState, WriteInstance
<1>9. row = uid
  BY <1>8
<1> QED
  BY <1>7, <1>9

\* What MarkIsUndoneFirst asks of one marked row and one step, whether or not
\* its task is there.
MarkKept(uid) ==
    \/ pc = "clearing"
    \/ /\ uid \in DOMAIN instancesTable'
       /\ \/ instancesTable'[uid].state = instancesTable[uid].state
          \/ /\ uid \in rows
             /\ instancesTable'[uid].state = "NotStarted"

LEMMA MarkKeptNext ==
  ASSUME AppInv, Agreement, [AppNext]_appVars, NEW uid \in DOMAIN instancesTable,
         instancesTable[uid].state \in {"Finished", "Skipped"}
  PROVE  MarkKept(uid)
<1>1. Safe /\ [Next]_vars
  BY AppStep DEF AppInv, ListInv
<1>2. RowKept(uid)
  BY <1>1, RowKeptNext
<1>3. ASSUME uid \in DOMAIN m_task_instances \cap DOMAIN m_task_instances',
             m_task_instances'[uid] # m_task_instances[uid]
      PROVE  MarkKept(uid)
  <2>1. uid \in rows /\ (SetFinished(uid) \/ SetSkipped(uid) \/ SetUndoneRow(uid))
    BY <1>3, CachedChange
  <2>2. m_task_instances[uid] \in TaskInstanceData
    BY <1>1, <1>3 DEF Safe, TypeOK, IsTable
  <2>3. instancesTable[uid] = SavedInstance(m_task_instances[uid])
    BY <1>3 DEF Agreement, CacheCoherent
  <2>4. m_task_instances[uid].state = instancesTable[uid].state
    BY <2>2, <2>3 DEF SavedInstance, TaskInstanceData
  <2>5. SetUndoneRow(uid)
    BY <2>1, <2>4 DEF SetFinished, SetSkipped, Marked
  <2> DEFINE data == [m_task_instances[uid] EXCEPT !.state = "NotStarted"]
  <2>6. instancesTable' = UpdateRow(instancesTable, uid, SavedInstance(data))
    BY <2>5 DEF SetUndoneRow, SetUndone, SetState, WriteInstance
  <2>7. uid \in DOMAIN instancesTable' /\ instancesTable'[uid] = SavedInstance(data)
    BY <2>6 DEF UpdateRow
  <2>8. SavedInstance(data).state = "NotStarted"
    BY <2>2 DEF SavedInstance, TaskInstanceData
  <2> QED
    BY <2>1, <2>7, <2>8 DEF MarkKept
<1> QED
  BY <1>2, <1>3 DEF RowKept, MarkKept

\* As long as a task is there its marks go only as the user undoes them in the
\* list: no step of the tracker, no request and no restart loses one.
THEOREM MarksUndoneFirst == AppSpec => MarkIsUndoneFirst
<1>1. AppInv /\ Agreement /\ [AppNext]_appVars =>
        \A uid \in DOMAIN instancesTable :
            instancesTable[uid].state \in {"Finished", "Skipped"} => MarkKept(uid)
  BY MarkKeptNext
<1>2. (\A uid \in DOMAIN instancesTable :
            instancesTable[uid].state \in {"Finished", "Skipped"} => MarkKept(uid))
      => \A uid \in DOMAIN instancesTable :
            /\ uid.id \in DOMAIN tasksTable \cap DOMAIN tasksTable'
            /\ instancesTable[uid].state \in {"Finished", "Skipped"}
            => \/ pc = "clearing"
               \/ /\ uid \in DOMAIN instancesTable'
                  /\ \/ instancesTable'[uid].state = instancesTable[uid].state
                     \/ /\ uid \in rows
                        /\ instancesTable'[uid].state = "NotStarted"
  BY DEF MarkKept
<1>3. AppSpec => []Agreement
  BY AppImplementsTracker, AgreementAlways
<1> QED
  BY <1>1, <1>2, <1>3, AppInvAlways, PTL DEF AppSpec, MarkIsUndoneFirst

-----------------------------------------------------------------------------
(* How long a handler can take.                                            *)

\* A listing that begins has the tasks in memory before it.
LEMMA ShowCounted ==
  ASSUME Safe, NEW t, BeginPopulate(t)
  PROVE  /\ pc = "idle"
         /\ call' = "populate"
         /\ StepsLeft' \in 0..(2 * MaxTaskId + 1)
<1>1. pc = "idle" /\ pc' = "scanning" /\ call' = "populate"
  BY DEF BeginPopulate, GetTaskInstances, BeginListing
<1>2. listing'.todo = DOMAIN m_tasks
  BY DEF BeginPopulate, GetTaskInstances, BeginListing
<1>3. DOMAIN m_tasks \in SUBSET TaskIds
  BY DEF Safe, TypeOK, IsTable
<1>4. Cardinality(DOMAIN m_tasks) \in Nat /\ Cardinality(DOMAIN m_tasks) <= MaxTaskId
  BY <1>3, TasksCounted
<1> QED
  BY <1>1, <1>2, <1>4, BoundsAssumption DEF StepsLeft

\* A handler that runs has a step to take.
LEMMA EventStepLeft ==
  ASSUME AppInv, FillsOne, call \notin {"none", "down"}
  PROVE  EventStepsLeft \in Nat /\ EventStepsLeft >= 1
<1>1. /\ call \in Calls /\ tests \in 0..Len(TestTasks) /\ CallsFit
      /\ StepsLeft \in Nat /\ MaxTaskId \in Nat /\ Len(TestTasks) \in Nat
  BY StepsCounted, BoundsAssumption, TestTasksAssumption DEF AppInv, ListInv, AppTypeOK
<1>2. CASE call = "populate"
  BY <1>1, <1>2, StepLeft DEF AppInv, CallsFit, EventStepsLeft
<1>3. CASE call # "populate"
  BY <1>1, <1>3 DEF Calls, EventStepsLeft, ListingSteps
<1> QED
  BY <1>2, <1>3

LEMMA EventBoundedNext ==
  ASSUME AppInv, FillsOne, AppNext, call \notin {"none", "down"}
  PROVE  EventStepsLeft' \in 0..(EventStepsLeft - 1)
<1>1. /\ Safe /\ call \in Calls /\ tests \in 0..Len(TestTasks) /\ CallsFit
      /\ StepsLeft \in Nat /\ MaxTaskId \in Nat /\ Len(TestTasks) \in Nat
  BY StepsCounted, BoundsAssumption, TestTasksAssumption DEF AppInv, ListInv, AppTypeOK
<1>2. EventStepsLeft \in Nat /\ EventStepsLeft >= 1
  BY EventStepLeft
<1>3. CASE Stop \/ EndPopulate
  <2>1. call' \in {"none", "down"}
    BY <1>3 DEF Stop, EndPopulate
  <2> QED
    BY <1>2, <2>1 DEF EventStepsLeft
<1>4. CASE TrackerStep
  <2>1. call' = call /\ tests' = tests /\ pc \notin {"idle", "down"}
    BY <1>4 DEF TrackerStep, AddTaskFill, ClearInstances, ScanSkip, ScanCached, ScanLoad,
                ScanInsert, Fill, Scanning
  <2>2. call \in {"testing", "refresh", "populate"}
    BY <1>1, <2>1 DEF Calls, CallsFit
  <2>3. Next
    BY <1>4 DEF TrackerStep, Next, Internal, Scan
  <2>4. StepsLeft' \in 0..(StepsLeft - 1)
    BY <1>1, <2>1, <2>3, BoundedNext
  <2>5. StepsLeft' \in Nat /\ StepsLeft' < StepsLeft
    BY <1>1, <2>4
  <2>6. CASE call = "testing"
    <3> DEFINE rest == 2 * (Len(TestTasks) - tests) + ListingSteps
    <3>1. rest \in Nat
      BY <1>1 DEF ListingSteps
    <3>2. EventStepsLeft = StepsLeft + 2 * (Len(TestTasks) - tests) + ListingSteps
      BY <2>6 DEF EventStepsLeft
    <3>3. EventStepsLeft' = StepsLeft' + 2 * (Len(TestTasks) - tests) + ListingSteps
      BY <2>1, <2>6 DEF EventStepsLeft, ListingSteps
    <3>4. EventStepsLeft = StepsLeft + rest /\ EventStepsLeft' = StepsLeft' + rest
      BY <1>1, <2>5, <3>2, <3>3 DEF ListingSteps
    <3> QED
      BY <1>1, <2>5, <3>1, <3>4
  <2>7. CASE call = "refresh"
    BY <1>1, <2>1, <2>5, <2>7 DEF EventStepsLeft, ListingSteps
  <2>8. CASE call = "populate"
    <3>1. EventStepsLeft = StepsLeft /\ EventStepsLeft' = StepsLeft'
      BY <2>1, <2>8 DEF EventStepsLeft
    <3> QED
      BY <1>1, <2>5, <3>1
  <2> QED
    BY <2>2, <2>6, <2>7, <2>8
<1>5. CASE Refresh
  <2>1. call = "refresh" /\ BeginPopulate(now)
    BY <1>5 DEF Refresh
  <2>2. call' = "populate" /\ StepsLeft' \in 0..(2 * MaxTaskId + 1)
    BY <1>1, <2>1, ShowCounted
  <2> QED
    BY <1>1, <2>1, <2>2 DEF EventStepsLeft, ListingSteps
<1>6. CASE MakeListModel
  <2>1. call \in {"starting", "testing"} /\ BeginPopulate(now)
    BY <1>6 DEF MakeListModel, Show
  <2>2. call' = "populate" /\ StepsLeft' \in 0..(2 * MaxTaskId + 1)
    BY <1>1, <2>1, ShowCounted
  <2>3. EventStepsLeft' = StepsLeft'
    BY <2>2 DEF EventStepsLeft
  <2>4. EventStepsLeft >= 2 * MaxTaskId + 2
    BY <1>1, <2>1 DEF EventStepsLeft, ListingSteps
  <2> QED
    BY <1>1, <1>2, <2>2, <2>3, <2>4
<1>7. CASE AddTestTask
  <2>1. /\ call = "testing" /\ call' = "testing" /\ tests' = tests + 1
        /\ tests < Len(TestTasks) /\ pc = "idle" /\ pc' = "adding"
    BY <1>7 DEF AddTestTask, AddTask
  <2>2. StepsLeft = 0 /\ StepsLeft' = 1
    BY <2>1 DEF StepsLeft
  <2> QED
    BY <1>1, <2>1, <2>2 DEF EventStepsLeft, ListingSteps
<1>8. CASE ClearForTests
  <2>1. /\ call = "starting" /\ call' = "testing" /\ tests' = tests
        /\ pc' = "clearing"
    BY <1>8 DEF ClearForTests, Clear
  <2>2. StepsLeft' = 1
    BY <2>1 DEF StepsLeft
  <2> QED
    BY <1>1, <2>1, <2>2 DEF EventStepsLeft, ListingSteps
<1>9. ~UserEvent /\ ~ServerEvent /\ ~Tick /\ ~Start
  <2>1. ~Waiting /\ pc # "down"
    BY <1>1 DEF Waiting, CallsFit
  <2> QED
    BY <2>1 DEF UserEvent, SetToday, NextDay, PreviousDay, SetFinished, SetSkipped,
                SetUndoneRow, RemoveTask, ServerEvent, Serve, Tick, Start, Restart
<1> QED
  BY <1>3, <1>4, <1>5, <1>6, <1>7, <1>8, <1>9 DEF AppNext, Running

\* A handler, and the start of the program, come to their end in a number of
\* steps that the tasks bound: no refresh leads to another, and no listing
\* to a further one.
THEOREM EventsAlwaysBounded == AppSpec => EventsAreBounded
<1>1. Init => FillsOne
  BY DEF Init, FillsOne
<1>2. Spec => []FillsOne
  BY <1>1, FillsOneNext, PTL DEF Spec
<1>3. AppInv /\ FillsOne /\ [AppNext]_appVars =>
        [call \notin {"none", "down"} =>
            EventStepsLeft' \in 0..(EventStepsLeft - 1)]_appVars
  BY EventBoundedNext
<1> QED
  BY <1>2, <1>3, AppImplementsTracker, AppInvAlways, PTL DEF AppSpec, EventsAreBounded

=============================================================================
