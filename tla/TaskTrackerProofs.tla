------------------------- MODULE TaskTrackerProofs --------------------------
(***************************************************************************)
(* Invariants of TaskTracker, proved for every calendar, every set of      *)
(* arguments and any number of tasks.                                      *)
(***************************************************************************)
EXTENDS TaskTracker, CalendarProofs, FiniteSetTheorems

-----------------------------------------------------------------------------
(* The operators the actions are built from.                               *)

\* mktime of a well-formed tm is an integer.
LEMMA MktimeType == ASSUME NEW tm \in Tm PROVE mktime(tm) \in Int
<1>1. MonthStart[tm.mon] \in Nat
  BY MonthsAssumption DEF Tm, Months
<1>2. DstShift(tm.isdst) \in {0, 1}
  BY DEF DstShift
<1> QED
  BY <1>1, <1>2 DEF Tm, mktime

\* The hour localtime gives is an hour of the day.
LEMMA HourType == ASSUME NEW t \in Int PROVE localtime(t).hour \in 0..23
<1>1. DstShift(IsDst(t)) \in {0, 1}
  BY DEF DstShift
<1>2. WallClock(t) \in Int
  BY <1>1 DEF WallClock
<1> QED
  BY <1>2 DEF localtime

\* escape_quote keeps data well formed.
LEMMA SavedTaskType ==
  ASSUME NEW data \in TaskData PROVE SavedTask(data) \in TaskData
BY StringsAssumption DEF SavedTask, TaskData

LEMMA SavedInstanceType ==
  ASSUME NEW data \in TaskInstanceData PROVE SavedInstance(data) \in TaskInstanceData
BY StringsAssumption DEF SavedInstance, TaskInstanceData

\* An edit keeps data well formed.
LEMMA PatchedType ==
  ASSUME NEW data \in TaskData, NEW patch \in Patches
  PROVE  Patched(data, patch) \in TaskData
<1>1. /\ patch.repeat_info \in Int
      /\ patch.repeat_type \in RepeatTypes \cup {"Keep"}
      /\ patch.scheduled_start \in Int
  BY ArgumentsAssumption DEF Patch
<1>2. (IF patch.repeat_info > 0 THEN patch.repeat_info ELSE data.repeat_info)
          \in RepeatInfos
  BY <1>1 DEF TaskData, RepeatInfos
<1>3. (IF patch.repeat_type # "Keep" THEN patch.repeat_type ELSE data.repeat_type)
          \in RepeatTypes
  BY <1>1 DEF TaskData
<1>4. (IF patch.scheduled_start >= 0 THEN patch.scheduled_start
                                     ELSE data.scheduled_start) \in Int
  BY <1>1 DEF TaskData
<1> QED
  BY <1>2, <1>3, <1>4 DEF Patched, TaskData

\* No rows.
LEMMA NoRowsFacts == DOMAIN NoRows = {}
BY DEF NoRows

\* The same for well-formed tables.
LEMMA PutTable ==
  ASSUME NEW f, NEW keys, NEW rows, IsTable(f, keys, rows),
         NEW k \in keys, NEW v \in rows
  PROVE  IsTable(Put(f, k, v), keys, rows)
BY DEF IsTable, Put

LEMMA UpdateRowTable ==
  ASSUME NEW f, NEW keys, NEW rows, IsTable(f, keys, rows),
         NEW k, NEW v \in rows
  PROVE  IsTable(UpdateRow(f, k, v), keys, rows)
BY DEF IsTable, UpdateRow

LEMMA SetEntryTable ==
  ASSUME NEW f, NEW keys, NEW rows, IsTable(f, keys, rows),
         NEW k, NEW v \in rows
  PROVE  IsTable([f EXCEPT ![k] = v], keys, rows)
BY DEF IsTable

LEMMA WithoutTable ==
  ASSUME NEW f, NEW keys, NEW rows, IsTable(f, keys, rows), NEW k
  PROVE  IsTable(Without(f, k), keys, rows)
BY DEF IsTable, Without, Restrict

LEMMA NoRowsTable == \A keys, rows : IsTable(NoRows, keys, rows)
BY DEF IsTable, NoRows

\* The parts of an identifier are of the right kind, and what a listing
\* writes into a new row is.
LEMMA UidType ==
  ASSUME IsTable(m_tasks, TaskIds, TaskData), NEW id \in DOMAIN m_tasks,
         NEW date \in Tm
  PROVE  UidOf(id, date) \in Uid
BY DEF IsTable, TaskData, Tm, UidOf, Uid

LEMMA InstanceStartType ==
  ASSUME IsTable(m_tasks, TaskIds, TaskData), listing.date \in Tm,
         NEW id \in DOMAIN m_tasks
  PROVE  InstanceStart(id) \in Int
<1> DEFINE hour == ScheduledHour(m_tasks[id])
<1>1. m_tasks[id].scheduled_start \in Int
  BY DEF IsTable, TaskData
<1>2. hour \in 0..23
  BY <1>1, HourType DEF ScheduledHour
<1>3. [listing.date EXCEPT !.hour = hour] \in Tm
  BY <1>2 DEF Tm
<1> HIDE DEF hour
<1> QED
  BY <1>3, MktimeType DEF InstanceStart, hour

LEMMA BlankTypes ==
  /\ \A name \in Strings : BlankTask(name) \in TaskData
  /\ BlankInstance \in TaskInstanceData
BY StringsAssumption
DEF BlankTask, BlankInstance, TaskData, TaskInstanceData, RepeatTypes,
    RepeatInfos, TaskStates

-----------------------------------------------------------------------------
(* Types.                                                                  *)

Safe == TypeOK /\ LocalsOK

LEMMA SafeInit == Init => Safe
BY NoRowsTable DEF Init, Safe, TypeOK, LocalsOK, PcValues

\* A process that ends forgets its memory and its locals, nothing else.
LEMMA SafeDie == ASSUME Safe, Die, UNCHANGED tables PROVE Safe'
BY NoRowsTable DEF Safe, TypeOK, LocalsOK, Die, tables, PcValues

LEMMA SafeTaskCall == ASSUME Safe, TaskCall PROVE Safe'
<1> USE DEF Safe
<1>1. ASSUME NEW task \in NewTasks, AddTask(task) PROVE Safe'
  <2>1. PICK id \in TaskIds :
            /\ tasksTable' = Put(tasksTable, id, BlankTask(Escape[task.name]))
            /\ adding' = [id |-> id, task |-> task]
    BY <1>1 DEF AddTask
  <2>2. BlankTask(Escape[task.name]) \in TaskData
    BY ArgumentsAssumption, StringsAssumption, BlankTypes DEF NewTask
  <2>3. IsTable(tasksTable, TaskIds, TaskData)'
    BY <2>1, <2>2, PutTable DEF TypeOK
  <2>4. (adding.id \in DOMAIN tasksTable /\ adding \in Adding)'
    BY <2>1 DEF Put, Adding
  <2> QED
    BY <1>1, <2>3, <2>4 DEF AddTask, TypeOK, LocalsOK, PcValues, memory
<1>2. ASSUME NEW id \in TaskIds, DeleteTask(id) PROVE Safe'
  <2>1. IsTable(tasksTable, TaskIds, TaskData)'
    BY <1>2, WithoutTable DEF DeleteTask, TypeOK
  <2>2. IsTable(m_tasks, TaskIds, TaskData)'
    BY <1>2, WithoutTable DEF DeleteTask, TypeOK
  <2> QED
    BY <1>2, <2>1, <2>2 DEF DeleteTask, TypeOK, LocalsOK
<1>3. ASSUME NEW id \in TaskIds, NEW data \in TaskData,
             pc = "idle",
             m_tasks' = [m_tasks EXCEPT ![id] = data],
             tasksTable' = UpdateRow(tasksTable, id, SavedTask(data)),
             UNCHANGED <<instancesTable, m_task_instances, pc, adding, listing>>
      PROVE  Safe'
  <2>1. IsTable(tasksTable, TaskIds, TaskData)'
    BY <1>3, SavedTaskType, UpdateRowTable DEF TypeOK
  <2>2. IsTable(m_tasks, TaskIds, TaskData)'
    BY <1>3, SetEntryTable DEF TypeOK
  <2> QED
    BY <1>3, <2>1, <2>2 DEF TypeOK, LocalsOK
<1>4. ASSUME NEW id \in TaskIds, NEW patch \in Patches, ModifyTask(id, patch)
      PROVE  Safe'
  <2>1. m_tasks[id] \in TaskData
    BY <1>4 DEF ModifyTask, TypeOK, IsTable
  <2>2. Patched(m_tasks[id], patch) \in TaskData
    BY <2>1, PatchedType
  <2> QED
    BY <1>4, <2>2, <1>3 DEF ModifyTask
<1>5. ASSUME NEW id \in TaskIds, NEW comment \in Comments,
             SetTaskComment(id, comment)
      PROVE  Safe'
  <2>1. m_tasks[id] \in TaskData
    BY <1>5 DEF SetTaskComment, TypeOK, IsTable
  <2>2. [m_tasks[id] EXCEPT !.comment = comment] \in TaskData
    BY <2>1, StringsAssumption DEF TaskData
  <2> QED
    BY <1>5, <2>2, <1>3 DEF SetTaskComment
<1>6. ModifyUnknownTask => Safe'
  BY SafeDie DEF ModifyUnknownTask
<1> QED
  BY <1>1, <1>2, <1>4, <1>5, <1>6 DEF TaskCall

LEMMA SafeInstanceCall == ASSUME Safe, InstanceCall PROVE Safe'
<1> USE DEF Safe
<1>1. ASSUME NEW uid \in DOMAIN m_task_instances, NEW data \in TaskInstanceData,
             pc = "idle",
             WriteInstance(uid, data),
             UNCHANGED <<tasksTable, m_tasks, pc, adding, listing>>
      PROVE  Safe'
  <2>1. IsTable(instancesTable, Uid, TaskInstanceData)'
    BY <1>1, SavedInstanceType, UpdateRowTable DEF TypeOK, WriteInstance
  <2>2. IsTable(m_task_instances, Uid, TaskInstanceData)'
    BY <1>1, SetEntryTable DEF TypeOK, WriteInstance
  <2> QED
    BY <1>1, <2>1, <2>2 DEF TypeOK, LocalsOK
<1>2. ASSUME NEW uid \in DOMAIN m_task_instances, NEW state \in TaskStates,
             SetState(uid, state)
      PROVE  Safe'
  <2>1. m_task_instances[uid] \in TaskInstanceData
    BY DEF TypeOK, IsTable
  <2>2. [m_task_instances[uid] EXCEPT !.state = state] \in TaskInstanceData
    BY <2>1 DEF TaskInstanceData
  <2> QED
    BY <1>2, <2>2, <1>1 DEF SetState
<1>3. ASSUME NEW uid \in DOMAIN m_task_instances, NEW comment \in Comments,
             SetComment(uid, comment)
      PROVE  Safe'
  <2>1. m_task_instances[uid] \in TaskInstanceData
    BY DEF TypeOK, IsTable
  <2>2. [m_task_instances[uid] EXCEPT !.comment = comment] \in TaskInstanceData
    BY <2>1, StringsAssumption DEF TaskInstanceData
  <2> QED
    BY <1>3, <2>2, <1>1 DEF SetComment
<1>4. {"Started", "Skipped", "Finished", "NotStarted"} \subseteq TaskStates
  BY DEF TaskStates
<1> QED
  BY <1>2, <1>3, <1>4
  DEF InstanceCall, StartTask, SkipTask, FinishTask, SetUndone

LEMMA SafeListCall == ASSUME Safe, ListCall PROVE Safe'
<1> USE DEF Safe
<1>1. ASSUME NEW date \in Tm, BeginListing(date) PROVE Safe'
  <2>1. listing' \in Listing /\ listing'.todo = DOMAIN m_tasks
    BY <1>1 DEF BeginListing, Listing, TypeOK, IsTable
  <2> QED
    BY <1>1, <2>1 DEF BeginListing, TypeOK, LocalsOK, PcValues, tables, memory
<1>2. ASSUME NEW t \in Dates, GetTaskInstances(t) PROVE Safe'
  BY <1>1, <1>2, ArgumentsAssumption DEF GetTaskInstances
<1>3. ASSUME NEW t \in BareDates, GetTaskInstancesOn(t) PROVE Safe'
  <2>1. localtime(t) \in Tm
    BY ArgumentsAssumption
  <2>2. FromYmd(localtime(t).mon, localtime(t).mday) \in Tm
    BY <2>1 DEF FromYmd, Tm
  <2> QED
    BY <1>1, <1>3, <2>2 DEF GetTaskInstancesOn
<1> QED
  BY <1>2, <1>3 DEF ListCall

\* The current task of a listing is one, and its data and identifier are
\* well formed.
LEMMA CurrentFacts ==
  ASSUME Safe, pc \in {"scanning", "filling"}, NEW id \in TaskIds, IsCurrent(id)
  PROVE  /\ listing \in Listing
         /\ listing.date \in Tm
         /\ id \in listing.todo
         /\ id \in DOMAIN m_tasks
         /\ UidOf(id, listing.date) \in Uid
         /\ \A k \in TaskIds : IsCurrent(k) => k = id
<1>1. listing \in Listing /\ listing.date \in Tm /\ id \in listing.todo
  BY DEF Safe, TypeOK, Listing, IsCurrent
<1>2. id \in DOMAIN m_tasks
  BY <1>1 DEF Safe, LocalsOK
<1>3. UidOf(id, listing.date) \in Uid
  BY <1>1, <1>2, UidType DEF Safe, TypeOK
<1>4. \A k \in TaskIds : IsCurrent(k) => k = id
  BY BoundsAssumption DEF IsCurrent, TaskIds
<1> QED
  BY <1>1, <1>2, <1>3, <1>4

\* Advance leaves the date and takes one task off the list.
LEMMA AdvanceFacts ==
  ASSUME listing \in Listing, NEW id, NEW uids \in SUBSET Uid, Advance(id, uids)
  PROVE  /\ listing' \in Listing
         /\ listing'.date = listing.date
         /\ listing'.todo = listing.todo \ {id}
         /\ listing'.found = listing.found \cup uids
BY DEF Advance, Listing

LEMMA SafeInternal == ASSUME Safe, Internal PROVE Safe'
<1> USE DEF Safe
<1>1. AddTaskFill => Safe'
  <2> SUFFICES ASSUME AddTaskFill PROVE Safe'
    OBVIOUS
  <2> DEFINE id == adding.id
             data == [tasksTable[id] EXCEPT
                        !.repeat_type = adding.task.repeat_type,
                        !.repeat_info = adding.task.repeat_info,
                        !.scheduled_start = mktime(adding.task.start_time)]
  <2>1. /\ id \in TaskIds /\ id \in DOMAIN tasksTable
        /\ tasksTable[id] \in TaskData
        /\ adding.task \in NewTask
    BY ArgumentsAssumption DEF AddTaskFill, TypeOK, LocalsOK, IsTable, Adding
  <2>2. mktime(adding.task.start_time) \in Int
    BY <2>1, MktimeType DEF NewTask
  <2>3. data \in TaskData
    BY <2>1, <2>2 DEF TaskData, NewTask
  <2>4. IsTable(tasksTable, TaskIds, TaskData)'
    BY <2>3, SavedTaskType, UpdateRowTable DEF AddTaskFill, TypeOK
  <2>5. IsTable(m_tasks, TaskIds, TaskData)'
    BY <2>1, <2>3, PutTable DEF AddTaskFill, TypeOK
  <2> QED
    BY <2>4, <2>5 DEF AddTaskFill, TypeOK, LocalsOK, PcValues
<1>2. ASSUME NEW id \in TaskIds, Scan(id) PROVE Safe'
  <2> DEFINE uid == UidOf(id, listing.date)
  <2>1. pc \in {"scanning", "filling"} /\ IsCurrent(id)
    BY <1>2 DEF Scan, ScanTrap, ScanSkip, ScanCached, ScanLoad, ScanInsert,
                Fill, Scanning
  <2>2. /\ listing \in Listing /\ id \in DOMAIN m_tasks /\ uid \in Uid
        /\ listing.date \in Tm
        /\ \A k \in TaskIds : IsCurrent(k) => k = id
    BY <2>1, CurrentFacts
  <2> HIDE DEF uid
  <2>3. ScanTrap(id) => Safe'
    BY SafeDie DEF ScanTrap
  <2>4. ScanSkip(id) => Safe'
    BY <2>2, AdvanceFacts
    DEF ScanSkip, Scanning, TypeOK, LocalsOK, tables, memory
  <2>5. ScanCached(id) => Safe'
    BY <2>2, AdvanceFacts
    DEF ScanCached, Scanning, TypeOK, LocalsOK, tables, memory, uid
  <2>6. ASSUME ScanLoad(id) PROVE Safe'
    <3>1. uid \in DOMAIN instancesTable
          /\ m_task_instances' = Put(m_task_instances, uid, instancesTable[uid])
      BY <2>6 DEF ScanLoad, uid
    <3>2. instancesTable[uid] \in TaskInstanceData
      BY <3>1 DEF TypeOK, IsTable
    <3>3. IsTable(m_task_instances, Uid, TaskInstanceData)'
      BY <2>2, <3>1, <3>2, PutTable DEF TypeOK
    <3>4. Advance(id, {uid})
      BY <2>6 DEF ScanLoad, uid
    <3>5. listing' \in Listing /\ listing'.todo = listing.todo \ {id}
      BY <2>2, <3>4, AdvanceFacts
    <3> QED
      BY <2>6, <3>3, <3>5 DEF ScanLoad, Scanning, TypeOK, LocalsOK, tables
  <2>7. ASSUME ScanInsert(id) PROVE Safe'
    <3>1. instancesTable' = Put(instancesTable, uid, BlankInstance)
      BY <2>7 DEF ScanInsert, uid
    <3>2. IsTable(instancesTable, Uid, TaskInstanceData)'
      BY <2>2, <3>1, BlankTypes, PutTable DEF TypeOK
    <3>3. uid \in DOMAIN instancesTable' /\ uid \notin DOMAIN m_task_instances
      BY <2>7, <3>1 DEF ScanInsert, Put, uid
    <3>4. \A k \in TaskIds : IsCurrent(k)' => k = id /\ UidOf(k, listing.date)' = uid
      BY <2>2, <2>7 DEF ScanInsert, IsCurrent, UidOf, memory, uid
    <3>5. Due(id)'
      BY <2>7 DEF ScanInsert, Due, memory
    <3> QED
      BY <2>7, <3>2, <3>3, <3>4, <3>5
      DEF ScanInsert, Scanning, TypeOK, LocalsOK, PcValues, memory
  <2>8. ASSUME Fill(id) PROVE Safe'
    <3> DEFINE data == [instancesTable[uid] EXCEPT
                            !.scheduled_start = InstanceStart(id)]
    <3>1. uid \in DOMAIN instancesTable
      BY <2>8 DEF Fill, LocalsOK, uid
    <3>2. InstanceStart(id) \in Int
      BY <2>2, InstanceStartType DEF TypeOK
    <3>3. data \in TaskInstanceData
      BY <3>1, <3>2 DEF TypeOK, IsTable, TaskInstanceData
    <3>4. /\ instancesTable' = UpdateRow(instancesTable, uid, SavedInstance(data))
          /\ m_task_instances' = Put(m_task_instances, uid, instancesTable'[uid])
      BY <2>8 DEF Fill, uid
    <3> HIDE DEF data
    <3>5. IsTable(instancesTable, Uid, TaskInstanceData)'
      BY <3>3, <3>4, SavedInstanceType, UpdateRowTable DEF TypeOK
    <3>6. instancesTable'[uid] \in TaskInstanceData
      BY <3>1, <3>4, <3>5 DEF UpdateRow, IsTable
    <3>7. IsTable(m_task_instances, Uid, TaskInstanceData)'
      BY <2>2, <3>4, <3>6, PutTable DEF TypeOK
    <3>8. Advance(id, {uid})
      BY <2>8 DEF Fill, uid
    <3>9. listing' \in Listing /\ listing'.todo = listing.todo \ {id}
      BY <2>2, <3>8, AdvanceFacts
    <3> QED
      BY <2>8, <3>5, <3>7, <3>9 DEF Fill, TypeOK, LocalsOK, PcValues
  <2> QED
    BY <1>2, <2>3, <2>4, <2>5, <2>6, <2>7, <2>8 DEF Scan
<1>3. ListReturn => Safe'
  BY DEF ListReturn, TypeOK, LocalsOK, PcValues, tables, memory
<1>4. ClearInstances => Safe'
  BY NoRowsTable DEF ClearInstances, TypeOK, LocalsOK, PcValues
<1> QED
  BY <1>1, <1>2, <1>3, <1>4 DEF Internal

LEMMA SafeNext == Safe /\ [Next]_vars => Safe'
<1> SUFFICES ASSUME Safe, [Next]_vars PROVE Safe'
  OBVIOUS
<1>1. Clear => Safe'
  BY NoRowsTable DEF Clear, Safe, TypeOK, LocalsOK, PcValues, memory
<1>2. Crash => Safe'
  BY SafeDie DEF Crash
<1>3. Restart => Safe'
  BY DEF Restart, Safe, TypeOK, LocalsOK, PcValues, tables
<1>4. UNCHANGED vars => Safe'
  BY DEF vars, Safe, TypeOK, LocalsOK, IsCurrent, UidOf, Due
<1> QED
  BY <1>1, <1>2, <1>3, <1>4,
     SafeTaskCall, SafeInstanceCall, SafeListCall, SafeInternal
  DEF Next

\* Every variable stays in its type, and a running call never refers to a
\* row that is not there.
THEOREM SafeAlways == Spec => []Safe
BY SafeInit, SafeNext, PTL DEF Spec

\* The locals of a running call refer to data that is there, whatever else
\* was called before it (tasktracklib.cpp, the loop of get_task_instances).
THEOREM LocalsAlwaysGood == Spec => []LocalsOK
<1>1. Safe => LocalsOK
  BY DEF Safe
<1> QED
  BY <1>1, SafeAlways, PTL

\* The variables of the tracker keep their types.
THEOREM TypeCorrect == Spec => []TypeOK
<1>1. Safe => TypeOK
  BY DEF Safe
<1> QED
  BY <1>1, SafeAlways, PTL

-----------------------------------------------------------------------------
(* Memory and database.                                                    *)

LEMMA SavedTwice ==
  /\ \A data \in TaskData : SavedTask(SavedTask(data)) = SavedTask(data)
  /\ \A data \in TaskInstanceData :
        SavedInstance(SavedInstance(data)) = SavedInstance(data)
BY StringsAssumption DEF SavedTask, SavedInstance, TaskData, TaskInstanceData

LEMMA BlankSaved ==
  /\ \A name \in Strings :
        SavedTask(BlankTask(Escape[name])) = BlankTask(Escape[name])
  /\ SavedInstance(BlankInstance) = BlankInstance
<1>1. ASSUME NEW name \in Strings
      PROVE  SavedTask(BlankTask(Escape[name])) = BlankTask(Escape[name])
  <2>1. Escape[Escape[name]] = Escape[name] /\ Escape[NoText] = NoText
    BY StringsAssumption
  <2>2. BlankTask(Escape[name]).name = Escape[name]
        /\ BlankTask(Escape[name]).comment = NoText
    BY DEF BlankTask
  <2> QED
    BY <2>1, <2>2 DEF SavedTask, BlankTask
<1>2. SavedInstance(BlankInstance) = BlankInstance
  BY StringsAssumption DEF SavedInstance, BlankInstance
<1> QED
  BY <1>1, <1>2

\* Every row is as an UPDATE would leave it: reading a row into memory and
\* saving it again changes nothing.  Without this a task loaded at a restart
\* could differ from its row.
RowsSaved ==
    /\ \A id \in DOMAIN tasksTable : SavedTask(tasksTable[id]) = tasksTable[id]
    /\ \A uid \in DOMAIN instancesTable :
          SavedInstance(instancesTable[uid]) = instancesTable[uid]

Agreement == RowsSaved /\ TasksAgree /\ CacheCoherent

LEMMA AgreementInit == Init => Agreement
BY NoRowsFacts
DEF Init, Agreement, RowsSaved, TasksAgree, SameTasks, CacheCoherent

LEMMA AgreementDie ==
  ASSUME Agreement, Die, UNCHANGED tables PROVE Agreement'
BY NoRowsFacts
DEF Agreement, RowsSaved, TasksAgree, CacheCoherent, Die, tables

LEMMA AgreementTaskCall ==
  ASSUME Safe, Agreement, TaskCall PROVE Agreement'
<1> USE DEF Agreement
<1>1. ASSUME NEW task \in NewTasks, AddTask(task) PROVE Agreement'
  <2>1. PICK id \in TaskIds :
            /\ id \notin DOMAIN tasksTable
            /\ tasksTable' = Put(tasksTable, id, BlankTask(Escape[task.name]))
            /\ adding' = [id |-> id, task |-> task]
    BY <1>1, BoundsAssumption DEF AddTask, IsNextRowid, TaskIds
  <2>2. SavedTask(BlankTask(Escape[task.name])) = BlankTask(Escape[task.name])
    BY ArgumentsAssumption, BlankSaved DEF NewTask
  <2>3. RowsSaved'
    BY <1>1, <2>1, <2>2 DEF Put, AddTask, RowsSaved
  <2>4. TasksAgree'
    BY <1>1, <2>1 DEF Put, AddTask, TasksAgree, SameTasks, memory
  <2> QED
    BY <1>1, <2>3, <2>4 DEF AddTask, CacheCoherent, memory
<1>2. ASSUME NEW id \in TaskIds, DeleteTask(id) PROVE Agreement'
  BY <1>2 DEF Without, Restrict, DeleteTask, RowsSaved, TasksAgree, SameTasks, CacheCoherent
<1>3. ASSUME NEW id \in DOMAIN m_tasks, NEW data \in TaskData,
             pc = "idle",
             m_tasks' = [m_tasks EXCEPT ![id] = data],
             tasksTable' = UpdateRow(tasksTable, id, SavedTask(data)),
             UNCHANGED <<instancesTable, m_task_instances, pc, adding, listing>>
      PROVE  Agreement'
  <2>1. RowsSaved'
    BY <1>3, SavedTwice DEF UpdateRow, RowsSaved
  <2>2. TasksAgree'
    BY <1>3 DEF UpdateRow, TasksAgree, SameTasks
  <2> QED
    BY <1>3, <2>1, <2>2 DEF CacheCoherent
<1>4. ASSUME NEW id \in TaskIds, NEW patch \in Patches, ModifyTask(id, patch)
      PROVE  Agreement'
  <2>1. id \in DOMAIN m_tasks /\ m_tasks[id] \in TaskData
    BY <1>4 DEF ModifyTask, Safe, TypeOK, IsTable
  <2>2. Patched(m_tasks[id], patch) \in TaskData
    BY <2>1, PatchedType
  <2> QED
    BY <1>4, <2>1, <2>2, <1>3 DEF ModifyTask
<1>5. ASSUME NEW id \in TaskIds, NEW comment \in Comments,
             SetTaskComment(id, comment)
      PROVE  Agreement'
  <2>1. id \in DOMAIN m_tasks /\ m_tasks[id] \in TaskData
    BY <1>5 DEF SetTaskComment, Safe, TypeOK, IsTable
  <2>2. [m_tasks[id] EXCEPT !.comment = comment] \in TaskData
    BY <2>1, StringsAssumption DEF TaskData
  <2> QED
    BY <1>5, <2>1, <2>2, <1>3 DEF SetTaskComment
<1>6. ModifyUnknownTask => Agreement'
  BY AgreementDie DEF ModifyUnknownTask
<1> QED
  BY <1>1, <1>2, <1>4, <1>5, <1>6 DEF TaskCall

LEMMA AgreementInstanceCall ==
  ASSUME Safe, Agreement, InstanceCall PROVE Agreement'
<1> USE DEF Agreement
<1>1. ASSUME NEW uid \in DOMAIN m_task_instances, NEW data \in TaskInstanceData,
             pc = "idle",
             WriteInstance(uid, data),
             UNCHANGED <<tasksTable, m_tasks, pc, adding, listing>>
      PROVE  Agreement'
  <2>1. RowsSaved'
    BY <1>1, SavedTwice DEF UpdateRow, WriteInstance, RowsSaved
  <2>2. CacheCoherent'
    BY <1>1 DEF UpdateRow, WriteInstance, CacheCoherent
  <2> QED
    BY <1>1, <2>1, <2>2 DEF TasksAgree, SameTasks
<1>2. ASSUME NEW uid \in DOMAIN m_task_instances, NEW state \in TaskStates,
             SetState(uid, state)
      PROVE  Agreement'
  <2>1. m_task_instances[uid] \in TaskInstanceData
    BY DEF Safe, TypeOK, IsTable
  <2>2. [m_task_instances[uid] EXCEPT !.state = state] \in TaskInstanceData
    BY <2>1 DEF TaskInstanceData
  <2> QED
    BY <1>2, <2>2, <1>1 DEF SetState
<1>3. ASSUME NEW uid \in DOMAIN m_task_instances, NEW comment \in Comments,
             SetComment(uid, comment)
      PROVE  Agreement'
  <2>1. m_task_instances[uid] \in TaskInstanceData
    BY DEF Safe, TypeOK, IsTable
  <2>2. [m_task_instances[uid] EXCEPT !.comment = comment] \in TaskInstanceData
    BY <2>1, StringsAssumption DEF TaskInstanceData
  <2> QED
    BY <1>3, <2>2, <1>1 DEF SetComment
<1>4. {"Started", "Skipped", "Finished", "NotStarted"} \subseteq TaskStates
  BY DEF TaskStates
<1> QED
  BY <1>2, <1>3, <1>4
  DEF InstanceCall, StartTask, SkipTask, FinishTask, SetUndone

LEMMA AgreementInternal ==
  ASSUME Safe, Agreement, Internal PROVE Agreement'
<1> USE DEF Agreement
<1>1. ASSUME AddTaskFill PROVE Agreement'
  <2>1. PICK data :
            /\ tasksTable' = UpdateRow(tasksTable, adding.id, SavedTask(data))
            /\ m_tasks' = Put(m_tasks, adding.id, data)
            /\ data = [tasksTable[adding.id] EXCEPT
                          !.repeat_type = adding.task.repeat_type,
                          !.repeat_info = adding.task.repeat_info,
                          !.scheduled_start = mktime(adding.task.start_time)]
    BY <1>1 DEF AddTaskFill
  <2>2. /\ adding.id \in DOMAIN tasksTable
        /\ tasksTable[adding.id] \in TaskData
        /\ adding.task \in NewTask
    BY <1>1, ArgumentsAssumption
    DEF AddTaskFill, Safe, TypeOK, LocalsOK, IsTable, Adding
  <2>3. mktime(adding.task.start_time) \in Int
    BY <2>2, MktimeType DEF NewTask
  <2>4. data \in TaskData
    BY <2>1, <2>2, <2>3 DEF TaskData, NewTask
  <2>5. RowsSaved'
    BY <1>1, <2>1, <2>4, SavedTwice DEF UpdateRow, AddTaskFill, RowsSaved
  <2>6. TasksAgree'
    BY <1>1, <2>1, <2>2 DEF Put, UpdateRow, AddTaskFill, TasksAgree, SameTasks
  <2> QED
    BY <1>1, <2>5, <2>6 DEF AddTaskFill, CacheCoherent
<1>2. ASSUME NEW id \in TaskIds, Scan(id) PROVE Agreement'
  <2> DEFINE uid == UidOf(id, listing.date)
  <2>1. ScanTrap(id) => Agreement'
    BY AgreementDie DEF ScanTrap
  <2>2. ScanSkip(id) \/ ScanCached(id) => Agreement'
    BY DEF ScanSkip, ScanCached, Scanning, RowsSaved, TasksAgree, SameTasks,
           CacheCoherent, tables, memory
  <2>3. ASSUME ScanLoad(id) PROVE Agreement'
    <3>1. CacheCoherent'
      BY <2>3 DEF Put, ScanLoad, RowsSaved, CacheCoherent, tables
    <3> QED
      BY <2>3, <3>1
      DEF ScanLoad, Scanning, RowsSaved, TasksAgree, SameTasks, tables
  <2>4. ASSUME ScanInsert(id) PROVE Agreement'
    <3>1. RowsSaved'
      BY <2>4, BlankSaved DEF Put, ScanInsert, RowsSaved
    <3>2. CacheCoherent'
      BY <2>4 DEF Put, ScanInsert, CacheCoherent, memory
    <3> QED
      BY <2>4, <3>1, <3>2
      DEF ScanInsert, Scanning, TasksAgree, SameTasks, memory
  <2>5. ASSUME Fill(id) PROVE Agreement'
    <3> DEFINE data == [instancesTable[uid] EXCEPT
                            !.scheduled_start = InstanceStart(id)]
    <3>1. /\ uid \in DOMAIN instancesTable
          /\ id \in DOMAIN m_tasks
          /\ listing.date \in Tm
      BY <2>5, CurrentFacts DEF Fill, Safe, LocalsOK
    <3>2. InstanceStart(id) \in Int
      BY <3>1, InstanceStartType DEF Safe, TypeOK
    <3>3. data \in TaskInstanceData
      BY <3>1, <3>2 DEF Safe, TypeOK, IsTable, TaskInstanceData
    <3>4. /\ instancesTable' = UpdateRow(instancesTable, uid, SavedInstance(data))
          /\ m_task_instances' = Put(m_task_instances, uid, instancesTable'[uid])
      BY <2>5 DEF Fill
    <3> HIDE DEF data, uid
    <3>5. RowsSaved'
      BY <2>5, <3>3, <3>4, SavedTwice DEF UpdateRow, Fill, RowsSaved
    <3>6. CacheCoherent'
      BY <3>1, <3>4, <3>5 DEF Put, UpdateRow, RowsSaved, CacheCoherent
    <3> QED
      BY <2>5, <3>5, <3>6 DEF Fill, TasksAgree, SameTasks
  <2> QED
    BY <1>2, <2>1, <2>2, <2>3, <2>4, <2>5 DEF Scan
<1>3. ListReturn => Agreement'
  BY DEF ListReturn, RowsSaved, TasksAgree, SameTasks, CacheCoherent, tables, memory
<1>4. ClearInstances => Agreement'
  BY NoRowsFacts DEF ClearInstances, RowsSaved, TasksAgree, SameTasks, CacheCoherent
<1> QED
  BY <1>1, <1>2, <1>3, <1>4 DEF Internal

LEMMA AgreementNext == Safe /\ Agreement /\ [Next]_vars => Agreement'
<1> SUFFICES ASSUME Safe, Agreement, [Next]_vars PROVE Agreement'
  OBVIOUS
<1> USE DEF Agreement
<1>1. ListCall => Agreement'
  BY DEF ListCall, GetTaskInstances, GetTaskInstancesOn, BeginListing, RowsSaved,
         TasksAgree, SameTasks, CacheCoherent, tables, memory
<1>2. Clear => Agreement'
  BY NoRowsFacts DEF Clear, RowsSaved, TasksAgree, CacheCoherent, memory
<1>3. Crash => Agreement'
  BY AgreementDie DEF Crash
<1>4. Restart => Agreement'
  BY DEF Restart, RowsSaved, TasksAgree, SameTasks, CacheCoherent, tables
<1>5. UNCHANGED vars => Agreement'
  BY DEF vars, RowsSaved, TasksAgree, SameTasks, CacheCoherent
<1> QED
  BY <1>1, <1>2, <1>3, <1>4, <1>5,
     AgreementTaskCall, AgreementInstanceCall, AgreementInternal
  DEF Next

\* Every row is in its saved form, and memory agrees with it.
THEOREM AgreementAlways == Spec => []Agreement
BY AgreementInit, AgreementNext, SafeAlways, PTL DEF Spec

\* Whatever is added, edited, deleted, cleared or lost in a crash, the tasks
\* in memory are those of the database between calls and during a listing.
THEOREM TasksAlwaysAgree == Spec => []TasksAgree
<1>1. Agreement => TasksAgree
  BY DEF Agreement
<1> QED
  BY <1>1, AgreementAlways, PTL

\* A cached instance never differs from its row.
THEOREM CacheAlwaysCoherent == Spec => []CacheCoherent
<1>1. Agreement => CacheCoherent
  BY DEF Agreement
<1> QED
  BY <1>1, AgreementAlways, PTL

-----------------------------------------------------------------------------
(* Instances.                                                              *)

\* While clear runs nothing is cached, so the rows it drops had no copy.
Stored ==
    /\ CacheStored
    /\ pc = "clearing" => DOMAIN m_task_instances = {}

LEMMA StoredNext ==
  ASSUME Safe, Stored, [Next]_vars, Clear => DOMAIN m_task_instances = {}
  PROVE  Stored'
<1> USE DEF Stored, CacheStored
<1>1. ASSUME Die, UNCHANGED tables PROVE Stored'
  BY <1>1, NoRowsFacts DEF Die
<1>2. ASSUME TaskCall PROVE Stored'
  <2>1. ModifyUnknownTask => Stored'
    BY <1>1 DEF ModifyUnknownTask
  <2> QED
    BY <1>2, <2>1 DEF TaskCall, AddTask, DeleteTask, ModifyTask, SetTaskComment, memory
<1>3. ASSUME InstanceCall PROVE Stored'
  <2>1. /\ pc = "idle" /\ pc' = pc
        /\ \E uid \in DOMAIN m_task_instances : \E data : WriteInstance(uid, data)
    BY <1>3 DEF InstanceCall, StartTask, SkipTask, FinishTask, SetUndone,
                SetState, SetComment
  <2> QED
    BY <2>1 DEF WriteInstance, UpdateRow
<1>4. ASSUME ListCall PROVE Stored'
  BY <1>4 DEF ListCall, GetTaskInstances, GetTaskInstancesOn, BeginListing,
              tables, memory
<1>5. ASSUME Internal PROVE Stored'
  <2>1. AddTaskFill \/ ListReturn => Stored'
    BY DEF AddTaskFill, ListReturn, tables, memory
  <2>2. ASSUME NEW id \in TaskIds, Scan(id) PROVE Stored'
    <3> DEFINE uid == UidOf(id, listing.date)
    <3>1. ScanTrap(id) => Stored'
      BY <1>1 DEF ScanTrap
    <3>2. ScanSkip(id) \/ ScanCached(id) => Stored'
      BY DEF ScanSkip, ScanCached, Scanning, tables, memory
    <3>3. ScanLoad(id) => Stored'
      BY DEF ScanLoad, Scanning, Put, tables
    <3>4. ScanInsert(id) => Stored'
      BY DEF ScanInsert, Scanning, Put, memory
    <3>5. ASSUME Fill(id) PROVE Stored'
      <4>1. uid \in DOMAIN instancesTable
        BY <3>5 DEF Fill, Safe, LocalsOK
      <4>2. /\ DOMAIN instancesTable' = DOMAIN instancesTable
            /\ DOMAIN m_task_instances' = DOMAIN m_task_instances \cup {uid}
        BY <3>5 DEF Fill, Put, UpdateRow
      <4> QED
        BY <3>5, <4>1, <4>2 DEF Fill
    <3> QED
      BY <2>2, <3>1, <3>2, <3>3, <3>4, <3>5 DEF Scan
  <2>3. ClearInstances => Stored'
    BY NoRowsFacts DEF ClearInstances
  <2> QED
    BY <1>5, <2>1, <2>2, <2>3 DEF Internal
<1>6. ASSUME Clear PROVE Stored'
  BY <1>6 DEF Clear, memory
<1>7. ASSUME Crash PROVE Stored'
  BY <1>7, <1>1 DEF Crash
<1>8. ASSUME Restart PROVE Stored'
  BY <1>8 DEF Restart, tables
<1>9. ASSUME UNCHANGED vars PROVE Stored'
  BY <1>9 DEF vars
<1> QED
  BY <1>2, <1>3, <1>4, <1>5, <1>6, <1>7, <1>8, <1>9 DEF Next

\* When clear is called before the first listing only, as the application
\* does, every cached instance has a row to be saved in.
THEOREM CacheAlwaysStored == ASSUME ~ClearAnytime PROVE Spec => []CacheStored
<1>1. Init => Stored
  BY NoRowsFacts DEF Init, Stored, CacheStored
<1>2. Safe /\ Stored /\ [Next]_vars => Stored'
  <2>1. Clear => DOMAIN m_task_instances = {}
    BY FlagsAssumption DEF Clear
  <2> QED
    BY <2>1, StoredNext
<1>3. Stored => CacheStored
  BY DEF Stored
<1> QED
  BY <1>1, <1>2, <1>3, SafeAlways, PTL DEF Spec

\* The pointers the list model holds outlive every call: the cache loses an
\* instance only when the process ends.
THEOREM PointersStayValid == Spec => InstancePointersStayValid
<1> DEFINE Kept == pc # "down" /\ pc' # "down" =>
                       DOMAIN m_task_instances \subseteq DOMAIN m_task_instances'
<1>1. ASSUME [Next]_vars PROVE Kept
  <2>1. Die => Kept
    BY DEF Die
  <2>2. TaskCall => Kept
    BY <2>1 DEF TaskCall, AddTask, DeleteTask, ModifyTask, SetTaskComment,
                ModifyUnknownTask, memory
  <2>3. InstanceCall => Kept
    BY DEF InstanceCall, StartTask, SkipTask, FinishTask, SetUndone, SetState,
           SetComment, WriteInstance
  <2>4. ListCall => Kept
    BY DEF ListCall, GetTaskInstances, GetTaskInstancesOn, BeginListing, memory
  <2>5. Internal => Kept
    BY <2>1 DEF Internal, AddTaskFill, ListReturn, ClearInstances, Scan, ScanTrap,
                ScanSkip, ScanCached, ScanLoad, ScanInsert, Fill, Put, memory
  <2>6. Clear \/ Crash \/ Restart \/ UNCHANGED vars => Kept
    BY <2>1 DEF Clear, Crash, Restart, vars, memory
  <2> QED
    BY <1>1, <2>2, <2>3, <2>4, <2>5, <2>6 DEF Next
<1> QED
  BY <1>1, PTL DEF Spec, InstancePointersStayValid

-----------------------------------------------------------------------------
(* Listings.                                                               *)

\* What a listing must have found once it has come past all but the tasks of
\* todo.
Found(todo) ==
    {UidOf(id, listing.date) : id \in {k \in DOMAIN m_tasks \ todo : Due(k)}}

\* Coming past a task that is due adds its instance and nothing else ...
LEMMA FoundDue ==
  ASSUME NEW todo, NEW id \in DOMAIN m_tasks, id \in todo, Due(id)
  PROVE  Found(todo \ {id}) = Found(todo) \cup {UidOf(id, listing.date)}
BY DEF Found

\* ... and coming past one that is not due adds nothing.
LEMMA FoundNotDue ==
  ASSUME NEW todo, NEW id \in DOMAIN m_tasks, id \in todo, ~Due(id)
  PROVE  Found(todo \ {id}) = Found(todo)
BY DEF Found

\* A step that comes past the current task and caches what it has found keeps
\* the listing exact.
LEMMA ExactAdvance ==
  ASSUME Safe, ListingExact, pc \in {"scanning", "filling"},
         NEW id \in TaskIds, IsCurrent(id),
         NEW uids \in SUBSET Uid, Advance(id, uids),
         uids = IF Due(id) THEN {UidOf(id, listing.date)} ELSE {},
         m_tasks' = m_tasks,
         DOMAIN m_task_instances' = DOMAIN m_task_instances \cup uids
  PROVE  ListingExact'
<1>1. listing \in Listing /\ id \in listing.todo /\ id \in DOMAIN m_tasks
  BY CurrentFacts
<1>2. /\ listing'.date = listing.date
      /\ listing'.todo = listing.todo \ {id}
      /\ listing'.found = listing.found \cup uids
  BY <1>1, AdvanceFacts
<1>3. listing.found = Found(listing.todo)
  BY DEF ListingExact, Found
<1>4. listing'.found = Found(listing.todo \ {id})
  BY <1>1, <1>2, <1>3, FoundDue, FoundNotDue
<1>5. \A k : Due(k)' = Due(k)
  BY <1>2 DEF Due
<1>6. \A k : UidOf(k, listing.date)' = UidOf(k, listing.date)
  BY <1>2 DEF UidOf
<1>7. {UidOf(k, listing.date) : k \in {j \in DOMAIN m_tasks \ listing.todo : Due(j)}}'
          = Found(listing.todo \ {id})
  BY <1>2, <1>5, <1>6 DEF Found
<1>8. listing'.found \subseteq DOMAIN m_task_instances'
  BY <1>2 DEF ListingExact
<1> QED
  BY <1>4, <1>7, <1>8 DEF ListingExact

LEMMA ExactNext == Safe /\ ListingExact /\ [Next]_vars => ListingExact'
<1> SUFFICES ASSUME Safe, ListingExact, [Next]_vars PROVE ListingExact'
  OBVIOUS
<1>1. Die => ListingExact'
  BY DEF Die, ListingExact
<1>2. TaskCall => ListingExact'
  BY <1>1 DEF TaskCall, AddTask, DeleteTask, ModifyTask, SetTaskComment,
              ModifyUnknownTask, ListingExact
<1>3. InstanceCall => ListingExact'
  BY DEF InstanceCall, StartTask, SkipTask, FinishTask, SetUndone, SetState,
         SetComment, ListingExact
<1>4. ASSUME NEW date, BeginListing(date) PROVE ListingExact'
  <2>1. listing'.todo = DOMAIN m_tasks' /\ listing'.found = {}
    BY <1>4 DEF BeginListing, memory
  <2> QED
    BY <2>1 DEF ListingExact
<1>5. ListCall => ListingExact'
  BY <1>4 DEF ListCall, GetTaskInstances, GetTaskInstancesOn
<1>6. ASSUME NEW id \in TaskIds, Scan(id) PROVE ListingExact'
  <2> DEFINE uid == UidOf(id, listing.date)
  <2>1. pc \in {"scanning", "filling"} /\ IsCurrent(id)
    BY <1>6 DEF Scan, ScanTrap, ScanSkip, ScanCached, ScanLoad, ScanInsert,
                Fill, Scanning
  <2>2. uid \in Uid /\ id \in DOMAIN m_tasks
    BY <2>1, CurrentFacts
  <2>3. ScanTrap(id) => ListingExact'
    BY <1>1 DEF ScanTrap
  <2>4. ASSUME ScanSkip(id) PROVE ListingExact'
    <3>1. Advance(id, {}) /\ ~Due(id) /\ UNCHANGED memory
      BY <2>4 DEF ScanSkip, Due
    <3> QED
      BY <2>1, <3>1, ExactAdvance DEF memory
  <2>5. ASSUME ScanCached(id) PROVE ListingExact'
    <3>1. Advance(id, {uid}) /\ Due(id) /\ uid \in DOMAIN m_task_instances
          /\ UNCHANGED memory
      BY <2>5 DEF ScanCached
    <3> QED
      BY <2>1, <2>2, <3>1, ExactAdvance DEF memory
  <2>6. ASSUME ScanLoad(id) PROVE ListingExact'
    <3>1. /\ Advance(id, {uid}) /\ Due(id) /\ m_tasks' = m_tasks
          /\ DOMAIN m_task_instances' = DOMAIN m_task_instances \cup {uid}
      BY <2>6 DEF ScanLoad, Put
    <3> QED
      BY <2>1, <2>2, <3>1, ExactAdvance
  <2>7. ASSUME ScanInsert(id) PROVE ListingExact'
    BY <2>7 DEF ScanInsert, Scanning, ListingExact, UidOf, Due, memory
  <2>8. ASSUME Fill(id) PROVE ListingExact'
    <3>1. /\ Advance(id, {uid}) /\ m_tasks' = m_tasks
          /\ DOMAIN m_task_instances' = DOMAIN m_task_instances \cup {uid}
      BY <2>8 DEF Fill, Put
    <3>2. Due(id)
      BY <2>1, <2>8 DEF Fill, Safe, LocalsOK
    <3> QED
      BY <2>1, <2>2, <3>1, <3>2, ExactAdvance
  <2> QED
    BY <1>6, <2>3, <2>4, <2>5, <2>6, <2>7, <2>8 DEF Scan
<1>7. AddTaskFill \/ ListReturn \/ ClearInstances => ListingExact'
  BY DEF AddTaskFill, ListReturn, ClearInstances, ListingExact
<1>8. Internal => ListingExact'
  BY <1>6, <1>7 DEF Internal
<1>9. Clear \/ Crash \/ Restart => ListingExact'
  BY <1>1 DEF Clear, Crash, Restart, ListingExact
<1>10. UNCHANGED vars => ListingExact'
  BY DEF vars, ListingExact, UidOf, Due
<1> QED
  BY <1>2, <1>3, <1>5, <1>8, <1>9, <1>10 DEF Next

\* Every listing, of any number of tasks, finds the tasks that occur on its
\* day and no others, each with its instance in memory.
THEOREM ListingsExact == Spec => []ListingExact
<1>1. Init => ListingExact
  BY DEF Init, ListingExact
<1> QED
  BY <1>1, ExactNext, SafeAlways, PTL DEF Spec

-----------------------------------------------------------------------------
(* Names and statuses.                                                     *)

LEMMA QuotedNext ==
  ASSUME Safe, NamesQuoted, [Next]_vars PROVE NamesQuoted'
<1> USE DEF NamesQuoted
<1>1. ASSUME Die, UNCHANGED tables PROVE NamesQuoted'
  BY <1>1, NoRowsFacts DEF Die, tables
<1>2. ASSUME NEW task \in NewTasks, AddTask(task) PROVE NamesQuoted'
  <2>1. PICK id \in TaskIds :
            tasksTable' = Put(tasksTable, id, BlankTask(Escape[task.name]))
    BY <1>2 DEF AddTask
  <2>2. Escape[Escape[task.name]] = Escape[task.name]
    BY ArgumentsAssumption, StringsAssumption DEF NewTask
  <2> QED
    BY <1>2, <2>1, <2>2 DEF AddTask, Put, BlankTask, memory
<1>3. ASSUME NEW id \in DOMAIN m_tasks, NEW data,
             data.name = m_tasks[id].name,
             SavedTask(data).name = Escape[data.name],
             m_tasks' = [m_tasks EXCEPT ![id] = data],
             tasksTable' = UpdateRow(tasksTable, id, SavedTask(data))
      PROVE  NamesQuoted'
  BY <1>3 DEF UpdateRow
<1>4. ASSUME NEW data \in TaskData PROVE SavedTask(data).name = Escape[data.name]
  BY <1>4 DEF SavedTask, TaskData
<1>5. ASSUME NEW id \in TaskIds, NEW patch \in Patches, ModifyTask(id, patch)
      PROVE  NamesQuoted'
  <2>1. id \in DOMAIN m_tasks /\ m_tasks[id] \in TaskData
    BY <1>5 DEF ModifyTask, Safe, TypeOK, IsTable
  <2>2. /\ Patched(m_tasks[id], patch) \in TaskData
        /\ Patched(m_tasks[id], patch).name = m_tasks[id].name
    BY <2>1, PatchedType DEF Patched, TaskData
  <2> QED
    BY <1>5, <2>1, <2>2, <1>3, <1>4 DEF ModifyTask
<1>6. ASSUME NEW id \in TaskIds, NEW comment \in Comments, SetTaskComment(id, comment)
      PROVE  NamesQuoted'
  <2>1. id \in DOMAIN m_tasks /\ m_tasks[id] \in TaskData
    BY <1>6 DEF SetTaskComment, Safe, TypeOK, IsTable
  <2>2. /\ [m_tasks[id] EXCEPT !.comment = comment] \in TaskData
        /\ [m_tasks[id] EXCEPT !.comment = comment].name = m_tasks[id].name
    BY <2>1, StringsAssumption DEF TaskData
  <2> QED
    BY <1>6, <2>1, <2>2, <1>3, <1>4 DEF SetTaskComment
<1>7. ASSUME NEW id \in TaskIds, DeleteTask(id) PROVE NamesQuoted'
  BY <1>7 DEF DeleteTask, Without, Restrict
<1>8. ModifyUnknownTask => NamesQuoted'
  BY <1>1 DEF ModifyUnknownTask
<1>9. TaskCall => NamesQuoted'
  BY <1>2, <1>5, <1>6, <1>7, <1>8 DEF TaskCall
<1>10. ASSUME AddTaskFill PROVE NamesQuoted'
  <2>1. PICK data :
            /\ tasksTable' = UpdateRow(tasksTable, adding.id, SavedTask(data))
            /\ m_tasks' = Put(m_tasks, adding.id, data)
            /\ data = [tasksTable[adding.id] EXCEPT
                          !.repeat_type = adding.task.repeat_type,
                          !.repeat_info = adding.task.repeat_info,
                          !.scheduled_start = mktime(adding.task.start_time)]
    BY <1>10 DEF AddTaskFill
  <2>2. adding.id \in DOMAIN tasksTable /\ tasksTable[adding.id] \in TaskData
    BY <1>10 DEF AddTaskFill, Safe, TypeOK, LocalsOK, IsTable
  <2>3. data.name = tasksTable[adding.id].name
    BY <2>1, <2>2 DEF TaskData
  <2>4. SavedTask(data).name = Escape[data.name]
    BY <2>1, <2>2 DEF SavedTask, TaskData
  <2> QED
    BY <2>1, <2>2, <2>3, <2>4 DEF UpdateRow, Put
<1>11. ASSUME NEW id \in TaskIds, Scan(id) PROVE NamesQuoted'
  <2>1. ScanTrap(id) => NamesQuoted'
    BY <1>1 DEF ScanTrap
  <2> QED
    BY <1>11, <2>1 DEF Scan, ScanSkip, ScanCached, ScanLoad, ScanInsert, Fill,
                       tables, memory
<1>12. Internal => NamesQuoted'
  BY <1>10, <1>11, NoRowsFacts DEF Internal, ListReturn, ClearInstances, tables, memory
<1>13. InstanceCall \/ ListCall => NamesQuoted'
  BY DEF InstanceCall, StartTask, SkipTask, FinishTask, SetUndone, SetState,
         SetComment, ListCall, GetTaskInstances, GetTaskInstancesOn,
         BeginListing, tables, memory
<1>14. Clear \/ Crash \/ Restart \/ UNCHANGED vars => NamesQuoted'
  BY <1>1, NoRowsFacts DEF Clear, Crash, Restart, vars, tables, memory
<1> QED
  BY <1>9, <1>12, <1>13, <1>14 DEF Next

\* No name with a quote in it is ever stored or held, whatever names are
\* added: the INSERT that does not escape its name is safe.
THEOREM NamesAlwaysQuoted == Spec => []NamesQuoted
<1>1. Init => NamesQuoted
  BY NoRowsFacts DEF Init, NamesQuoted
<1>2. Safe /\ NamesQuoted /\ [Next]_vars => NamesQuoted'
  BY QuotedNext
<1> QED
  BY <1>1, <1>2, SafeAlways, PTL DEF Spec

\* What StatusKept asks of one row and one step, whether or not the task is
\* there: the library keeps the rows of a task it removes, too.
RowKept(uid) ==
    \/ pc = "clearing"
    \/ /\ uid \in DOMAIN instancesTable'
       /\ instancesTable'[uid].state = instancesTable[uid].state
       /\ instancesTable'[uid].comment = instancesTable[uid].comment
    \/ /\ uid \in DOMAIN m_task_instances \cap DOMAIN m_task_instances'
       /\ m_task_instances'[uid] # m_task_instances[uid]

LEMMA RowKeptNext ==
  ASSUME Safe, Agreement, [Next]_vars, NEW uid \in DOMAIN instancesTable
  PROVE  RowKept(uid)
<1> USE DEF RowKept
<1>1. instancesTable' = instancesTable => RowKept(uid)
  OBVIOUS
<1>2. TaskCall \/ ListCall => RowKept(uid)
  BY <1>1 DEF TaskCall, AddTask, DeleteTask, ModifyTask, SetTaskComment,
              ModifyUnknownTask, ListCall, GetTaskInstances, GetTaskInstancesOn,
              BeginListing, tables
<1>3. ASSUME InstanceCall PROVE RowKept(uid)
  <2>1. PICK u \in DOMAIN m_task_instances : \E data : WriteInstance(u, data)
    BY <1>3 DEF InstanceCall, StartTask, SkipTask, FinishTask, SetUndone,
                SetState, SetComment
  <2>2. PICK data : WriteInstance(u, data)
    BY <2>1
  <2>3. CASE u # uid
    BY <2>2, <2>3 DEF WriteInstance, UpdateRow
  <2>4. CASE u = uid /\ data # m_task_instances[uid]
    BY <2>2, <2>4 DEF WriteInstance
  <2>5. CASE u = uid /\ data = m_task_instances[uid]
    <3>1. instancesTable'[uid] = SavedInstance(m_task_instances[uid])
      BY <2>2, <2>5 DEF WriteInstance, UpdateRow
    <3>2. instancesTable[uid] = SavedInstance(m_task_instances[uid])
      BY <2>1, <2>5 DEF Agreement, CacheCoherent
    <3> QED
      BY <2>2, <3>1, <3>2 DEF WriteInstance, UpdateRow
  <2> QED
    BY <2>3, <2>4, <2>5
<1>4. ASSUME NEW id \in TaskIds, Scan(id) PROVE RowKept(uid)
  <2>1. ScanTrap(id) \/ ScanSkip(id) \/ ScanCached(id) \/ ScanLoad(id) => RowKept(uid)
    BY <1>1 DEF ScanTrap, ScanSkip, ScanCached, ScanLoad, tables
  <2>2. ScanInsert(id) => RowKept(uid)
    BY DEF ScanInsert, Put
  <2>3. ASSUME Fill(id) PROVE RowKept(uid)
    <3> DEFINE new == UidOf(id, listing.date)
               data == [instancesTable[new] EXCEPT
                            !.scheduled_start = InstanceStart(id)]
    <3>1. instancesTable' = UpdateRow(instancesTable, new, SavedInstance(data))
      BY <2>3 DEF Fill
    <3>2. CASE uid # new
      BY <3>1, <3>2 DEF UpdateRow
    <3>3. CASE uid = new
      <4>1. /\ instancesTable[uid] \in TaskInstanceData
            /\ SavedInstance(instancesTable[uid]) = instancesTable[uid]
        BY DEF Safe, TypeOK, IsTable, Agreement, RowsSaved
      <4>2. Escape[instancesTable[uid].comment] = instancesTable[uid].comment
        BY <4>1 DEF SavedInstance, TaskInstanceData
      <4>3. /\ SavedInstance(data).state = instancesTable[uid].state
            /\ SavedInstance(data).comment = instancesTable[uid].comment
        BY <3>3, <4>1, <4>2 DEF SavedInstance, TaskInstanceData
      <4>4. uid \in DOMAIN instancesTable' /\ instancesTable'[uid] = SavedInstance(data)
        BY <3>1, <3>3 DEF UpdateRow
      <4> QED
        BY <4>3, <4>4
    <3> QED
      BY <3>2, <3>3
  <2> QED
    BY <1>4, <2>1, <2>2, <2>3 DEF Scan
<1>5. Internal => RowKept(uid)
  BY <1>1, <1>4 DEF Internal, AddTaskFill, ListReturn, ClearInstances, tables
<1>6. Clear \/ Crash \/ Restart \/ UNCHANGED vars => RowKept(uid)
  BY <1>1 DEF Clear, Crash, Restart, vars, tables
<1> QED
  BY <1>2, <1>3, <1>5, <1>6 DEF Next

\* As long as a task is there, what the user has noted of its instances is
\* changed by the user alone, or goes with the whole table.
THEOREM StatusAlwaysKept == Spec => StatusKept
<1>1. Safe /\ Agreement /\ [Next]_vars
        => \A uid \in DOMAIN instancesTable : RowKept(uid)
  BY RowKeptNext
<1>2. (\A uid \in DOMAIN instancesTable : RowKept(uid)) =>
      \A uid \in DOMAIN instancesTable :
          uid.id \in DOMAIN tasksTable \cap DOMAIN tasksTable' =>
          \/ pc = "clearing"
          \/ /\ uid \in DOMAIN instancesTable'
             /\ instancesTable'[uid].state = instancesTable[uid].state
             /\ instancesTable'[uid].comment = instancesTable[uid].comment
          \/ /\ uid \in DOMAIN m_task_instances \cap DOMAIN m_task_instances'
             /\ m_task_instances'[uid] # m_task_instances[uid]
  BY DEF RowKept
<1> QED
  BY <1>1, <1>2, SafeAlways, AgreementAlways, PTL DEF Spec, StatusKept

-----------------------------------------------------------------------------
(* Days.                                                                   *)

\* No listing is asked for in the summer time part of a day that began in
\* standard time.
SpringDayUnseen == \A t \in Dates : IsDst(t) => IsDst(24 * DayOf(t) - 1)

\* A date that listings are asked for.
IsDay(date) ==
    /\ date.mon \in Months
    /\ date.mday \in 1..31
    /\ MonthStart[date.mon] + date.mday <= MonthStart[date.mon + 1]
    /\ FixedZone => date.isdst = FALSE
    /\ SpringDayUnseen /\ date.isdst =>
           IsDst(24 * (MonthStart[date.mon] + date.mday - 1) - 1)

\* What StartsOnItsDay asks of one instance.
OnDay(uid, start) ==
    start # 0 => localtime(start).mon = uid.mon /\ localtime(start).mday = uid.mday

\* Cached instances are on their days too, and listings are of days.
Dated ==
    /\ \A uid \in DOMAIN instancesTable : OnDay(uid, instancesTable[uid].scheduled_start)
    /\ \A uid \in DOMAIN m_task_instances :
           OnDay(uid, m_task_instances[uid].scheduled_start)
    /\ pc \in {"scanning", "filling"} => IsDay(listing.date)

LEMMA DateIsDay ==
  ASSUME NEW t \in Dates, Covered(t)
  PROVE  IsDay(localtime(t)) /\ IsDay(FromYmd(localtime(t).mon, localtime(t).mday))
<1> DEFINE d == DayOf(t)
           m == MonthOf(d)
<1>1. t \in Nat /\ d \in Nat /\ d < MonthStart[Len(MonthStart)]
  BY WallClockParts DEF Covered
<1>2. localtime(t).mon = m /\ localtime(t).mday = d - MonthStart[m] + 1
  BY Zenon DEF localtime
<1>3. FixedZone => localtime(t).isdst = FALSE
  <2>1. t \in Int BY <1>1
  <2> QED BY <2>1, FixedClock, Zenon DEF localtime
<1> HIDE DEF d, m
<1>4. PICK k \in Months : InMonth(d, k) BY <1>1, MonthExists
<1>5. m = k BY <1>1, <1>4, MonthIsUnique DEF m
<1>6. /\ MonthStart[m] \in Nat /\ MonthStart[m + 1] \in Nat
      /\ MonthStart[m] <= d /\ d < MonthStart[m + 1]
  BY <1>4, <1>5, MonthStartType DEF InMonth, Months
<1>7. d - MonthStart[m] + 1 \in 1..31 BY <1>1, MonthOfDay DEF m
<1>8. MonthStart[m] + (d - MonthStart[m] + 1) <= MonthStart[m + 1]
  <2>1. ASSUME NEW a \in Nat, NEW b \in Nat, a <= d, d < b PROVE a + (d - a + 1) <= b
    BY <1>1, <2>1
  <2> QED BY <1>6, <2>1
<1>9. SpringDayUnseen /\ localtime(t).isdst =>
          IsDst(24 * (MonthStart[m] + (d - MonthStart[m] + 1) - 1) - 1)
  <2>1. MonthStart[m] + (d - MonthStart[m] + 1) - 1 = d
    <3>1. ASSUME NEW a \in Nat PROVE a + (d - a + 1) - 1 = d BY <1>1
    <3> QED BY <1>6, <3>1
  <2>2. localtime(t).isdst = IsDst(t) BY Zenon DEF localtime
  <2> QED BY <2>1, <2>2, Zenon DEF SpringDayUnseen, d
<1>10. IsDay(localtime(t))
  BY <1>2, <1>3, <1>4, <1>5, <1>7, <1>8, <1>9, Zenon DEF IsDay
<1>11. FromYmd(localtime(t).mon, localtime(t).mday).isdst = FALSE
  BY Zenon DEF FromYmd
<1> QED BY <1>10, <1>11, Zenon DEF IsDay, FromYmd

\* A start that no change of the clock can carry into another day.  Midnight
\* is one only if no listing is asked for on the day the clock is put forward,
\* after the change.
AwayFromMidnight(start) ==
    \/ localtime(start).hour \in 1..22
    \/ localtime(start).hour = 0 /\ SpringDayUnseen

\* Two flags, that of the date and that of the start, move the hour by one.
LEMMA DayOfHour ==
  ASSUME NEW n \in Int, NEW h \in 0..23, NEW isdst,
         \/ FixedZone /\ isdst = FALSE
         \/ h \in 1..22
         \/ h = 0 /\ (isdst => IsDst(24 * n - 1))
  PROVE  DayOf(24 * n + h - DstShift(isdst)) = n
<1> DEFINE start == 24 * n + h - DstShift(isdst)
<1>1. DstShift(isdst) \in {0, 1} /\ DstShift(IsDst(start)) \in {0, 1}
  BY ShiftType
<1>2. WallClock(start) = start + DstShift(IsDst(start)) BY DEF WallClock
<1>3. CASE FixedZone /\ isdst = FALSE
  <2>1. DstShift(isdst) = 0 BY <1>3, Zenon DEF DstShift
  <2>2. start = 24 * n + h BY <2>1
  <2> QED BY <1>3, <2>2, FixedDay, Zenon DEF start
<1>4. CASE h \in 1..22
  <2> DEFINE hour == h - DstShift(isdst) + DstShift(IsDst(start))
  <2> HIDE DEF start
  <2>1. hour \in 0..23 BY <1>1, <1>4
  <2>2. start + DstShift(IsDst(start)) = 24 * n + hour BY <1>1 DEF start
  <2> HIDE DEF hour
  <2>3. hour \in Int /\ 24 * n + hour \in Int BY <2>1
  <2>4. (24 * n + hour) \div 24 = n BY <2>1, <2>3, DivBounds
  <2> QED BY <1>2, <2>2, <2>4, Zenon DEF DayOf, start
<1>5. CASE h = 0 /\ (isdst => IsDst(24 * n - 1))
  <2>1. isdst => start = 24 * n - 1 BY <1>5 DEF DstShift
  <2>2. ~isdst => start = 24 * n BY <1>5 DEF DstShift
  <2>3. isdst => DstShift(IsDst(start)) = 1
    BY <1>5, <2>1, Zenon DEF DstShift
  <2> HIDE DEF start
  <2>4. PICK hour \in {0, 1} : start + DstShift(IsDst(start)) = 24 * n + hour
    <3>1. CASE isdst
      <4>1. start + DstShift(IsDst(start)) = 24 * n + 0 BY <2>1, <2>3, <3>1
      <4> QED BY <4>1
    <3>2. CASE ~isdst
      <4> DEFINE hour == DstShift(IsDst(start))
      <4>1. start + hour = 24 * n + hour BY <2>2, <3>2, Zenon
      <4>2. hour \in {0, 1} BY <1>1 DEF start
      <4> QED BY <4>1, <4>2, Zenon
    <3> QED BY <3>1, <3>2
  <2>5. hour \in Int /\ 24 * n + hour \in Int /\ hour \in 0..23 BY <2>4
  <2>6. (24 * n + hour) \div 24 = n BY <2>5, DivBounds
  <2> QED BY <1>2, <2>4, <2>6, Zenon DEF DayOf, start
<1> QED BY <1>3, <1>4, <1>5

\* The hour of a task on a day of the table is on that day.
LEMMA HourOfDay ==
  ASSUME NEW date, IsDay(date), NEW h \in 0..23,
         FixedZone \/ h \in 1..22 \/ (h = 0 /\ SpringDayUnseen)
  PROVE  /\ localtime(mktime([date EXCEPT !.hour = h])).mon = date.mon
         /\ localtime(mktime([date EXCEPT !.hour = h])).mday = date.mday
<1> DEFINE a == MonthStart[date.mon]
           n == a + date.mday - 1
           start == mktime([date EXCEPT !.hour = h])
<1>1. /\ date.mon \in Months /\ date.mday \in 1..31
      /\ FixedZone => date.isdst = FALSE
      /\ a + date.mday <= MonthStart[date.mon + 1]
      /\ SpringDayUnseen /\ date.isdst => IsDst(24 * n - 1)
  BY Zenon DEF IsDay
<1>2. a \in Nat /\ MonthStart[date.mon + 1] \in Nat
  BY <1>1, MonthStartType DEF Months
<1>3. start = 24 * n + h - DstShift(date.isdst) BY DEF mktime
<1> HIDE DEF a, start
<1>4. n \in Nat /\ n \in Int /\ a <= n /\ n < MonthStart[date.mon + 1]
      /\ n - a + 1 = date.mday
  BY <1>1, <1>2
<1> HIDE DEF n
<1>5. DayOf(start) = n BY <1>1, <1>3, <1>4, DayOfHour, Zenon
<1>6. MonthOf(n) = date.mon
  <2>1. InMonth(n, date.mon) BY <1>4, Zenon DEF InMonth, a
  <2> QED BY <1>1, <1>4, <2>1, MonthIsUnique
<1>7. localtime(start).mon = date.mon /\ localtime(start).mday = date.mday
  BY <1>4, <1>5, <1>6, Zenon DEF localtime, a
<1> QED BY <1>7, Zenon DEF start

\* A listing writes starts on its day.
Punctual ==
    FixedZone \/ \A id \in DOMAIN m_tasks : AwayFromMidnight(m_tasks[id].scheduled_start)

LEMMA FilledOnDay ==
  ASSUME Punctual, IsDay(listing.date), NEW id \in DOMAIN m_tasks,
         m_tasks[id].scheduled_start \in Int
  PROVE  OnDay(UidOf(id, listing.date), InstanceStart(id))
<1>1. ScheduledHour(m_tasks[id]) \in 0..23 BY HourType DEF ScheduledHour
<1>2. \/ FixedZone
      \/ ScheduledHour(m_tasks[id]) \in 1..22
      \/ ScheduledHour(m_tasks[id]) = 0 /\ SpringDayUnseen
  BY Zenon DEF Punctual, AwayFromMidnight, ScheduledHour
<1> QED BY <1>1, <1>2, HourOfDay, Zenon DEF InstanceStart, OnDay, UidOf

\* A step that changes no instance and begins no listing.
LEMMA DatedUntouched ==
  ASSUME Dated, UNCHANGED <<instancesTable, m_task_instances>>,
         pc' \in {"scanning", "filling"} =>
             pc \in {"scanning", "filling"} /\ listing'.date = listing.date
  PROVE  Dated'
BY DEF Dated, OnDay, IsDay

\* A row or a cached copy is put in, on its day.
LEMMA DatedPut ==
  ASSUME NEW f, NEW uid, NEW v, OnDay(uid, v.scheduled_start),
         \A u \in DOMAIN f : OnDay(u, f[u].scheduled_start)
  PROVE  /\ \A u \in DOMAIN Put(f, uid, v) : OnDay(u, Put(f, uid, v)[u].scheduled_start)
         /\ \A u \in DOMAIN UpdateRow(f, uid, v) :
                OnDay(u, UpdateRow(f, uid, v)[u].scheduled_start)
         /\ \A u \in DOMAIN [f EXCEPT ![uid] = v] :
                OnDay(u, [f EXCEPT ![uid] = v][u].scheduled_start)
BY DEF Put, UpdateRow

LEMMA DatedInstanceCall ==
  ASSUME Safe, Dated, InstanceCall PROVE Dated'
<1>1. /\ pc = "idle" /\ pc' = "idle"
      /\ \E uid \in DOMAIN m_task_instances :
            \E data \in TaskInstanceData :
                /\ data.scheduled_start = m_task_instances[uid].scheduled_start
                /\ WriteInstance(uid, data)
  <2>1. ASSUME NEW uid \in DOMAIN m_task_instances, NEW state \in TaskStates,
               SetState(uid, state)
        PROVE  \E data \in TaskInstanceData :
                   /\ data.scheduled_start = m_task_instances[uid].scheduled_start
                   /\ WriteInstance(uid, data)
    <3> DEFINE data == [m_task_instances[uid] EXCEPT !.state = state]
    <3>1. m_task_instances[uid] \in TaskInstanceData BY DEF Safe, TypeOK, IsTable
    <3>2. data \in TaskInstanceData /\ data.scheduled_start = m_task_instances[uid].scheduled_start
      BY <3>1 DEF TaskInstanceData
    <3>3. WriteInstance(uid, data) BY <2>1, Zenon DEF SetState
    <3> HIDE DEF data
    <3> QED BY <3>2, <3>3
  <2>2. ASSUME NEW uid \in DOMAIN m_task_instances, NEW comment \in Comments,
               SetComment(uid, comment)
        PROVE  \E data \in TaskInstanceData :
                   /\ data.scheduled_start = m_task_instances[uid].scheduled_start
                   /\ WriteInstance(uid, data)
    <3> DEFINE data == [m_task_instances[uid] EXCEPT !.comment = comment]
    <3>1. m_task_instances[uid] \in TaskInstanceData BY DEF Safe, TypeOK, IsTable
    <3>2. data \in TaskInstanceData /\ data.scheduled_start = m_task_instances[uid].scheduled_start
      BY <3>1, StringsAssumption DEF TaskInstanceData
    <3>3. WriteInstance(uid, data) BY <2>2, Zenon DEF SetComment
    <3> HIDE DEF data
    <3> QED BY <3>2, <3>3
  <2>3. PICK uid \in DOMAIN m_task_instances :
            \/ \E state \in TaskStates : SetState(uid, state)
            \/ \E comment \in Comments : SetComment(uid, comment)
    BY DEF InstanceCall, StartTask, SkipTask, FinishTask, SetUndone, TaskStates
  <2>4. pc = "idle" /\ pc' = "idle" BY <2>3 DEF SetState, SetComment
  <2> QED BY <2>1, <2>2, <2>3, <2>4
<1>2. PICK uid \in DOMAIN m_task_instances, data \in TaskInstanceData :
          /\ data.scheduled_start = m_task_instances[uid].scheduled_start
          /\ WriteInstance(uid, data)
  BY <1>1
<1>3. SavedInstance(data).scheduled_start = data.scheduled_start
  BY DEF SavedInstance, TaskInstanceData
<1>4. OnDay(uid, data.scheduled_start) /\ OnDay(uid, SavedInstance(data).scheduled_start)
  BY <1>2, <1>3 DEF Dated
<1>5. /\ \A u \in DOMAIN instancesTable : OnDay(u, instancesTable[u].scheduled_start)
      /\ \A u \in DOMAIN m_task_instances : OnDay(u, m_task_instances[u].scheduled_start)
  BY DEF Dated
<1>6. /\ m_task_instances' = [m_task_instances EXCEPT ![uid] = data]
      /\ instancesTable' = UpdateRow(instancesTable, uid, SavedInstance(data))
  BY <1>2 DEF WriteInstance
<1>7. \A u \in DOMAIN instancesTable' : OnDay(u, instancesTable'[u].scheduled_start)
  BY <1>4, <1>5, <1>6, DatedPut, Zenon
<1>8. \A u \in DOMAIN m_task_instances' : OnDay(u, m_task_instances'[u].scheduled_start)
  BY <1>4, <1>5, <1>6, DatedPut, Zenon
<1>9. pc' \notin {"scanning", "filling"} BY <1>1
<1> QED BY <1>7, <1>8, <1>9 DEF Dated, OnDay

LEMMA DatedScan ==
  ASSUME Punctual, Safe, Dated, NEW id \in TaskIds, Scan(id) PROVE Dated'
<1> DEFINE uid == UidOf(id, listing.date)
<1>1. /\ \A u \in DOMAIN instancesTable : OnDay(u, instancesTable[u].scheduled_start)
      /\ \A u \in DOMAIN m_task_instances : OnDay(u, m_task_instances[u].scheduled_start)
  BY DEF Dated
<1>2. ASSUME ScanTrap(id) PROVE Dated'
  BY <1>2, <1>1, NoRowsFacts DEF ScanTrap, Die, tables, Dated, OnDay
<1>3. ASSUME pc = "scanning" \/ pc = "filling", NEW uids, Advance(id, uids)
      PROVE  listing'.date = listing.date /\ IsDay(listing.date)
  BY <1>3 DEF Advance, Dated, Safe, TypeOK, Listing
<1>4. ASSUME ScanSkip(id) \/ ScanCached(id) PROVE Dated'
  <2>1. /\ pc = "scanning" /\ UNCHANGED <<instancesTable, m_task_instances, pc>>
        /\ \E uids : Advance(id, uids)
    BY <1>4 DEF ScanSkip, ScanCached, Scanning, tables, memory
  <2> QED BY <1>3, <2>1, DatedUntouched
<1>5. ASSUME ScanLoad(id) PROVE Dated'
  <2>1. /\ pc = "scanning" /\ pc' = "scanning" /\ instancesTable' = instancesTable
        /\ uid \in DOMAIN instancesTable
        /\ m_task_instances' = Put(m_task_instances, uid, instancesTable[uid])
        /\ Advance(id, {uid})
    BY <1>5, Zenon DEF ScanLoad, Scanning, tables
  <2> HIDE DEF uid
  <2>2. \A u \in DOMAIN m_task_instances' : OnDay(u, m_task_instances'[u].scheduled_start)
    BY <1>1, <2>1, DatedPut, Zenon
  <2>3. listing'.date = listing.date /\ IsDay(listing.date) BY <1>3, <2>1
  <2> QED BY <1>1, <2>1, <2>2, <2>3 DEF Dated, OnDay, IsDay
<1>6. ASSUME ScanInsert(id) PROVE Dated'
  <2>1. /\ pc = "scanning" /\ m_task_instances' = m_task_instances
        /\ instancesTable' = Put(instancesTable, uid, BlankInstance)
        /\ listing' = listing
    BY <1>6, Zenon DEF ScanInsert, Scanning, memory
  <2> HIDE DEF uid
  <2>2. OnDay(uid, BlankInstance.scheduled_start) BY DEF OnDay, BlankInstance
  <2>3. \A u \in DOMAIN instancesTable' : OnDay(u, instancesTable'[u].scheduled_start)
    BY <1>1, <2>1, <2>2, DatedPut, Zenon
  <2>4. IsDay(listing.date) BY <2>1 DEF Dated
  <2> QED BY <1>1, <2>1, <2>3, <2>4 DEF Dated, OnDay, IsDay
<1>7. ASSUME Fill(id) PROVE Dated'
  <2> DEFINE data == [instancesTable[uid] EXCEPT !.scheduled_start = InstanceStart(id)]
  <2>1. /\ pc = "filling" /\ pc' = "scanning" /\ IsCurrent(id)
        /\ instancesTable' = UpdateRow(instancesTable, uid, SavedInstance(data))
        /\ m_task_instances' = Put(m_task_instances, uid, instancesTable'[uid])
        /\ Advance(id, {uid})
    BY <1>7, Zenon DEF Fill
  <2>2. /\ uid \in DOMAIN instancesTable /\ instancesTable[uid] \in TaskInstanceData
        /\ id \in DOMAIN m_tasks /\ m_tasks[id].scheduled_start \in Int
    BY <2>1 DEF Safe, LocalsOK, TypeOK, IsTable, IsCurrent, TaskData
  <2>3. IsDay(listing.date) BY <2>1 DEF Dated
  <2>4. OnDay(uid, InstanceStart(id)) BY <2>2, <2>3, FilledOnDay
  <2>5. SavedInstance(data).scheduled_start = InstanceStart(id)
    BY <2>2 DEF SavedInstance, TaskInstanceData
  <2>6. OnDay(uid, SavedInstance(data).scheduled_start) BY <2>4, <2>5, Zenon
  <2> HIDE DEF uid, data
  <2>7. \A u \in DOMAIN instancesTable' : OnDay(u, instancesTable'[u].scheduled_start)
    BY <1>1, <2>1, <2>6, DatedPut, Zenon
  <2>8. uid \in DOMAIN instancesTable' BY <2>1, <2>2 DEF UpdateRow
  <2>9. OnDay(uid, instancesTable'[uid].scheduled_start) BY <2>7, <2>8, Zenon
  <2>10. \A u \in DOMAIN m_task_instances' : OnDay(u, m_task_instances'[u].scheduled_start)
    BY <1>1, <2>1, <2>9, DatedPut, Zenon
  <2>11. listing'.date = listing.date BY <1>3, <2>1
  <2> QED BY <2>3, <2>7, <2>10, <2>11 DEF Dated, OnDay, IsDay
<1> QED BY <1>2, <1>4, <1>5, <1>6, <1>7 DEF Scan

LEMMA DatedNext ==
  ASSUME Punctual, \A t \in Dates : Covered(t), Safe, Dated, [Next]_vars
  PROVE  Dated'
<1>1. ASSUME Die, UNCHANGED tables PROVE Dated'
  BY <1>1, NoRowsFacts DEF Die, tables, Dated, OnDay
<1>2. ASSUME TaskCall PROVE Dated'
  <2>1. ModifyUnknownTask => Dated' BY <1>1 DEF ModifyUnknownTask
  <2>2. ASSUME ~ModifyUnknownTask
        PROVE  UNCHANGED <<instancesTable, m_task_instances>> /\ pc' \in {"idle", "adding"}
    BY <1>2, <2>2 DEF TaskCall, AddTask, DeleteTask, ModifyTask, SetTaskComment, memory
  <2> QED BY <2>1, <2>2, DatedUntouched
<1>3. ASSUME InstanceCall PROVE Dated'
  BY <1>3, DatedInstanceCall
<1>4. ASSUME ListCall PROVE Dated'
  <2>1. PICK date : BeginListing(date) /\ IsDay(date)
    <3>1. \A t \in Dates : IsDay(localtime(t)) /\ IsDay(FromYmd(localtime(t).mon, localtime(t).mday))
      BY DateIsDay
    <3> QED
      BY <1>4, <3>1, ArgumentsAssumption, Zenon
      DEF ListCall, GetTaskInstances, GetTaskInstancesOn
  <2>2. UNCHANGED <<instancesTable, m_task_instances>> /\ listing'.date = date
    BY <2>1 DEF BeginListing, tables, memory
  <2> QED BY <2>1, <2>2 DEF Dated, OnDay, IsDay
<1>5. ASSUME Internal PROVE Dated'
  <2>1. ASSUME AddTaskFill \/ ListReturn PROVE Dated'
    <3>1. UNCHANGED <<instancesTable, m_task_instances>> /\ pc' = "idle"
      BY <2>1 DEF AddTaskFill, ListReturn, tables, memory
    <3> QED BY <3>1, DatedUntouched
  <2>2. ASSUME ClearInstances PROVE Dated'
    BY <2>2, NoRowsFacts DEF ClearInstances, Dated, OnDay
  <2> QED BY <1>5, <2>1, <2>2, DatedScan DEF Internal
<1>6. ASSUME Clear \/ Restart PROVE Dated'
  <2>1. UNCHANGED <<instancesTable, m_task_instances>> /\ pc' \in {"clearing", "idle"}
    BY <1>6 DEF Clear, Restart, tables, memory
  <2> QED BY <2>1, DatedUntouched
<1>7. ASSUME Crash PROVE Dated'
  BY <1>7, <1>1 DEF Crash
<1>8. ASSUME UNCHANGED vars PROVE Dated'
  <2>1. UNCHANGED <<instancesTable, m_task_instances, pc, listing>> BY <1>8 DEF vars
  <2> QED BY <2>1, DatedUntouched
<1> QED
  BY <1>2, <1>3, <1>4, <1>5, <1>6, <1>7, <1>8 DEF Next

\* In a zone without daylight saving time an instance starts on the day of
\* its identifier, at whatever hour its task was edited to before and
\* whichever way the day was asked for (m_create_task_instance).
THEOREM StartsAlwaysOnTheirDay ==
  ASSUME FixedZone, \A t \in Dates : Covered(t)
  PROVE  Spec => []StartsOnItsDay
<1>1. Init => Dated BY NoRowsFacts DEF Init, Dated
<1>2. Safe /\ Dated /\ [Next]_vars => Dated' BY DatedNext DEF Punctual
<1>3. Dated => StartsOnItsDay BY DEF Dated, OnDay, StartsOnItsDay
<1> QED BY <1>1, <1>2, <1>3, SafeAlways, PTL DEF Spec

\* The arguments that give tasks their starts are away from midnight.  A crash
\* in add_task leaves a task that starts at time zero, which is midnight or
\* one o'clock: with crashes, the day the clock is put forward is not looked
\* at after the change.
StartsAway ==
    /\ \A task \in NewTasks : AwayFromMidnight(mktime(task.start_time))
    /\ \A patch \in Patches :
           patch.scheduled_start >= 0 => AwayFromMidnight(patch.scheduled_start)
    /\ CanCrash => SpringDayUnseen

\* Time zero is then away from midnight in this sense.
LEMMA ZeroAway == SpringDayUnseen => AwayFromMidnight(0)
<1>1. DstShift(IsDst(0)) \in {0, 1} BY ShiftType
<1>2. WallClock(0) \in {0, 1} BY <1>1 DEF WallClock
<1>3. WallClock(0) % 24 \in {0, 1} BY <1>2
<1>4. localtime(0).hour = WallClock(0) % 24 BY Zenon DEF localtime
<1>5. localtime(0).hour = 0 \/ localtime(0).hour \in 1..22 BY <1>3, <1>4
<1> QED BY <1>5 DEF AwayFromMidnight

\* All starts are away from midnight, but for that of a task that is being
\* added.
TasksAway ==
    /\ \A id \in DOMAIN m_tasks : AwayFromMidnight(m_tasks[id].scheduled_start)
    /\ \A id \in DOMAIN tasksTable :
           \/ AwayFromMidnight(tasksTable[id].scheduled_start)
           \/ /\ pc = "adding" /\ id = adding.id
              /\ tasksTable[id].scheduled_start = 0

LEMMA AwayTaskCall ==
  ASSUME StartsAway, Safe, TasksAway, TaskCall PROVE TasksAway'
<1>1. pc = "idle"
  BY DEF TaskCall, AddTask, DeleteTask, ModifyTask, SetTaskComment, ModifyUnknownTask
<1>2. /\ \A k \in DOMAIN m_tasks : AwayFromMidnight(m_tasks[k].scheduled_start)
      /\ \A k \in DOMAIN tasksTable : AwayFromMidnight(tasksTable[k].scheduled_start)
  BY <1>1 DEF TasksAway
<1>3. ASSUME NEW task \in NewTasks, AddTask(task) PROVE TasksAway'
  <2>1. PICK id \in TaskIds :
            /\ tasksTable' = Put(tasksTable, id, BlankTask(Escape[task.name]))
            /\ adding' = [id |-> id, task |-> task]
    BY <1>3 DEF AddTask
  <2>2. pc' = "adding" /\ m_tasks' = m_tasks /\ adding'.id = id
    BY <1>3, <2>1 DEF AddTask, memory
  <2>3. BlankTask(Escape[task.name]).scheduled_start = 0
    BY DEF BlankTask
  <2>4. \A k \in DOMAIN tasksTable' :
            \/ k = id /\ tasksTable'[k].scheduled_start = 0
            \/ AwayFromMidnight(tasksTable'[k].scheduled_start)
    BY <1>2, <2>1, <2>3 DEF Put
  <2> QED BY <1>2, <2>2, <2>4 DEF TasksAway, AwayFromMidnight
<1>4. ASSUME NEW id \in TaskIds, DeleteTask(id) PROVE TasksAway'
  <2>1. /\ tasksTable' = Without(tasksTable, id)
        /\ m_tasks' = Without(m_tasks, id)
    BY <1>4 DEF DeleteTask
  <2> QED BY <1>2, <2>1 DEF TasksAway, Without, Restrict, AwayFromMidnight
<1>5. ASSUME NEW id \in DOMAIN m_tasks, NEW data \in TaskData,
             AwayFromMidnight(data.scheduled_start),
             m_tasks' = [m_tasks EXCEPT ![id] = data],
             tasksTable' = UpdateRow(tasksTable, id, SavedTask(data))
      PROVE  TasksAway'
  <2>1. SavedTask(data).scheduled_start = data.scheduled_start
    BY DEF SavedTask, TaskData
  <2>2. \A k \in DOMAIN m_tasks' : AwayFromMidnight(m_tasks'[k].scheduled_start)
    BY <1>2, <1>5
  <2>3. \A k \in DOMAIN tasksTable' : AwayFromMidnight(tasksTable'[k].scheduled_start)
    BY <1>2, <1>5, <2>1 DEF UpdateRow
  <2> QED BY <2>2, <2>3 DEF TasksAway, AwayFromMidnight
<1>6. ASSUME NEW id \in TaskIds, NEW patch \in Patches, ModifyTask(id, patch)
      PROVE  TasksAway'
  <2> DEFINE data == Patched(m_tasks[id], patch)
  <2>1. /\ id \in DOMAIN m_tasks
        /\ m_tasks' = [m_tasks EXCEPT ![id] = data]
        /\ tasksTable' = UpdateRow(tasksTable, id, SavedTask(data))
    BY <1>6 DEF ModifyTask
  <2>2. m_tasks[id] \in TaskData
    BY <2>1 DEF Safe, TypeOK, IsTable
  <2>3. data \in TaskData
    BY <2>2, PatchedType
  <2>4. data.scheduled_start = IF patch.scheduled_start >= 0
                                   THEN patch.scheduled_start
                                   ELSE m_tasks[id].scheduled_start
    BY <2>2 DEF Patched, TaskData
  <2>5. AwayFromMidnight(data.scheduled_start)
    BY <1>2, <2>1, <2>4, Zenon DEF StartsAway
  <2> HIDE DEF data
  <2> QED BY <1>5, <2>1, <2>3, <2>5
<1>7. ASSUME NEW id \in TaskIds, NEW comment \in Comments, SetTaskComment(id, comment)
      PROVE  TasksAway'
  <2> DEFINE data == [m_tasks[id] EXCEPT !.comment = comment]
  <2>1. /\ id \in DOMAIN m_tasks
        /\ m_tasks' = [m_tasks EXCEPT ![id] = data]
        /\ tasksTable' = UpdateRow(tasksTable, id, SavedTask(data))
    BY <1>7 DEF SetTaskComment
  <2>2. m_tasks[id] \in TaskData
    BY <2>1 DEF Safe, TypeOK, IsTable
  <2>3. data \in TaskData /\ data.scheduled_start = m_tasks[id].scheduled_start
    BY <2>2, StringsAssumption DEF TaskData
  <2>4. AwayFromMidnight(data.scheduled_start)
    BY <1>2, <2>1, <2>3, Zenon
  <2> HIDE DEF data
  <2> QED BY <1>5, <2>1, <2>3, <2>4
<1>8. ASSUME ModifyUnknownTask PROVE TasksAway'
  <2>1. m_tasks' = NoRows /\ tasksTable' = tasksTable
    BY <1>8 DEF ModifyUnknownTask, Die, tables
  <2> QED BY <1>2, <2>1, NoRowsFacts DEF TasksAway, AwayFromMidnight
<1> QED BY <1>3, <1>4, <1>6, <1>7, <1>8 DEF TaskCall

LEMMA AwayInternal ==
  ASSUME StartsAway, Safe, TasksAway, Internal PROVE TasksAway'
<1>1. ASSUME AddTaskFill PROVE TasksAway'
  <2> DEFINE id == adding.id
             data == [tasksTable[id] EXCEPT
                          !.repeat_type = adding.task.repeat_type,
                          !.repeat_info = adding.task.repeat_info,
                          !.scheduled_start = mktime(adding.task.start_time)]
  <2>1. /\ pc = "adding" /\ pc' = "idle"
        /\ tasksTable' = UpdateRow(tasksTable, id, SavedTask(data))
        /\ m_tasks' = Put(m_tasks, id, data)
    BY <1>1 DEF AddTaskFill
  <2>2. /\ id \in DOMAIN tasksTable /\ tasksTable[id] \in TaskData
        /\ adding.task \in NewTasks
    BY <2>1 DEF Safe, LocalsOK, TypeOK, IsTable, Adding
  <2>3. data.scheduled_start = mktime(adding.task.start_time)
    BY <2>2 DEF TaskData
  <2>4. SavedTask(data).scheduled_start = data.scheduled_start
    BY <2>2 DEF SavedTask, TaskData
  <2>5. AwayFromMidnight(data.scheduled_start)
    BY <2>2, <2>3, Zenon DEF StartsAway
  <2>6. AwayFromMidnight(SavedTask(data).scheduled_start)
    BY <2>4, <2>5, Zenon
  <2>7. \A k \in DOMAIN tasksTable : k # id => AwayFromMidnight(tasksTable[k].scheduled_start)
    BY <2>1 DEF TasksAway
  <2>8. \A k \in DOMAIN m_tasks : AwayFromMidnight(m_tasks[k].scheduled_start)
    BY DEF TasksAway
  <2> HIDE DEF id, data
  <2>9. \A k \in DOMAIN tasksTable' : AwayFromMidnight(tasksTable'[k].scheduled_start)
    BY <2>1, <2>6, <2>7 DEF UpdateRow
  <2>10. \A k \in DOMAIN m_tasks' : AwayFromMidnight(m_tasks'[k].scheduled_start)
    BY <2>1, <2>5, <2>8 DEF Put
  <2> QED BY <2>9, <2>10 DEF TasksAway, AwayFromMidnight
<1>2. ASSUME NEW id \in TaskIds, Scan(id) PROVE TasksAway'
  <2>1. /\ pc \in {"scanning", "filling"} /\ tasksTable' = tasksTable
        /\ m_tasks' = m_tasks \/ m_tasks' = NoRows
    BY <1>2, Zenon
    DEF Scan, ScanTrap, ScanSkip, ScanCached, ScanLoad, ScanInsert, Fill, Scanning,
        Die, tables, memory
  <2>2. \A k \in DOMAIN tasksTable : AwayFromMidnight(tasksTable[k].scheduled_start)
    BY <2>1 DEF TasksAway
  <2> QED BY <2>1, <2>2, NoRowsFacts DEF TasksAway, AwayFromMidnight
<1>3. ASSUME ListReturn PROVE TasksAway'
  <2>1. pc = "scanning" /\ UNCHANGED <<tasksTable, m_tasks>>
    BY <1>3 DEF ListReturn, tables, memory
  <2> QED BY <2>1 DEF TasksAway, AwayFromMidnight
<1>4. ASSUME ClearInstances PROVE TasksAway'
  <2>1. pc = "clearing" /\ tasksTable' = tasksTable /\ m_tasks' = tasksTable
    BY <1>4 DEF ClearInstances
  <2> QED BY <2>1 DEF TasksAway, AwayFromMidnight
<1> QED BY <1>1, <1>2, <1>3, <1>4 DEF Internal

LEMMA AwayNext ==
  ASSUME StartsAway, Safe, TasksAway, [Next]_vars PROVE TasksAway'
<1>1. ASSUME InstanceCall \/ ListCall PROVE TasksAway'
  <2>1. pc = "idle" /\ UNCHANGED <<tasksTable, m_tasks>>
    BY <1>1, Zenon
    DEF InstanceCall, StartTask, SkipTask, FinishTask, SetUndone, SetState, SetComment,
        ListCall, GetTaskInstances, GetTaskInstancesOn, BeginListing, tables, memory
  <2> QED BY <2>1 DEF TasksAway, AwayFromMidnight
<1>2. ASSUME Clear PROVE TasksAway'
  <2>1. tasksTable' = NoRows /\ m_tasks' = m_tasks
    BY <1>2 DEF Clear, memory
  <2> QED BY <2>1, NoRowsFacts DEF TasksAway, AwayFromMidnight
<1>3. ASSUME Crash PROVE TasksAway'
  <2>1. CanCrash /\ m_tasks' = NoRows /\ tasksTable' = tasksTable
    BY <1>3 DEF Crash, Die, tables
  <2>2. \A k \in DOMAIN tasksTable : AwayFromMidnight(tasksTable[k].scheduled_start)
    BY <2>1, ZeroAway, Zenon DEF StartsAway, TasksAway
  <2> QED BY <2>1, <2>2, NoRowsFacts DEF TasksAway, AwayFromMidnight
<1>4. ASSUME Restart PROVE TasksAway'
  <2>1. pc = "down" /\ m_tasks' = tasksTable /\ tasksTable' = tasksTable
    BY <1>4 DEF Restart, tables
  <2> QED BY <2>1 DEF TasksAway, AwayFromMidnight
<1>5. ASSUME UNCHANGED vars PROVE TasksAway'
  BY <1>5 DEF vars, TasksAway, AwayFromMidnight
<1> QED
  BY <1>1, <1>2, <1>3, <1>4, <1>5, AwayTaskCall, AwayInternal DEF Next

\* In any zone, with daylight saving time or without, an instance starts on
\* the day of its identifier (m_create_task_instance gives it the tm_isdst of
\* the hour asked about)
\*   - if the tasks are set between one and eleven in the evening and the
\*     process is never killed, or
\*   - if they are set before eleven in the evening, midnight included, and no
\*     listing is asked for after the change on the day the clock is put
\*     forward: the process may then be killed anywhere, also where add_task
\*     leaves a task that starts at time zero.
THEOREM StartsOnTheirDayAway ==
  ASSUME StartsAway, \A t \in Dates : Covered(t)
  PROVE  Spec => []StartsOnItsDay
<1>1. Init => Dated /\ TasksAway BY NoRowsFacts DEF Init, Dated, TasksAway
<1>2. Safe /\ TasksAway /\ [Next]_vars => TasksAway' BY AwayNext
<1>3. Safe /\ TasksAway /\ Dated /\ [Next]_vars => Dated'
  BY DatedNext, Zenon DEF TasksAway, Punctual
<1>4. Dated => StartsOnItsDay BY DEF Dated, OnDay, StartsOnItsDay
<1> QED BY <1>1, <1>2, <1>3, <1>4, SafeAlways, PTL DEF Spec

-----------------------------------------------------------------------------
(* How long a call can take.                                               *)

\* A set of tasks is finite, and one less without one of them.
LEMMA TasksCounted ==
  ASSUME NEW S \in SUBSET TaskIds
  PROVE  /\ Cardinality(S) \in Nat
         /\ Cardinality(S) <= MaxTaskId
         /\ \A id \in S : /\ Cardinality(S \ {id}) = Cardinality(S) - 1
                          /\ Cardinality(S) >= 1
<1>1. IsFiniteSet(TaskIds) /\ Cardinality(TaskIds) = MaxTaskId
  BY FS_Interval, BoundsAssumption DEF TaskIds
<1>2. IsFiniteSet(S) /\ Cardinality(S) <= MaxTaskId
  BY <1>1, FS_Subset
<1>3. Cardinality(S) \in Nat
  BY <1>2, FS_CardinalityType
<1>4. ASSUME NEW id \in S
      PROVE  Cardinality(S \ {id}) = Cardinality(S) - 1 /\ Cardinality(S) >= 1
  <2>1. Cardinality(S \ {id}) = Cardinality(S) - 1
    BY <1>2, FS_RemoveElement
  <2>2. IsFiniteSet(S \ {id})
    BY <1>2, FS_RemoveElement
  <2>3. Cardinality(S \ {id}) \in Nat
    BY <2>2, FS_CardinalityType
  <2> QED
    BY <1>3, <2>1, <2>3
<1> QED
  BY <1>2, <1>3, <1>4

\* The number of steps left is one, and no listing has more than two for
\* each task and its return.
LEMMA StepsCounted == Safe => StepsLeft \in 0..(2 * MaxTaskId + 1)
<1> SUFFICES ASSUME Safe PROVE StepsLeft \in 0..(2 * MaxTaskId + 1)
  OBVIOUS
<1>1. CASE pc \in {"scanning", "filling"}
  <2>1. listing.todo \in SUBSET TaskIds
    BY <1>1 DEF Safe, TypeOK, Listing
  <2>2. Cardinality(listing.todo) \in Nat /\ Cardinality(listing.todo) <= MaxTaskId
    BY <2>1, TasksCounted
  <2> QED
    BY <1>1, <2>2, BoundsAssumption DEF StepsLeft
<1>2. CASE pc \notin {"scanning", "filling"}
  BY <1>2, BoundsAssumption DEF StepsLeft
<1> QED
  BY <1>1, <1>2

LEMMA StepsCountedNext == Safe' => (StepsLeft \in 0..(2 * MaxTaskId + 1))'
BY StepsCounted, PTL

\* A step of the loop of get_task_instances.
LEMMA ScanBounded ==
  ASSUME Safe, NEW id \in TaskIds, Scan(id), pc' # "down"
  PROVE  StepsLeft' = StepsLeft - 1 \/ StepsLeft' = StepsLeft - 2
<1>1. pc \in {"scanning", "filling"} /\ IsCurrent(id)
  BY DEF Scan, ScanTrap, ScanSkip, ScanCached, ScanLoad, ScanInsert, Fill, Scanning
<1> DEFINE todo == listing.todo
<1>2. listing \in Listing /\ todo \in SUBSET TaskIds /\ id \in todo
  BY <1>1, CurrentFacts DEF Listing
<1>3. /\ Cardinality(todo) \in Nat
      /\ Cardinality(todo \ {id}) = Cardinality(todo) - 1
  BY <1>2, TasksCounted
<1>4. ~ScanTrap(id)
  BY DEF ScanTrap, Die
<1>5. CASE ScanInsert(id)
  <2>1. pc = "scanning" /\ pc' = "filling" /\ listing' = listing
    BY <1>5 DEF ScanInsert, Scanning
  <2> QED
    BY <1>3, <2>1 DEF StepsLeft
<1>6. CASE ScanSkip(id) \/ ScanCached(id) \/ ScanLoad(id)
  <2>1. pc = "scanning" /\ pc' = "scanning"
    BY <1>6 DEF ScanSkip, ScanCached, ScanLoad, Scanning
  <2>2. listing'.todo = todo \ {id}
    BY <1>2, <1>6 DEF ScanSkip, ScanCached, ScanLoad, Advance, Listing
  <2> QED
    BY <1>3, <2>1, <2>2 DEF StepsLeft
<1>7. CASE Fill(id)
  <2>1. pc = "filling" /\ pc' = "scanning" /\ listing'.todo = todo \ {id}
    BY <1>2, <1>7 DEF Fill, Advance, Listing
  <2> QED
    BY <1>3, <2>1 DEF StepsLeft
<1> QED
  BY <1>4, <1>5, <1>6, <1>7 DEF Scan

\* The UPDATE of a new instance is about a task.
FillsOne == pc = "filling" => listing.todo # {}

LEMMA FillsOneNext == ASSUME FillsOne, [Next]_vars PROVE FillsOne'
<1>1. ASSUME NEW id \in TaskIds, Scan(id) PROVE FillsOne'
  BY <1>1 DEF Scan, ScanTrap, ScanSkip, ScanCached, ScanLoad, ScanInsert, Fill,
              Scanning, IsCurrent, Die, FillsOne
<1>2. CASE UNCHANGED vars
  BY <1>2 DEF vars, FillsOne
<1>3. CASE TaskCall \/ InstanceCall \/ ListCall
  <2>1. pc' # "filling"
    BY <1>3 DEF TaskCall, AddTask, DeleteTask, ModifyTask, SetTaskComment,
                ModifyUnknownTask, Die, InstanceCall, StartTask, SkipTask, FinishTask,
                SetUndone, SetState, SetComment, ListCall, GetTaskInstances,
                GetTaskInstancesOn, BeginListing
  <2> QED
    BY <2>1 DEF FillsOne
<1>4. CASE Clear \/ Crash \/ Restart \/ AddTaskFill \/ ListReturn \/ ClearInstances
  BY <1>4 DEF Clear, Crash, Die, Restart, AddTaskFill, ListReturn, ClearInstances,
              FillsOne
<1> QED
  BY <1>1, <1>2, <1>3, <1>4 DEF Next, Internal

\* A call that runs has a step to take.
LEMMA StepLeft ==
  ASSUME Safe, FillsOne, pc \notin {"idle", "down"} PROVE StepsLeft >= 1
<1>1. CASE pc \in {"adding", "clearing"}
  BY <1>1 DEF StepsLeft
<1>2. CASE pc \in {"scanning", "filling"}
  <2>1. listing.todo \in SUBSET TaskIds
    BY <1>2 DEF Safe, TypeOK, Listing
  <2>2. CASE pc = "scanning"
    BY <2>1, <2>2, TasksCounted DEF StepsLeft
  <2>3. CASE pc = "filling"
    <3>1. PICK id \in listing.todo : TRUE
      BY <2>3 DEF FillsOne
    <3>2. Cardinality(listing.todo) \in Nat /\ Cardinality(listing.todo) >= 1
      BY <2>1, <3>1, TasksCounted
    <3> QED
      BY <2>3, <3>2 DEF StepsLeft
  <2> QED
    BY <1>2, <2>2, <2>3
<1> QED
  BY <1>1, <1>2 DEF Safe, TypeOK, PcValues

LEMMA BoundedNext ==
  ASSUME Safe, FillsOne, Next, pc \notin {"idle", "down"}
  PROVE  StepsLeft' \in 0..(StepsLeft - 1)
<1>1. StepsLeft \in Nat /\ StepsLeft' \in Nat
  <2>1. Safe'
    BY SafeNext
  <2> QED
    BY <2>1, StepsCounted, StepsCountedNext, BoundsAssumption
<1>2. ~TaskCall /\ ~InstanceCall /\ ~ListCall /\ ~Clear /\ ~Restart
  BY DEF TaskCall, AddTask, DeleteTask, ModifyTask, SetTaskComment, ModifyUnknownTask,
         InstanceCall, StartTask, SkipTask, FinishTask, SetUndone, SetState, SetComment,
         ListCall, GetTaskInstances, GetTaskInstancesOn, BeginListing, Clear, Restart
<1>3. StepsLeft >= 1
  BY StepLeft
<1>4. CASE pc' \in {"idle", "down"}
  BY <1>1, <1>3, <1>4 DEF StepsLeft
<1>5. CASE pc' \notin {"idle", "down"}
  <2>1. ~Crash /\ ~AddTaskFill /\ ~ListReturn /\ ~ClearInstances
    BY <1>5 DEF Crash, Die, AddTaskFill, ListReturn, ClearInstances
  <2>2. PICK id \in TaskIds : Scan(id)
    BY <1>2, <2>1 DEF Next, Internal
  <2>3. StepsLeft' = StepsLeft - 1 \/ StepsLeft' = StepsLeft - 2
    BY <1>5, <2>2, ScanBounded
  <2> QED
    BY <1>1, <2>3
<1> QED
  BY <1>4, <1>5

\* Every step while a call runs is one step less of that call, whatever the
\* tables and the cache hold: with n tasks a listing is over after 2n + 1
\* statements at most.
THEOREM CallsAlwaysBounded == Spec => CallsAreBounded
<1>1. Init => FillsOne
  BY DEF Init, FillsOne
<1>2. Spec => []FillsOne
  BY <1>1, FillsOneNext, PTL DEF Spec
<1>3. Safe /\ FillsOne /\ [Next]_vars =>
        [pc \notin {"idle", "down"} => StepsLeft' \in 0..(StepsLeft - 1)]_vars
  BY BoundedNext
<1> QED
  BY <1>2, <1>3, SafeAlways, PTL DEF Spec, CallsAreBounded

=============================================================================
