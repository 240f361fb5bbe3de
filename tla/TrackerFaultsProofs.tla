------------------------ MODULE TrackerFaultsProofs -------------------------
(***************************************************************************)
(* What a tracker keeps when its statements throw, for every calendar, any *)
(* number of tasks and exceptions anywhere.                                *)
(***************************************************************************)
EXTENDS TrackerFaults, TaskTrackerProofs

-----------------------------------------------------------------------------
(* Steps without an exception are those of TaskTracker.                    *)

Returns == TaskStep \/ InstanceStep \/ PlainStep \/ ClearStep \/ DeathStep

LEMMA ReturnsIsNext == Returns => Next
<1>1. TaskStep => TaskCall
  BY DEF TaskStep, TaskCall
<1>2. InstanceStep => InstanceCall
  BY SetStatesAssumption
  DEF InstanceStep, InstanceCall, TaskStates, StartTask, SkipTask, FinishTask, SetUndone
<1>3. PlainStep => Next
  BY DEF PlainStep, Next, TaskCall, Internal, Scan
<1>4. ClearStep => Internal
  BY DEF ClearStep, Internal
<1>5. DeathStep => Next
  BY DEF DeathStep, Next, TaskCall, Internal, Scan
<1> QED
  BY <1>1, <1>2, <1>3, <1>4, <1>5 DEF Returns, Next

LEMMA FaultCases == FaultNext <=> Returns \/ Throws
BY DEF FaultNext, Returns

\* The call is over.
LEMMA ThrowsEnds == Throws => pc' = "idle"
BY DEF Throws, AddTaskThrows, ModifyTaskThrows, SetTaskCommentThrows, KeepUnsaved,
       SetStateThrows, SetCommentThrows, WriteThrows, ScanThrows, FillThrows, EndListing,
       ClearThrows

-----------------------------------------------------------------------------
(* Types.                                                                  *)

\* The row that FillThrows leaves when the UPDATE is done.
LEMMA FilledType ==
  ASSUME Safe, NEW id \in TaskIds, pc = "filling", IsCurrent(id)
  PROVE  LET uid == UidOf(id, listing.date)
         IN  /\ uid \in DOMAIN instancesTable
             /\ uid \notin DOMAIN m_task_instances
             /\ instancesTable[uid] \in TaskInstanceData
             /\ InstanceStart(id) \in Int
<1>1. id \in DOMAIN m_tasks /\ listing.date \in Tm
  BY CurrentFacts
<1>2. InstanceStart(id) \in Int
  BY <1>1, InstanceStartType DEF Safe, TypeOK
<1> QED
  BY <1>2 DEF Safe, TypeOK, LocalsOK, IsTable

LEMMA SafeThrows == ASSUME Safe, Throws PROVE Safe'
<1> USE DEF Safe
<1>1. AddTaskThrows => Safe'
  BY DEF AddTaskThrows, TypeOK, LocalsOK, PcValues, tables, memory
<1>2. ASSUME NEW id \in DOMAIN m_tasks, NEW data \in TaskData, pc = "idle",
             KeepUnsaved(id, data)
      PROVE  Safe'
  <2>1. IsTable(m_tasks, TaskIds, TaskData)'
    BY <1>2, SetEntryTable DEF TypeOK, KeepUnsaved
  <2> QED
    BY <1>2, <2>1 DEF KeepUnsaved, TypeOK, LocalsOK, tables
<1>3. ASSUME NEW id \in TaskIds, NEW patch \in Patches, ModifyTaskThrows(id, patch)
      PROVE  Safe'
  <2>1. m_tasks[id] \in TaskData
    BY <1>3 DEF ModifyTaskThrows, TypeOK, IsTable
  <2>2. Patched(m_tasks[id], patch) \in TaskData
    BY <2>1, PatchedType
  <2> QED
    BY <1>3, <2>2, <1>2 DEF ModifyTaskThrows
<1>4. ASSUME NEW id \in TaskIds, NEW comment \in Comments,
             SetTaskCommentThrows(id, comment)
      PROVE  Safe'
  <2>1. m_tasks[id] \in TaskData
    BY <1>4 DEF SetTaskCommentThrows, TypeOK, IsTable
  <2>2. [m_tasks[id] EXCEPT !.comment = comment] \in TaskData
    BY <2>1, StringsAssumption DEF TaskData
  <2> QED
    BY <1>4, <2>2, <1>2 DEF SetTaskCommentThrows
<1>5. ASSUME NEW uid \in DOMAIN m_task_instances, NEW data \in TaskInstanceData,
             WriteThrows(uid, data)
      PROVE  Safe'
  <2>1. IsTable(m_task_instances, Uid, TaskInstanceData)'
    BY <1>5, SetEntryTable DEF TypeOK, WriteThrows
  <2> QED
    BY <1>5, <2>1 DEF WriteThrows, TypeOK, LocalsOK, tables
<1>6. ASSUME NEW uid \in DOMAIN m_task_instances, NEW state \in SetStates,
             SetStateThrows(uid, state)
      PROVE  Safe'
  <2>1. [m_task_instances[uid] EXCEPT !.state = state] \in TaskInstanceData
    BY SetStatesAssumption DEF TypeOK, IsTable, TaskInstanceData
  <2> QED
    BY <1>6, <2>1, <1>5 DEF SetStateThrows
<1>7. ASSUME NEW uid \in DOMAIN m_task_instances, NEW comment \in Comments,
             SetCommentThrows(uid, comment)
      PROVE  Safe'
  <2>1. [m_task_instances[uid] EXCEPT !.comment = comment] \in TaskInstanceData
    BY StringsAssumption DEF TypeOK, IsTable, TaskInstanceData
  <2> QED
    BY <1>7, <2>1, <1>5 DEF SetCommentThrows
<1>8. ScanThrows => Safe'
  BY DEF ScanThrows, EndListing, Scanning, TypeOK, LocalsOK, PcValues, memory
<1>9. ASSUME NEW id \in TaskIds, FillThrows(id) PROVE Safe'
  <2> DEFINE uid == UidOf(id, listing.date)
             data == [instancesTable[uid] EXCEPT !.scheduled_start = InstanceStart(id)]
  <2>1. /\ uid \in DOMAIN instancesTable
        /\ instancesTable[uid] \in TaskInstanceData
        /\ InstanceStart(id) \in Int
    BY <1>9, FilledType DEF FillThrows
  <2>2. data \in TaskInstanceData
    BY <2>1 DEF TaskInstanceData
  <2>3. \/ instancesTable' = instancesTable
        \/ instancesTable' = [instancesTable EXCEPT ![uid] = data]
    BY <1>9 DEF FillThrows
  <2> HIDE DEF data
  <2>4. IsTable(instancesTable, Uid, TaskInstanceData)'
    <3>1. IsTable(instancesTable, Uid, TaskInstanceData)
      BY DEF TypeOK
    <3>2. IsTable([instancesTable EXCEPT ![uid] = data], Uid, TaskInstanceData)
      BY <3>1, <2>2, SetEntryTable
    <3>3. CASE instancesTable' = instancesTable
      BY <3>1, <3>3 DEF IsTable
    <3>4. CASE instancesTable' = [instancesTable EXCEPT ![uid] = data]
      BY <3>2, <3>4 DEF IsTable
    <3> QED
      BY <2>3, <3>3, <3>4
  <2> QED
    BY <1>9, <2>4 DEF FillThrows, EndListing, TypeOK, LocalsOK, PcValues, memory
<1>10. ASSUME ClearThrows PROVE Safe'
  <2>1. IsTable(instancesTable, Uid, TaskInstanceData)'
    BY <1>10, NoRowsFacts DEF ClearThrows, TypeOK, IsTable
  <2> QED
    BY <1>10, <2>1 DEF ClearThrows, TypeOK, LocalsOK, PcValues, memory
<1> QED
  BY <1>1, <1>3, <1>4, <1>6, <1>7, <1>8, <1>9, <1>10 DEF Throws

LEMMA SafeFault == Safe /\ [FaultNext]_faultVars => Safe'
<1> SUFFICES ASSUME Safe, [FaultNext]_faultVars PROVE Safe'
  OBVIOUS
<1>1. UNCHANGED faultVars => UNCHANGED vars
  BY DEF faultVars
<1> QED
  BY <1>1, FaultCases, ReturnsIsNext, SafeThrows, SafeNext

LEMMA FaultSafeAlways == FaultSpec => []Safe
<1>1. FaultInit => Safe
  BY SafeInit DEF FaultInit
<1> QED
  BY <1>1, SafeFault, PTL DEF FaultSpec

\* A listing is exact for the tasks in memory, whatever of them is saved, and
\* one that is not exact is never returned: it throws.
THEOREM ThrowingListingsExact == FaultSpec => []ListingExact
<1>1. FaultInit => ListingExact
  BY DEF FaultInit, Init, ListingExact
<1>2. Safe /\ ListingExact /\ [FaultNext]_faultVars => ListingExact'
  <2>1. Throws => ListingExact'
    BY ThrowsEnds DEF ListingExact
  <2>2. UNCHANGED faultVars => UNCHANGED vars
    BY DEF faultVars
  <2> QED
    BY <2>1, <2>2, FaultCases, ReturnsIsNext, ExactNext
<1> QED
  BY <1>1, <1>2, FaultSafeAlways, PTL DEF FaultSpec

-----------------------------------------------------------------------------
(* Rows are in their saved form.                                           *)

LEMMA RowsSavedReturns == ASSUME Safe, RowsSaved, Returns PROVE RowsSaved'
<1> USE DEF RowsSaved
<1>1. ASSUME TaskStep PROVE RowsSaved'
  <2>1. PICK id \in TaskIds : \/ DeleteTask(id)
                              \/ \E patch \in Patches : ModifyTask(id, patch)
                              \/ \E comment \in Comments : SetTaskComment(id, comment)
    BY <1>1 DEF TaskStep
  <2>2. CASE DeleteTask(id)
    BY <2>2 DEF DeleteTask, Without, Restrict
  <2>3. ASSUME NEW data \in TaskData,
               tasksTable' = UpdateRow(tasksTable, id, SavedTask(data)),
               instancesTable' = instancesTable
        PROVE  RowsSaved'
    BY <2>3, SavedTwice DEF UpdateRow
  <2>4. ASSUME NEW patch \in Patches, ModifyTask(id, patch) PROVE RowsSaved'
    <3>1. m_tasks[id] \in TaskData
      BY <2>4 DEF ModifyTask, Safe, TypeOK, IsTable
    <3>2. Patched(m_tasks[id], patch) \in TaskData
      BY <3>1, PatchedType
    <3> QED
      BY <2>4, <3>2, <2>3 DEF ModifyTask
  <2>5. ASSUME NEW comment \in Comments, SetTaskComment(id, comment) PROVE RowsSaved'
    <3>1. m_tasks[id] \in TaskData
      BY <2>5 DEF SetTaskComment, Safe, TypeOK, IsTable
    <3>2. [m_tasks[id] EXCEPT !.comment = comment] \in TaskData
      BY <3>1, StringsAssumption DEF TaskData
    <3> QED
      BY <2>5, <3>2, <2>3 DEF SetTaskComment
  <2> QED
    BY <2>1, <2>2, <2>4, <2>5
<1>2. ASSUME InstanceStep PROVE RowsSaved'
  <2>1. PICK uid \in DOMAIN m_task_instances :
            \/ \E state \in SetStates : SetState(uid, state)
            \/ \E comment \in Comments : SetComment(uid, comment)
    BY <1>2 DEF InstanceStep
  <2>2. \E data \in TaskInstanceData :
            /\ instancesTable' = UpdateRow(instancesTable, uid, SavedInstance(data))
            /\ tasksTable' = tasksTable
    <3>1. m_task_instances[uid] \in TaskInstanceData
      BY DEF Safe, TypeOK, IsTable
    <3>2. ASSUME NEW state \in SetStates, SetState(uid, state)
          PROVE  \E data \in TaskInstanceData :
                    /\ instancesTable' = UpdateRow(instancesTable, uid, SavedInstance(data))
                    /\ tasksTable' = tasksTable
      <4>1. [m_task_instances[uid] EXCEPT !.state = state] \in TaskInstanceData
        BY <3>1, SetStatesAssumption DEF TaskInstanceData
      <4> QED
        BY <3>2, <4>1 DEF SetState, WriteInstance
    <3>3. ASSUME NEW comment \in Comments, SetComment(uid, comment)
          PROVE  \E data \in TaskInstanceData :
                    /\ instancesTable' = UpdateRow(instancesTable, uid, SavedInstance(data))
                    /\ tasksTable' = tasksTable
      <4>1. [m_task_instances[uid] EXCEPT !.comment = comment] \in TaskInstanceData
        BY <3>1, StringsAssumption DEF TaskInstanceData
      <4> QED
        BY <3>3, <4>1 DEF SetComment, WriteInstance
    <3> QED
      BY <2>1, <3>2, <3>3
  <2> QED
    BY <2>2, SavedTwice DEF UpdateRow
<1>3. ASSUME PlainStep PROVE RowsSaved'
  <2>1. ASSUME NEW task \in NewTasks, AddTask(task) PROVE RowsSaved'
    <3>1. SavedTask(BlankTask(Escape[task.name])) = BlankTask(Escape[task.name])
      BY ArgumentsAssumption, BlankSaved DEF NewTask
    <3> QED
      BY <2>1, <3>1 DEF AddTask, Put
  <2>2. ListCall \/ ListReturn \/ Restart => RowsSaved'
    BY DEF ListCall, GetTaskInstances, GetTaskInstancesOn, BeginListing, ListReturn,
           Restart, tables
  <2>3. Clear => RowsSaved'
    BY NoRowsFacts DEF Clear
  <2>4. ASSUME AddTaskFill PROVE RowsSaved'
    <3>1. /\ tasksTable[adding.id] \in TaskData
          /\ adding.task \in NewTask
      BY <2>4, ArgumentsAssumption
      DEF AddTaskFill, Safe, TypeOK, LocalsOK, IsTable, Adding
    <3>2. mktime(adding.task.start_time) \in Int
      BY <3>1, MktimeType DEF NewTask
    <3>3. \E data \in TaskData :
              tasksTable' = UpdateRow(tasksTable, adding.id, SavedTask(data))
      BY <2>4, <3>1, <3>2 DEF AddTaskFill, TaskData, NewTask
    <3> QED
      BY <2>4, <3>3, SavedTwice DEF UpdateRow, AddTaskFill
  <2>5. ASSUME NEW id \in TaskIds, ScanSkip(id) \/ ScanCached(id) \/ ScanLoad(id)
        PROVE  RowsSaved'
    BY <2>5 DEF ScanSkip, ScanCached, ScanLoad, tables
  <2>6. ASSUME NEW id \in TaskIds, ScanInsert(id) PROVE RowsSaved'
    BY <2>6, BlankSaved DEF ScanInsert, Put
  <2>7. ASSUME NEW id \in TaskIds, Fill(id) PROVE RowsSaved'
    <3> DEFINE uid == UidOf(id, listing.date)
               data == [instancesTable[uid] EXCEPT !.scheduled_start = InstanceStart(id)]
    <3>1. instancesTable[uid] \in TaskInstanceData /\ InstanceStart(id) \in Int
      BY <2>7, FilledType DEF Fill
    <3>2. data \in TaskInstanceData
      BY <3>1 DEF TaskInstanceData
    <3>3. instancesTable' = UpdateRow(instancesTable, uid, SavedInstance(data))
          /\ tasksTable' = tasksTable
      BY <2>7 DEF Fill
    <3> HIDE DEF data, uid
    <3> QED
      BY <3>2, <3>3, SavedTwice DEF UpdateRow
  <2> QED
    BY <1>3, <2>1, <2>2, <2>3, <2>4, <2>5, <2>6, <2>7 DEF PlainStep
<1>4. ClearStep => RowsSaved'
  BY NoRowsFacts DEF ClearStep, ClearInstances
<1>5. DeathStep => RowsSaved'
  BY DEF DeathStep, ModifyUnknownTask, ScanTrap, Crash, tables
<1> QED
  BY <1>1, <1>2, <1>3, <1>4, <1>5 DEF Returns

LEMMA RowsSavedThrows == ASSUME Safe, RowsSaved, Throws PROVE RowsSaved'
<1>1. \/ UNCHANGED tables
      \/ ClearThrows
      \/ \E id \in TaskIds : FillThrows(id)
  BY DEF Throws, AddTaskThrows, ModifyTaskThrows, SetTaskCommentThrows, KeepUnsaved,
         SetStateThrows, SetCommentThrows, WriteThrows, ScanThrows, EndListing, tables
<1>2. UNCHANGED tables => RowsSaved'
  BY DEF RowsSaved, tables
<1>3. ASSUME NEW id \in TaskIds, FillThrows(id) PROVE RowsSaved'
  <2> DEFINE uid == UidOf(id, listing.date)
             data == [instancesTable[uid] EXCEPT !.scheduled_start = InstanceStart(id)]
  <2>1. /\ uid \in DOMAIN instancesTable
        /\ instancesTable[uid] \in TaskInstanceData
        /\ InstanceStart(id) \in Int
    BY <1>3, FilledType DEF FillThrows
  <2>2. SavedInstance(instancesTable[uid]) = instancesTable[uid]
    BY <2>1 DEF RowsSaved
  <2>3. SavedInstance(data) = data
    BY <2>1, <2>2 DEF SavedInstance, TaskInstanceData
  <2>4. /\ tasksTable' = tasksTable
        /\ \/ instancesTable' = instancesTable
           \/ instancesTable' = [instancesTable EXCEPT ![uid] = data]
    BY <1>3 DEF FillThrows, EndListing
  <2> HIDE DEF data, uid
  <2> QED
    BY <2>1, <2>3, <2>4 DEF RowsSaved
<1>4. ClearThrows => RowsSaved'
  BY NoRowsFacts DEF ClearThrows, RowsSaved
<1> QED
  BY <1>1, <1>2, <1>3, <1>4

-----------------------------------------------------------------------------
(* Tasks, in memory and in the file.                                       *)

\* Unless a clear threw, every task in memory has a row, and it is the row of
\* its data unless its last change threw; a row beside them is blank.  Between
\* the two tables clear has left no task in the file.
TaskRows ==
    /\ pc # "clearing" /\ ~halfCleared =>
          \A id \in DOMAIN m_tasks :
              /\ id \in DOMAIN tasksTable
              /\ id \notin unsavedTasks => tasksTable[id] = SavedTask(m_tasks[id])
    /\ HalfAddedIsBlank
    /\ AddedIsNew
    /\ unsavedTasks \subseteq DOMAIN m_tasks
    /\ pc \in {"adding", "down"} => ~halfCleared
    /\ pc = "clearing" => DOMAIN tasksTable = {}

\* Nothing that TaskRows is about changes.
LEMMA TaskRowsKept ==
  ASSUME TaskRows, UNCHANGED <<tasksTable, m_tasks, unsavedTasks, halfCleared>>,
         pc \notin {"adding", "clearing", "down"},
         pc' \notin {"adding", "clearing", "down"}
  PROVE  TaskRows'
BY DEF TaskRows, HalfAddedIsBlank, AddedIsNew

LEMMA TaskRowsTaskStep == ASSUME Safe, TaskRows, TaskStep PROVE TaskRows'
<1> USE DEF TaskRows, HalfAddedIsBlank, AddedIsNew
<1>1. PICK id \in TaskIds : /\ \/ DeleteTask(id)
                               \/ \E patch \in Patches : ModifyTask(id, patch)
                               \/ \E comment \in Comments : SetTaskComment(id, comment)
                            /\ Settled({id}, {})
  BY DEF TaskStep
<1>2. CASE DeleteTask(id)
  BY <1>1, <1>2 DEF DeleteTask, Settled, Without, Restrict
<1>3. ASSUME NEW data,
             pc = "idle", pc' = pc, id \in DOMAIN m_tasks,
             m_tasks' = [m_tasks EXCEPT ![id] = data],
             tasksTable' = UpdateRow(tasksTable, id, SavedTask(data))
      PROVE  TaskRows'
  <2>1. ~halfCleared => id \in DOMAIN tasksTable
    BY <1>3
  <2>2. /\ DOMAIN tasksTable' = DOMAIN tasksTable
        /\ id \in DOMAIN tasksTable => tasksTable'[id] = SavedTask(data)
        /\ \A k \in DOMAIN tasksTable : k # id => tasksTable'[k] = tasksTable[k]
    BY <1>3 DEF UpdateRow
  <2>3. /\ m_tasks'[id] = data /\ DOMAIN m_tasks' = DOMAIN m_tasks
        /\ \A k \in DOMAIN m_tasks : k # id => m_tasks'[k] = m_tasks[k]
    BY <1>3
  <2> QED
    BY <1>1, <1>3, <2>1, <2>2, <2>3 DEF Settled
<1>4. ASSUME NEW patch \in Patches, ModifyTask(id, patch) PROVE TaskRows'
  BY <1>4, <1>3 DEF ModifyTask
<1>5. ASSUME NEW comment \in Comments, SetTaskComment(id, comment) PROVE TaskRows'
  BY <1>5, <1>3 DEF SetTaskComment
<1> QED
  BY <1>1, <1>2, <1>4, <1>5

LEMMA TaskRowsPlainStep == ASSUME Safe, RowsSaved, TaskRows, PlainStep PROVE TaskRows'
<1> USE DEF TaskRows, HalfAddedIsBlank, AddedIsNew
<1>h. unsavedTasks' = unsavedTasks /\ halfCleared' = halfCleared
  BY DEF PlainStep, history
<1>1. ASSUME ~halfCleared, NEW task \in NewTasks, AddTask(task) PROVE TaskRows'
  <2>1. PICK id \in TaskIds :
            /\ id \notin DOMAIN tasksTable
            /\ tasksTable' = Put(tasksTable, id, BlankTask(Escape[task.name]))
            /\ adding' = [id |-> id, task |-> task]
    BY <1>1, BoundsAssumption DEF AddTask, IsNextRowid, TaskIds
  <2>2. pc = "idle" /\ pc' = "adding" /\ m_tasks' = m_tasks /\ ~halfCleared
    BY <1>1 DEF AddTask, memory
  <2>3. Escape[task.name] \in Strings
    BY ArgumentsAssumption, StringsAssumption DEF NewTask
  <2>4. adding'.id = id /\ id \notin DOMAIN m_tasks
    BY <2>1, <2>2
  <2>5. /\ DOMAIN tasksTable' = DOMAIN tasksTable \cup {id}
        /\ tasksTable'[id] = BlankTask(Escape[task.name])
        /\ \A k \in DOMAIN tasksTable : tasksTable'[k] = tasksTable[k]
    BY <2>1 DEF Put
  <2> QED
    BY <1>h, <2>2, <2>3, <2>4, <2>5
<1>2. ListCall => TaskRows'
  BY <1>h, TaskRowsKept
  DEF ListCall, GetTaskInstances, GetTaskInstancesOn, BeginListing, tables, memory
<1>3. Clear => TaskRows'
  BY <1>h, NoRowsFacts DEF Clear, memory
<1>4. ASSUME AddTaskFill PROVE TaskRows'
  <2>1. PICK data : /\ tasksTable' = UpdateRow(tasksTable, adding.id, SavedTask(data))
                    /\ m_tasks' = Put(m_tasks, adding.id, data)
    BY <1>4 DEF AddTaskFill
  <2>2. adding.id \in DOMAIN tasksTable /\ adding.id \notin DOMAIN m_tasks
    BY <1>4 DEF AddTaskFill, Safe, LocalsOK
  <2>3. pc = "adding" /\ pc' = "idle"
    BY <1>4 DEF AddTaskFill
  <2> QED
    BY <1>h, <2>1, <2>2, <2>3 DEF Put, UpdateRow
<1>5. ASSUME NEW id \in TaskIds, ScanSkip(id) \/ ScanCached(id) \/ ScanLoad(id)
                                 \/ ScanInsert(id) \/ Fill(id)
      PROVE  TaskRows'
  BY <1>5, <1>h, TaskRowsKept
  DEF ScanSkip, ScanCached, ScanLoad, ScanInsert, Fill, Scanning, tables, memory
<1>6. ListReturn => TaskRows'
  BY <1>h, TaskRowsKept DEF ListReturn, tables, memory
<1>7. Restart => TaskRows'
  BY <1>h DEF Restart, RowsSaved, tables
<1> QED
  BY <1>1, <1>2, <1>3, <1>4, <1>5, <1>6, <1>7 DEF PlainStep

LEMMA TaskRowsThrows == ASSUME Safe, TaskRows, Throws PROVE TaskRows'
<1> USE DEF TaskRows, HalfAddedIsBlank, AddedIsNew
<1>1. AddTaskThrows => TaskRows'
  BY DEF AddTaskThrows, tables, memory, history
<1>2. ASSUME NEW id \in DOMAIN m_tasks, NEW data, pc = "idle", KeepUnsaved(id, data)
      PROVE  TaskRows'
  BY <1>2 DEF KeepUnsaved, tables
<1>3. ASSUME NEW id \in TaskIds,
             \/ \E patch \in Patches : ModifyTaskThrows(id, patch)
             \/ \E comment \in Comments : SetTaskCommentThrows(id, comment)
      PROVE  TaskRows'
  BY <1>2, <1>3 DEF ModifyTaskThrows, SetTaskCommentThrows
<1>4. ASSUME NEW uid,
             \/ \E state \in SetStates : SetStateThrows(uid, state)
             \/ \E comment \in Comments : SetCommentThrows(uid, comment)
      PROVE  TaskRows'
  BY <1>4, TaskRowsKept DEF SetStateThrows, SetCommentThrows, WriteThrows, tables
<1>5. ScanThrows => TaskRows'
  BY TaskRowsKept DEF ScanThrows, EndListing, Scanning, memory
<1>6. ASSUME NEW id \in TaskIds, FillThrows(id) PROVE TaskRows'
  BY <1>6, TaskRowsKept DEF FillThrows, EndListing, memory
<1>7. ClearThrows => TaskRows'
  BY DEF ClearThrows, memory
<1> QED
  BY <1>1, <1>3, <1>4, <1>5, <1>6, <1>7 DEF Throws

LEMMA TaskRowsFault ==
  Safe /\ RowsSaved /\ TaskRows /\ [FaultNext]_faultVars => TaskRows'
<1> SUFFICES ASSUME Safe, RowsSaved, TaskRows, [FaultNext]_faultVars PROVE TaskRows'
  OBVIOUS
<1> USE DEF TaskRows, HalfAddedIsBlank, AddedIsNew
<1>1. ASSUME InstanceStep PROVE TaskRows'
  <2>1. /\ UNCHANGED <<tasksTable, m_tasks, unsavedTasks, halfCleared>>
        /\ pc = "idle" /\ pc' = "idle"
    BY <1>1 DEF InstanceStep, SetState, SetComment, Settled
  <2> QED
    BY <2>1, TaskRowsKept
<1>2. ClearStep => TaskRows'
  BY DEF ClearStep, ClearInstances, RowsSaved
<1>3. DeathStep => TaskRows'
  BY NoRowsFacts DEF DeathStep, ModifyUnknownTask, ScanTrap, Crash, Die, tables
<1>4. UNCHANGED faultVars => TaskRows'
  BY DEF faultVars, vars, history
<1> QED
  BY <1>1, <1>2, <1>3, <1>4, TaskRowsTaskStep, TaskRowsPlainStep, TaskRowsThrows
  DEF FaultNext

-----------------------------------------------------------------------------
(* Instances, in memory and in the file.                                   *)

\* Every cached instance has a row with its start, and it is the row of its
\* data unless its last change threw.
CachedRows ==
    \A uid \in DOMAIN m_task_instances :
        /\ uid \in DOMAIN instancesTable
        /\ instancesTable[uid].scheduled_start = m_task_instances[uid].scheduled_start
        /\ uid \notin unsavedInstances =>
              instancesTable[uid] = SavedInstance(m_task_instances[uid])

\* The row being filled has no start yet.
FillingBlank ==
    pc = "filling" =>
        \A id \in TaskIds : IsCurrent(id) =>
            instancesTable[UidOf(id, listing.date)].scheduled_start = 0

InstanceRows ==
    /\ CachedRows
    /\ FillingBlank
    /\ pc = "clearing" => DOMAIN m_task_instances = {}
    /\ unsavedInstances \subseteq DOMAIN m_task_instances
    /\ interrupted \subseteq DOMAIN instancesTable

StartsKept ==
    /\ \A uid \in DOMAIN instancesTable :
          \/ pc = "clearing"
          \/ /\ uid \in DOMAIN instancesTable'
             /\ instancesTable[uid].scheduled_start
                    \in {0, instancesTable'[uid].scheduled_start}
    /\ \A uid \in DOMAIN m_task_instances \cap DOMAIN m_task_instances' :
          m_task_instances'[uid].scheduled_start = m_task_instances[uid].scheduled_start

\* Nothing that InstanceRows is about changes.
LEMMA InstanceRowsKept ==
  ASSUME InstanceRows,
         UNCHANGED <<instancesTable, m_task_instances, unsavedInstances, interrupted>>,
         pc' \notin {"filling", "clearing"}
  PROVE  InstanceRows' /\ StartsKept
BY DEF InstanceRows, CachedRows, FillingBlank, StartsKept

LEMMA SavedStart ==
  \A data \in TaskInstanceData : SavedInstance(data).scheduled_start = data.scheduled_start
BY DEF SavedInstance, TaskInstanceData

LEMMA InstanceRowsInstanceStep ==
  ASSUME Safe, InstanceRows, InstanceStep PROVE InstanceRows' /\ StartsKept
<1> USE DEF InstanceRows, CachedRows, FillingBlank
<1>1. PICK uid \in DOMAIN m_task_instances :
          /\ \/ \E state \in SetStates : SetState(uid, state)
             \/ \E comment \in Comments : SetComment(uid, comment)
          /\ Settled({}, {uid})
  BY DEF InstanceStep
<1>2. PICK data \in TaskInstanceData :
          /\ WriteInstance(uid, data)
          /\ data.scheduled_start = m_task_instances[uid].scheduled_start
  <2>1. m_task_instances[uid] \in TaskInstanceData
    BY DEF Safe, TypeOK, IsTable
  <2>2. ASSUME NEW state \in SetStates, SetState(uid, state)
        PROVE  \E data \in TaskInstanceData :
                  /\ WriteInstance(uid, data)
                  /\ data.scheduled_start = m_task_instances[uid].scheduled_start
    <3>1. [m_task_instances[uid] EXCEPT !.state = state] \in TaskInstanceData
      BY <2>1, SetStatesAssumption DEF TaskInstanceData
    <3>2. [m_task_instances[uid] EXCEPT !.state = state].scheduled_start
              = m_task_instances[uid].scheduled_start
      BY <2>1 DEF TaskInstanceData
    <3> QED
      BY <2>2, <3>1, <3>2 DEF SetState
  <2>3. ASSUME NEW comment \in Comments, SetComment(uid, comment)
        PROVE  \E data \in TaskInstanceData :
                  /\ WriteInstance(uid, data)
                  /\ data.scheduled_start = m_task_instances[uid].scheduled_start
    <3>1. [m_task_instances[uid] EXCEPT !.comment = comment] \in TaskInstanceData
      BY <2>1, StringsAssumption DEF TaskInstanceData
    <3>2. [m_task_instances[uid] EXCEPT !.comment = comment].scheduled_start
              = m_task_instances[uid].scheduled_start
      BY <2>1 DEF TaskInstanceData
    <3> QED
      BY <2>3, <3>1, <3>2 DEF SetComment
  <2> QED
    BY <1>1, <2>2, <2>3
<1>3. /\ m_task_instances' = [m_task_instances EXCEPT ![uid] = data]
      /\ instancesTable' = [instancesTable EXCEPT ![uid] = SavedInstance(data)]
      /\ unsavedInstances' = unsavedInstances \ {uid}
      /\ interrupted' = interrupted
  BY <1>1, <1>2 DEF WriteInstance, UpdateRow, Settled
<1>4. pc = "idle" /\ pc' = "idle"
  BY <1>1 DEF SetState, SetComment
<1>5. SavedInstance(data).scheduled_start = data.scheduled_start
  BY SavedStart
<1>6. uid \in DOMAIN instancesTable
  OBVIOUS
<1> QED
  BY <1>2, <1>3, <1>4, <1>5, <1>6 DEF StartsKept

LEMMA InstanceRowsWriteThrows ==
  ASSUME Safe, InstanceRows, NEW uid \in DOMAIN m_task_instances,
         \/ \E state \in SetStates : SetStateThrows(uid, state)
         \/ \E comment \in Comments : SetCommentThrows(uid, comment)
  PROVE  InstanceRows' /\ StartsKept
<1> USE DEF InstanceRows, CachedRows, FillingBlank
<1>1. m_task_instances[uid] \in TaskInstanceData
  BY DEF Safe, TypeOK, IsTable
<1>2. PICK data :
          /\ WriteThrows(uid, data)
          /\ data.scheduled_start = m_task_instances[uid].scheduled_start
  <2> DEFINE old == m_task_instances[uid]
  <2>1. ASSUME NEW x
        PROVE  /\ [old EXCEPT !.state = x].scheduled_start = old.scheduled_start
               /\ [old EXCEPT !.comment = x].scheduled_start = old.scheduled_start
    BY <1>1 DEF TaskInstanceData
  <2> HIDE DEF old
  <2>2. CASE \E state \in SetStates : SetStateThrows(uid, state)
    BY <2>1, <2>2 DEF SetStateThrows, old
  <2>3. CASE \E comment \in Comments : SetCommentThrows(uid, comment)
    BY <2>1, <2>3 DEF SetCommentThrows, old
  <2> QED
    BY <2>2, <2>3
<1> QED
  BY <1>2 DEF WriteThrows, StartsKept, tables

LEMMA InstanceRowsScan ==
  ASSUME Safe, RowsSaved, InstanceRows, NEW id \in TaskIds,
         ScanLoad(id) \/ ScanInsert(id) \/ Fill(id), UNCHANGED history
  PROVE  InstanceRows' /\ StartsKept
<1> USE DEF InstanceRows, CachedRows, FillingBlank
<1> DEFINE uid == UidOf(id, listing.date)
<1>h. unsavedInstances' = unsavedInstances /\ interrupted' = interrupted
  BY DEF history
<1>1. ASSUME ScanLoad(id) PROVE InstanceRows' /\ StartsKept
  <2>1. /\ uid \notin DOMAIN m_task_instances /\ uid \in DOMAIN instancesTable
        /\ m_task_instances' = Put(m_task_instances, uid, instancesTable[uid])
        /\ instancesTable' = instancesTable
        /\ pc' = "scanning"
    BY <1>1 DEF ScanLoad, Scanning, tables
  <2>2. instancesTable[uid] = SavedInstance(instancesTable[uid])
    BY <2>1 DEF RowsSaved
  <2> HIDE DEF uid
  <2> QED
    BY <1>h, <2>1, <2>2 DEF Put, StartsKept
<1>2. ASSUME ScanInsert(id) PROVE InstanceRows' /\ StartsKept
  <2>1. /\ uid \notin DOMAIN instancesTable
        /\ instancesTable' = Put(instancesTable, uid, BlankInstance)
        /\ m_task_instances' = m_task_instances
        /\ pc = "scanning" /\ pc' = "filling" /\ IsCurrent(id)
    BY <1>2 DEF ScanInsert, Scanning, memory
  <2>2. \A k \in TaskIds : IsCurrent(k)' => UidOf(k, listing.date)' = uid
    <3>1. \A k \in TaskIds : IsCurrent(k) => k = id
      BY <2>1, CurrentFacts
    <3> QED
      BY <1>2, <3>1 DEF ScanInsert, IsCurrent, UidOf, memory
  <2>3. BlankInstance.scheduled_start = 0
    BY DEF BlankInstance
  <2>4. /\ DOMAIN instancesTable' = DOMAIN instancesTable \cup {uid}
        /\ instancesTable'[uid].scheduled_start = 0
        /\ \A u \in DOMAIN instancesTable : instancesTable'[u] = instancesTable[u]
    <3> HIDE DEF uid
    <3> QED
      BY <2>1, <2>3 DEF Put
  <2> HIDE DEF uid
  <2> QED
    BY <1>h, <2>1, <2>2, <2>4 DEF StartsKept
<1>3. ASSUME Fill(id) PROVE InstanceRows' /\ StartsKept
  <2> DEFINE data == [instancesTable[uid] EXCEPT !.scheduled_start = InstanceStart(id)]
  <2>1. /\ uid \in DOMAIN instancesTable /\ uid \notin DOMAIN m_task_instances
        /\ instancesTable[uid] \in TaskInstanceData
        /\ InstanceStart(id) \in Int
        /\ instancesTable[uid].scheduled_start = 0
    BY <1>3, FilledType DEF Fill
  <2>2. data \in TaskInstanceData
    BY <2>1 DEF TaskInstanceData
  <2>3. /\ instancesTable' = UpdateRow(instancesTable, uid, SavedInstance(data))
        /\ m_task_instances' = Put(m_task_instances, uid, instancesTable'[uid])
        /\ pc = "filling" /\ pc' = "scanning"
    BY <1>3 DEF Fill
  <2> HIDE DEF data, uid
  <2>4. instancesTable' = [instancesTable EXCEPT ![uid] = SavedInstance(data)]
    BY <2>1, <2>3 DEF UpdateRow
  <2>5. /\ instancesTable'[uid] = SavedInstance(data)
        /\ SavedInstance(SavedInstance(data)) = SavedInstance(data)
    BY <2>1, <2>2, <2>4, SavedTwice
  <2> QED
    BY <1>h, <2>1, <2>3, <2>4, <2>5 DEF Put, StartsKept
<1> QED
  BY <1>1, <1>2, <1>3

LEMMA InstanceRowsFillThrows ==
  ASSUME Safe, InstanceRows, NEW id \in TaskIds, FillThrows(id)
  PROVE  InstanceRows' /\ StartsKept
<1> USE DEF InstanceRows, CachedRows, FillingBlank
<1> DEFINE uid == UidOf(id, listing.date)
<1>1. /\ uid \in DOMAIN instancesTable /\ uid \notin DOMAIN m_task_instances
      /\ instancesTable[uid].scheduled_start = 0
  BY FilledType DEF FillThrows
<1>2. /\ m_task_instances' = m_task_instances
      /\ unsavedInstances' = unsavedInstances
      /\ pc = "filling" /\ pc' = "idle"
      /\ \/ /\ interrupted' = interrupted \cup {uid}
            /\ instancesTable' = instancesTable
         \/ /\ instancesTable' =
                   [instancesTable EXCEPT ![uid].scheduled_start = InstanceStart(id)]
            /\ interrupted' = interrupted
  BY DEF FillThrows, EndListing, memory
<1> HIDE DEF uid
<1> QED
  BY <1>1, <1>2 DEF StartsKept

LEMMA InstanceRowsFault ==
  ASSUME ~ClearAnytime, Safe, RowsSaved, InstanceRows, [FaultNext]_faultVars
  PROVE  InstanceRows' /\ StartsKept
<1> USE DEF InstanceRows, CachedRows, FillingBlank
<1>1. TaskStep => InstanceRows' /\ StartsKept
  BY InstanceRowsKept DEF TaskStep, DeleteTask, ModifyTask, SetTaskComment, Settled
<1>2. ASSUME PlainStep PROVE InstanceRows' /\ StartsKept
  <2>h. UNCHANGED history
    BY <1>2 DEF PlainStep
  <2>1. ASSUME \/ \E task \in NewTasks : AddTask(task)
               \/ ListCall
               \/ AddTaskFill
               \/ \E id \in TaskIds : ScanSkip(id) \/ ScanCached(id)
               \/ ListReturn
               \/ Restart
        PROVE  InstanceRows' /\ StartsKept
    BY <2>h, <2>1, InstanceRowsKept
    DEF history, AddTask, ListCall, GetTaskInstances, GetTaskInstancesOn, BeginListing,
        AddTaskFill, ScanSkip, ScanCached, Scanning, ListReturn, Restart, tables, memory
  <2>2. ASSUME Clear PROVE InstanceRows' /\ StartsKept
    <3>1. /\ UNCHANGED <<instancesTable, m_task_instances, unsavedInstances, interrupted>>
          /\ pc' = "clearing"
          /\ DOMAIN m_task_instances = {}
      BY <2>h, <2>2, FlagsAssumption DEF Clear, memory, history
    <3> QED
      BY <3>1 DEF StartsKept
  <2>3. ASSUME NEW id \in TaskIds, ScanLoad(id) \/ ScanInsert(id) \/ Fill(id)
        PROVE  InstanceRows' /\ StartsKept
    BY <2>h, <2>3, InstanceRowsScan
  <2> QED
    BY <1>2, <2>1, <2>2, <2>3 DEF PlainStep
<1>3. ClearStep => InstanceRows' /\ StartsKept
  BY NoRowsFacts DEF ClearStep, ClearInstances, StartsKept
<1>4. ASSUME DeathStep PROVE InstanceRows' /\ StartsKept
  <2>1. /\ Die
        /\ instancesTable' = instancesTable
        /\ unsavedInstances' = {}
    BY <1>4 DEF DeathStep, ModifyUnknownTask, ScanTrap, Crash, tables
  <2>2. interrupted' \subseteq DOMAIN instancesTable
    BY <1>4, FilledType DEF DeathStep
  <2> QED
    BY <2>1, <2>2, NoRowsFacts DEF Die, StartsKept
<1>5. ASSUME Throws PROVE InstanceRows' /\ StartsKept
  <2>1. AddTaskThrows => InstanceRows' /\ StartsKept
    BY InstanceRowsKept DEF AddTaskThrows, tables, memory, history
  <2>2. ASSUME NEW id \in TaskIds,
               \/ \E patch \in Patches : ModifyTaskThrows(id, patch)
               \/ \E comment \in Comments : SetTaskCommentThrows(id, comment)
        PROVE  InstanceRows' /\ StartsKept
    BY <2>2, InstanceRowsKept
    DEF ModifyTaskThrows, SetTaskCommentThrows, KeepUnsaved, tables
  <2>4. ClearThrows => InstanceRows' /\ StartsKept
    BY DEF ClearThrows, StartsKept, memory
  <2>3. ScanThrows => InstanceRows' /\ StartsKept
    BY InstanceRowsKept DEF ScanThrows, EndListing, memory
  <2> QED
    BY <1>5, <2>1, <2>2, <2>3, <2>4, InstanceRowsWriteThrows, InstanceRowsFillThrows
    DEF Throws
<1>6. UNCHANGED faultVars => InstanceRows' /\ StartsKept
  BY DEF faultVars, vars, history, StartsKept, IsCurrent, UidOf
<1> QED
  BY <1>1, <1>2, <1>3, <1>4, <1>5, <1>6, InstanceRowsInstanceStep DEF FaultNext

-----------------------------------------------------------------------------

LEMMA FaultInits == FaultInit => Safe /\ RowsSaved /\ TaskRows /\ InstanceRows
BY SafeInit, NoRowsFacts
DEF FaultInit, Init, RowsSaved, TaskRows, HalfAddedIsBlank, AddedIsNew, InstanceRows,
    CachedRows, FillingBlank

LEMMA RowsSavedFault == Safe /\ RowsSaved /\ [FaultNext]_faultVars => RowsSaved'
<1>1. UNCHANGED faultVars /\ RowsSaved => RowsSaved'
  BY DEF faultVars, vars, RowsSaved
<1> QED
  BY <1>1, FaultCases, RowsSavedReturns, RowsSavedThrows

LEMMA TaskRowsAlways == FaultSpec => [](RowsSaved /\ TaskRows)
BY FaultInits, FaultSafeAlways, RowsSavedFault, TaskRowsFault, PTL DEF FaultSpec

LEMMA InstanceRowsAlways == ASSUME ~ClearAnytime PROVE FaultSpec => []InstanceRows
<1>1. Safe /\ RowsSaved /\ InstanceRows /\ [FaultNext]_faultVars => InstanceRows'
  BY InstanceRowsFault
<1> QED
  BY <1>1, FaultInits, FaultSafeAlways, TaskRowsAlways, PTL DEF FaultSpec

\* The id of a task is unique in memory too: the one a new row is given is
\* that of no task held, whatever calls threw before, unless one of them was
\* clear and memory is still that of before it.
THEOREM AddedAlwaysNew == FaultSpec => []AddedIsNew
<1>1. TaskRows => AddedIsNew
  BY DEF TaskRows
<1> QED
  BY <1>1, TaskRowsAlways, PTL

\* A task in the file alone is what an add_task that threw has left: blank.
THEOREM HalfAddedAlwaysBlank == FaultSpec => []HalfAddedIsBlank
<1>1. TaskRows => HalfAddedIsBlank
  BY DEF TaskRows
<1> QED
  BY <1>1, TaskRowsAlways, PTL

\* Types, and that the history is one of what is there.
THEOREM FaultTypeCorrect == ASSUME ~ClearAnytime PROVE FaultSpec => []FaultTypeOK
<1>1. Safe /\ TaskRows /\ InstanceRows /\ halfCleared \in BOOLEAN => FaultTypeOK
  BY DEF Safe, TaskRows, InstanceRows, FaultTypeOK
<1> DEFINE IsFlag == halfCleared \in BOOLEAN
<1>2. FaultInit => IsFlag
  BY DEF FaultInit
<1>3. IsFlag /\ [FaultNext]_faultVars => IsFlag'
  BY DEF FaultNext, TaskStep, InstanceStep, PlainStep, ClearStep, DeathStep, Settled,
         Throws, AddTaskThrows, ClearThrows, ModifyTaskThrows, SetTaskCommentThrows,
         KeepUnsaved, SetStateThrows, SetCommentThrows, WriteThrows, ScanThrows,
         FillThrows, EndListing, history, faultVars
<1>4. Safe /\ TaskRows /\ InstanceRows /\ IsFlag => FaultTypeOK
  BY <1>1
<1> HIDE DEF IsFlag
<1>5. FaultSpec => []IsFlag
  BY <1>2, <1>3, PTL DEF FaultSpec
<1> QED
  BY <1>4, <1>5, FaultSafeAlways, TaskRowsAlways, InstanceRowsAlways, PTL

\* Memory and file differ in what threw last, and in nothing else.
THEOREM OnlyUnsavedAlwaysDiffer ==
  ASSUME ~ClearAnytime PROVE FaultSpec => []OnlyUnsavedDiffer
<1>1. TaskRows /\ InstanceRows => OnlyUnsavedDiffer
  BY DEF TaskRows, InstanceRows, CachedRows, OnlyUnsavedDiffer
<1> QED
  BY <1>1, TaskRowsAlways, InstanceRowsAlways, PTL

\* The start of an instance is set once, in the file and in memory, and stays
\* as long as its task is not edited; StartsKept, which the code has, is more.
THEOREM StartsAreKept == ASSUME ~ClearAnytime PROVE FaultSpec => StartsNeverMove
<1>1. Safe /\ RowsSaved /\ InstanceRows /\ [FaultNext]_faultVars => StartsKept
  BY InstanceRowsFault
<1>2. StartsKept =>
        /\ \A uid \in DOMAIN instancesTable :
              TaskKeepsHour(uid, instancesTable[uid].scheduled_start) =>
              \/ pc = "clearing"
              \/ /\ uid \in DOMAIN instancesTable'
                 /\ instancesTable[uid].scheduled_start
                        \in {0, instancesTable'[uid].scheduled_start}
        /\ \A uid \in DOMAIN m_task_instances \cap DOMAIN m_task_instances' :
              TaskKeepsHour(uid, m_task_instances[uid].scheduled_start) =>
              m_task_instances'[uid].scheduled_start
                  = m_task_instances[uid].scheduled_start
  BY DEF StartsKept
<1> QED
  BY <1>1, <1>2, FaultSafeAlways, TaskRowsAlways, InstanceRowsAlways, PTL
  DEF FaultSpec, StartsNeverMove

-----------------------------------------------------------------------------
(* How long a call can take.                                               *)

LEMMA FillsOneFault == ASSUME FillsOne, [FaultNext]_faultVars PROVE FillsOne'
<1>1. CASE Returns
  BY <1>1, ReturnsIsNext, FillsOneNext
<1>2. CASE Throws
  BY <1>2, ThrowsEnds DEF FillsOne
<1>3. CASE UNCHANGED faultVars
  BY <1>3 DEF faultVars, vars, FillsOne
<1> QED
  BY <1>1, <1>2, <1>3, FaultCases

LEMMA BoundedFault ==
  ASSUME Safe, FillsOne, FaultNext, pc \notin {"idle", "down"}
  PROVE  StepsLeft' \in 0..(StepsLeft - 1)
<1>1. CASE Returns
  BY <1>1, ReturnsIsNext, BoundedNext
<1>2. CASE Throws
  <2>1. StepsLeft' = 0
    BY <1>2, ThrowsEnds DEF StepsLeft
  <2>2. StepsLeft \in Nat /\ StepsLeft >= 1
    BY StepsCounted, StepLeft, BoundsAssumption
  <2> QED
    BY <2>1, <2>2
<1> QED
  BY <1>1, <1>2, FaultCases

\* A call that may throw is no longer than one that does not.
THEOREM ThrowingCallsBounded == FaultSpec => CallsAreBounded
<1>1. FaultInit => FillsOne
  BY DEF FaultInit, Init, FillsOne
<1>2. FaultSpec => []FillsOne
  BY <1>1, FillsOneFault, PTL DEF FaultSpec
<1>3. Safe /\ FillsOne /\ [FaultNext]_faultVars =>
        [pc \notin {"idle", "down"} => StepsLeft' \in 0..(StepsLeft - 1)]_vars
  BY BoundedFault DEF faultVars
<1> QED
  BY <1>2, <1>3, FaultSafeAlways, PTL DEF FaultSpec, CallsAreBounded

-----------------------------------------------------------------------------
(* Blank rows.                                                             *)

\* Hour 0 of the table, where a start cannot be told from none, is the epoch:
\* no listing is of its day.
LaterDays == \A t \in Dates : Covered(t) /\ DayOf(t) >= 1

IsLater(date) == MonthStart[date.mon] + date.mday >= 2

\* With the listing's own row aside, a row is blank only if it is known.
BlankKnown ==
    /\ OnlyInterruptedAreBlank
    /\ pc \in {"scanning", "filling"} => IsLater(listing.date)

LEMMA LaterDates ==
  ASSUME NEW t, Covered(t), DayOf(t) >= 1
  PROVE  IsLater(localtime(t)) /\ IsLater(FromYmd(localtime(t).mon, localtime(t).mday))
<1>1. /\ localtime(t).mon = MonthOf(DayOf(t))
      /\ localtime(t).mday = DayOf(t) - MonthStart[MonthOf(DayOf(t))] + 1
  BY LocaltimeFields DEF Covered
<1>2. DayOf(t) \in Nat /\ MonthStart[MonthOf(DayOf(t))] \in Nat
  BY WallClockParts, MonthOfDay DEF Covered
<1>3. MonthStart[localtime(t).mon] + localtime(t).mday >= 2
  BY <1>1, <1>2
<1> QED
  BY <1>3, Zenon DEF IsLater, FromYmd

\* A new instance has a start that is not zero, summer time or not.
LEMMA FilledIsNotBlank ==
  ASSUME Safe, NEW id \in TaskIds, pc = "filling", IsCurrent(id), IsLater(listing.date)
  PROVE  InstanceStart(id) # 0
<1> DEFINE date == listing.date
           hour == ScheduledHour(m_tasks[id])
<1>1. id \in DOMAIN m_tasks /\ date \in Tm
  BY CurrentFacts
<1>2. hour \in 0..23
  <2>1. m_tasks[id].scheduled_start \in Int
    BY <1>1 DEF Safe, TypeOK, IsTable, TaskData
  <2> QED
    BY <2>1, HourType DEF ScheduledHour
<1>3. /\ MonthStart[date.mon] \in Nat /\ date.mday \in 1..31
      /\ DstShift(date.isdst) \in {0, 1}
      /\ MonthStart[date.mon] + date.mday >= 2
  BY <1>1, ShiftType, MonthsAssumption DEF Tm, Months, IsLater
<1>4. InstanceStart(id)
          = 24 * (MonthStart[date.mon] + date.mday - 1) + hour - DstShift(date.isdst)
  <2> HIDE DEF hour
  <2>1. LET tm == [date EXCEPT !.hour = hour]
        IN  tm.mon = date.mon /\ tm.mday = date.mday /\ tm.hour = hour
            /\ tm.isdst = date.isdst
    BY <1>1 DEF Tm
  <2> QED
    BY <2>1, Zenon DEF InstanceStart, mktime, hour
<1> HIDE DEF date, hour
<1>5. ASSUME NEW m \in Nat, NEW d \in 1..31, NEW h \in 0..23, NEW s \in {0, 1}, m + d >= 2
      PROVE  24 * (m + d - 1) + h - s # 0
  BY <1>5
<1> QED
  BY <1>2, <1>3, <1>4, <1>5

\* While a listing fills a row, the next step is the listing's or ends it.
LEMMA BlankFilling ==
  ASSUME Safe, InstanceRows, BlankKnown, pc = "filling", FaultNext
  PROVE  BlankKnown'
<1> USE DEF BlankKnown, OnlyInterruptedAreBlank
<1>1. ASSUME NEW id \in TaskIds, Fill(id), UNCHANGED history PROVE BlankKnown'
  <2> DEFINE uid == UidOf(id, listing.date)
             data == [instancesTable[uid] EXCEPT !.scheduled_start = InstanceStart(id)]
  <2>1. /\ IsCurrent(id)
        /\ instancesTable' = UpdateRow(instancesTable, uid, SavedInstance(data))
        /\ pc' = "scanning"
        /\ Advance(id, {uid})
    BY <1>1 DEF Fill
  <2>2. /\ uid \in DOMAIN instancesTable
        /\ instancesTable[uid] \in TaskInstanceData
        /\ InstanceStart(id) \in Int
    BY <2>1, FilledType
  <2>3. data \in TaskInstanceData /\ data.scheduled_start = InstanceStart(id)
    BY <2>2 DEF TaskInstanceData
  <2>4. /\ listing'.date = listing.date
        /\ \A k \in TaskIds : IsCurrent(k) => k = id
    BY <2>1, CurrentFacts, UidType, AdvanceFacts
  <2>5. InstanceStart(id) # 0
    BY <2>1, FilledIsNotBlank
  <2>6. \A k \in TaskIds : IsCurrent(k) => UidOf(k, listing.date) = uid
    BY <2>4
  <2>7. IsLater(listing.date)'
    BY <2>4 DEF IsLater
  <2> HIDE DEF data, uid
  <2>8. /\ DOMAIN instancesTable' = DOMAIN instancesTable
        /\ instancesTable'[uid].scheduled_start # 0
        /\ \A u \in DOMAIN instancesTable : u # uid => instancesTable'[u] = instancesTable[u]
    BY <2>1, <2>2, <2>3, <2>5, SavedStart DEF UpdateRow
  <2> QED
    BY <1>1, <2>1, <2>6, <2>7, <2>8 DEF history
<1>2. ASSUME NEW id \in TaskIds, FillThrows(id) PROVE BlankKnown'
  <2> DEFINE uid == UidOf(id, listing.date)
  <2>1. /\ IsCurrent(id) /\ pc' = "idle"
        /\ \/ /\ interrupted' = interrupted \cup {uid}
              /\ instancesTable' = instancesTable
           \/ /\ instancesTable' =
                     [instancesTable EXCEPT ![uid].scheduled_start = InstanceStart(id)]
              /\ interrupted' = interrupted
    BY <1>2 DEF FillThrows, EndListing
  <2>2. /\ uid \in DOMAIN instancesTable
        /\ instancesTable[uid] \in TaskInstanceData
        /\ InstanceStart(id) # 0
        /\ \A k \in TaskIds : IsCurrent(k) => UidOf(k, listing.date) = uid
    BY <2>1, FilledType, FilledIsNotBlank, CurrentFacts
  <2>3. [instancesTable[uid] EXCEPT !.scheduled_start = InstanceStart(id)].scheduled_start
            = InstanceStart(id)
    BY <2>2 DEF TaskInstanceData
  <2> HIDE DEF uid
  <2> QED
    BY <2>1, <2>2, <2>3
<1>3. ASSUME DeathStep PROVE BlankKnown'
  <2>1. /\ pc' = "down" /\ instancesTable' = instancesTable
        /\ interrupted \subseteq interrupted'
        /\ \A k \in TaskIds : IsCurrent(k) => UidOf(k, listing.date) \in interrupted'
    BY <1>3 DEF DeathStep, ModifyUnknownTask, ScanTrap, Crash, Die, tables
  <2> QED
    BY <2>1
<1>4. \/ \E id \in TaskIds : (Fill(id) /\ UNCHANGED history) \/ FillThrows(id)
      \/ DeathStep
  <2>1. ~TaskStep /\ ~InstanceStep /\ ~ClearStep
    BY DEF TaskStep, DeleteTask, ModifyTask, SetTaskComment, InstanceStep, SetState,
           SetComment, ClearStep, ClearInstances
  <2>2. PlainStep => \E id \in TaskIds : Fill(id) /\ UNCHANGED history
    BY DEF PlainStep, AddTask, ListCall, GetTaskInstances, GetTaskInstancesOn,
           BeginListing, Clear, AddTaskFill, ScanSkip, ScanCached, ScanLoad, ScanInsert,
           Scanning, ListReturn, Restart
  <2>3. Throws => \E id \in TaskIds : FillThrows(id)
    BY DEF Throws, AddTaskThrows, ModifyTaskThrows, SetTaskCommentThrows, SetStateThrows,
           SetCommentThrows, WriteThrows, ScanThrows, Scanning, ClearThrows
  <2> QED
    BY <2>1, <2>2, <2>3 DEF FaultNext
<1> QED
  BY <1>1, <1>2, <1>3, <1>4

\* Otherwise a row that is blank was blank before, or the listing makes it.
LEMMA BlankElsewhere ==
  ASSUME LaterDays, ~ClearAnytime, Safe, RowsSaved, InstanceRows, BlankKnown,
         pc # "filling", FaultNext
  PROVE  BlankKnown'
<1> USE DEF BlankKnown, OnlyInterruptedAreBlank
<1>1. CASE ClearStep
  BY <1>1, NoRowsFacts DEF ClearStep, ClearInstances
<1>2. ASSUME NEW id \in TaskIds, ScanInsert(id), UNCHANGED history PROVE BlankKnown'
  <2>1. /\ IsCurrent(id) /\ pc = "scanning" /\ pc' = "filling"
        /\ instancesTable' = Put(instancesTable, UidOf(id, listing.date), BlankInstance)
        /\ UNCHANGED <<m_tasks, listing, interrupted>>
    BY <1>2 DEF ScanInsert, Scanning, memory, history
  <2>2. IsCurrent(id)' /\ UidOf(id, listing.date)' = UidOf(id, listing.date)
    BY <2>1 DEF IsCurrent, UidOf
  <2>3. IsLater(listing.date)'
    BY <2>1 DEF IsLater
  <2> HIDE DEF BlankKnown
  <2>4. \A u \in DOMAIN instancesTable' :
            \/ u \in DOMAIN instancesTable /\ instancesTable'[u] = instancesTable[u]
            \/ u = UidOf(id, listing.date)'
    BY <2>1, <2>2 DEF Put
  <2> QED
    BY <2>1, <2>2, <2>3, <2>4 DEF BlankKnown
<1>3. ASSUME DOMAIN instancesTable' \subseteq DOMAIN instancesTable,
             interrupted \subseteq interrupted',
             pc # "clearing" \/ instancesTable' = instancesTable,
             pc' \in {"scanning", "filling"} => IsLater(listing.date)',
             FaultNext
      PROVE  BlankKnown'
  BY <1>3, InstanceRowsFault DEF StartsKept
<1>4. CASE TaskStep
  BY <1>3, <1>4 DEF TaskStep, DeleteTask, ModifyTask, SetTaskComment, Settled
<1>5. CASE InstanceStep
  BY <1>3, <1>5
  DEF InstanceStep, SetState, SetComment, WriteInstance, UpdateRow, Settled
<1>6. ASSUME PlainStep, \A id \in TaskIds : ~ScanInsert(id) PROVE BlankKnown'
  <2>1. UNCHANGED <<instancesTable, interrupted>>
    BY <1>6
    DEF PlainStep, history, AddTask, ListCall, GetTaskInstances, GetTaskInstancesOn,
        BeginListing, Clear, AddTaskFill, ScanSkip, ScanCached, ScanLoad, Fill,
        ListReturn, Restart, tables, memory
  <2>2. pc' \in {"scanning", "filling"} => IsLater(listing.date)'
    <3>1. ASSUME NEW id \in TaskIds, ScanSkip(id) \/ ScanCached(id) \/ ScanLoad(id)
          PROVE  IsLater(listing.date)'
      <4>1. pc = "scanning" /\ \E uids : Advance(id, uids)
        BY <3>1, Zenon DEF ScanSkip, ScanCached, ScanLoad, Scanning
      <4>2. listing'.date = listing.date
        BY <4>1 DEF Advance, Safe, TypeOK, Listing
      <4> QED
        BY <4>1, <4>2 DEF IsLater
    <3>2. ASSUME ListCall PROVE IsLater(listing.date)'
      <4>1. \A t \in Dates : IsLater(localtime(t))
                             /\ IsLater(FromYmd(localtime(t).mon, localtime(t).mday))
        BY LaterDates DEF LaterDays
      <4>2. PICK date : BeginListing(date) /\ IsLater(date)
        BY <3>2, <4>1, ArgumentsAssumption, Zenon
        DEF ListCall, GetTaskInstances, GetTaskInstancesOn
      <4> QED
        BY <4>2 DEF BeginListing, IsLater
    <3> QED
      BY <1>6, <3>1, <3>2
      DEF PlainStep, AddTask, Clear, AddTaskFill, Fill, ListReturn, Restart
  <2> QED
    BY <1>3, <1>6, <2>1, <2>2 DEF FaultNext
<1>7. CASE DeathStep
  BY <1>3, <1>7 DEF DeathStep, ModifyUnknownTask, ScanTrap, Crash, Die, tables
<1>9. CASE ClearThrows
  <2>1. /\ pc' = "idle"
        /\ interrupted' = interrupted \cap DOMAIN instancesTable'
        /\ \A u \in DOMAIN instancesTable' : /\ u \in DOMAIN instancesTable
                                             /\ instancesTable'[u] = instancesTable[u]
    BY <1>9, NoRowsFacts DEF ClearThrows
  <2>2. pc = "clearing"
    BY <1>9 DEF ClearThrows
  <2> QED
    BY <2>1, <2>2
<1>8. CASE Throws /\ ~ClearThrows
  <2>1. /\ pc' = "idle" /\ interrupted' = interrupted
        /\ DOMAIN instancesTable' = DOMAIN instancesTable
        /\ instancesTable' = instancesTable
    BY <1>8
    DEF Throws, AddTaskThrows, ModifyTaskThrows, SetTaskCommentThrows, KeepUnsaved,
        SetStateThrows, SetCommentThrows, WriteThrows, ScanThrows, FillThrows,
        EndListing, tables, history
  <2> QED
    BY <1>3, <1>8, <2>1
<1> QED
  BY <1>1, <1>2, <1>4, <1>5, <1>6, <1>7, <1>8, <1>9 DEF FaultNext, PlainStep

\* No crash, exception or order of calls leaves a row without a start but a
\* listing that was stopped between its INSERT and its UPDATE
\* (m_create_task_instance).
THEOREM OnlyInterruptedAlwaysBlank ==
  ASSUME LaterDays, ~ClearAnytime PROVE FaultSpec => []OnlyInterruptedAreBlank
<1>1. FaultInit => BlankKnown
  BY NoRowsFacts DEF FaultInit, Init, BlankKnown, OnlyInterruptedAreBlank
<1>2. Safe /\ RowsSaved /\ InstanceRows /\ BlankKnown /\ [FaultNext]_faultVars => BlankKnown'
  <2>1. UNCHANGED faultVars /\ BlankKnown => BlankKnown'
    BY DEF faultVars, vars, history, BlankKnown, OnlyInterruptedAreBlank, IsCurrent,
           UidOf, IsLater
  <2> QED
    BY <2>1, BlankFilling, BlankElsewhere
<1>3. BlankKnown => OnlyInterruptedAreBlank
  BY DEF BlankKnown
<1> QED
  BY <1>1, <1>2, <1>3, FaultSafeAlways, TaskRowsAlways, InstanceRowsAlways, PTL
  DEF FaultSpec

=============================================================================
