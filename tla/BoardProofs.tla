---------------------------- MODULE BoardProofs -----------------------------
(***************************************************************************)
(* The tracker keeps the board of TaskBoard, and so does the application:  *)
(* for any number of tasks, any calendar and any sequence of calls.        *)
(***************************************************************************)
EXTENDS AppProofs, TrackerBoard

\* The row that a running add_task has inserted has only a name.
Inserted ==
    pc = "adding" => tasksTable[adding.id] = BlankTask(Escape[adding.task.name])

BoardInv == Safe /\ Agreement /\ Stored /\ Inserted

\* What clear requires of those who call it.
ClearedInTime == Clear => DOMAIN m_task_instances = {}

-----------------------------------------------------------------------------
(* The invariant.                                                          *)

LEMMA InsertedNext == ASSUME Safe, Inserted, [Next]_vars PROVE Inserted'
<1>1. ASSUME NEW task \in NewTasks, AddTask(task) PROVE Inserted'
  BY <1>1 DEF AddTask, Inserted, Put
<1>2. ASSUME Die PROVE Inserted'
  BY <1>2 DEF Die, Inserted
<1>3. TaskCall => Inserted'
  BY <1>1, <1>2 DEF TaskCall, DeleteTask, ModifyTask, SetTaskComment,
                    ModifyUnknownTask, Inserted
<1>4. InstanceCall => Inserted'
  BY DEF InstanceCall, StartTask, SkipTask, FinishTask, SetUndone, SetState,
         SetComment, Inserted
<1>5. ListCall => Inserted'
  BY DEF ListCall, GetTaskInstances, GetTaskInstancesOn, BeginListing, Inserted
<1>6. Internal => Inserted'
  BY <1>2 DEF Internal, AddTaskFill, ListReturn, ClearInstances, Scan, ScanTrap,
              ScanSkip, ScanCached, ScanLoad, ScanInsert, Fill, Scanning, Inserted
<1>7. Clear \/ Crash \/ Restart \/ UNCHANGED vars => Inserted'
  BY <1>2 DEF Clear, Crash, Restart, vars, Inserted
<1> QED
  BY <1>3, <1>4, <1>5, <1>6, <1>7 DEF Next

LEMMA BoardInvInit == Init => BoardInv
<1>1. Init => Stored /\ Inserted
  BY NoRowsFacts DEF Init, Stored, CacheStored, Inserted
<1> QED
  BY <1>1, SafeInit, AgreementInit DEF BoardInv

LEMMA BoardInvNext ==
  ASSUME BoardInv, [Next]_vars, ClearedInTime PROVE BoardInv'
BY SafeNext, AgreementNext, StoredNext, InsertedNext DEF BoardInv, ClearedInTime

-----------------------------------------------------------------------------
(* The mapping.                                                            *)

\* With every cached instance stored, and the same in both, the marks on the
\* board are those of the table.
MarkedRows == {uid \in DOMAIN instancesTable :
                  MarkOf(instancesTable[uid]) # MarkOf(BlankInstance)}

TableMarks == [uid \in MarkedRows |-> MarkOf(instancesTable[uid])]

LEMMA MarksAreStored == BoardInv => BoardMarks = TableMarks
<1> SUFFICES ASSUME BoardInv PROVE BoardMarks = TableMarks
  OBVIOUS
<1>1. DOMAIN m_task_instances \cup DOMAIN instancesTable = DOMAIN instancesTable
  BY DEF BoardInv, Stored, CacheStored
<1>2. \A uid \in DOMAIN instancesTable : BoardInstance(uid) = instancesTable[uid]
  BY DEF BoardInv, Agreement, CacheCoherent, BoardInstance
<1> QED
  BY <1>1, <1>2 DEF BoardMarks, TableMarks, MarkedRows

LEMMA MarksKept ==
  ASSUME BoardInv, BoardInv', UNCHANGED TableMarks PROVE UNCHANGED BoardMarks
<1>1. BoardMarks = TableMarks
  BY MarksAreStored
<1>2. (BoardMarks = TableMarks)'
  BY MarksAreStored, PTL
<1> QED
  BY <1>1, <1>2

LEMMA SameRowsSameMarks ==
  ASSUME UNCHANGED instancesTable PROVE UNCHANGED TableMarks
BY DEF TableMarks, MarkedRows

\* A step the board does not show.
LEMMA UnseenStep ==
  ASSUME BoardInv, BoardInv', UNCHANGED <<instancesTable, m_task_instances>>,
         UNCHANGED BoardTasks, pc = "clearing" <=> pc' = "clearing"
  PROVE  UNCHANGED Board!boardVars
<1>1. UNCHANGED BoardMarks
  BY MarksKept, SameRowsSameMarks
<1>2. (pc = "clearing") = (pc' = "clearing")
  OBVIOUS
<1> QED
  BY <1>1, <1>2 DEF Board!boardVars

-----------------------------------------------------------------------------
(* The steps.                                                              *)

\* The tasks on the board are those of the table, as they would be loaded.
TableTasks == [id \in DOMAIN tasksTable |-> SavedTask(tasksTable[id])]

LEMMA TasksAreStored == BoardInv /\ pc # "adding" => BoardTasks = TableTasks
<1> SUFFICES ASSUME BoardInv, pc # "adding" PROVE BoardTasks = TableTasks
  OBVIOUS
<1>1. CASE pc \in {"down", "clearing"}
  BY <1>1 DEF BoardTasks, HeldTasks, TableTasks
<1>2. CASE pc \in {"idle", "scanning", "filling"}
  <2>1. DOMAIN m_tasks = DOMAIN tasksTable
    BY <1>2 DEF BoardInv, Agreement, TasksAgree, SameTasks
  <2>2. \A id \in DOMAIN m_tasks : SavedTask(tasksTable[id]) = SavedTask(m_tasks[id])
    BY <1>2, <2>1 DEF BoardInv, Agreement, TasksAgree, SameTasks, RowsSaved
  <2>3. BoardTasks = [id \in DOMAIN m_tasks |-> SavedTask(m_tasks[id])]
    BY <1>2 DEF BoardTasks, HeldTasks
  <2> QED
    BY <2>1, <2>2, <2>3 DEF TableTasks
<1> QED
  BY <1>1, <1>2 DEF BoardInv, Safe, TypeOK, PcValues

\* The process ends.
LEMMA CloseStep ==
  ASSUME BoardInv, BoardInv', Die, UNCHANGED tables PROVE Board!Close
<1>1. BoardTasks' = TableTasks /\ pc' = "down"
  BY DEF BoardTasks, HeldTasks, TableTasks, Die, tables
<1>2. UNCHANGED BoardMarks
  BY MarksKept, SameRowsSameMarks DEF tables
<1>3. DOMAIN m_task_instances' = {} /\ (pc' = "clearing") = FALSE
  BY <1>1, NoRowsFacts DEF Die
<1>4. CASE pc # "adding"
  BY <1>1, <1>2, <1>3, <1>4, TasksAreStored DEF Board!Close
<1>5. CASE pc = "adding"
  <2> DEFINE row == BlankTask(Escape[adding.task.name])
  <2>1. /\ DOMAIN m_tasks = DOMAIN tasksTable \ {adding.id}
        /\ \A id \in DOMAIN m_tasks : tasksTable[id] = SavedTask(m_tasks[id])
        /\ adding.id \in DOMAIN tasksTable
        /\ tasksTable[adding.id] = row
        /\ adding.id \in TaskIds /\ adding.task \in NewTasks
    BY <1>5 DEF BoardInv, Agreement, TasksAgree, Safe, LocalsOK, Inserted, TypeOK, Adding
  <2>2. \A id \in DOMAIN tasksTable : SavedTask(tasksTable[id]) = tasksTable[id]
    BY DEF BoardInv, Agreement, RowsSaved
  <2>3. BoardTasks = [id \in DOMAIN m_tasks |-> SavedTask(m_tasks[id])]
    BY <1>5 DEF BoardTasks, HeldTasks
  <2>4. TableTasks = Board!With(BoardTasks, adding.id, row)
    <3> HIDE DEF row
    <3> QED
      BY <2>1, <2>2, <2>3 DEF Board!With, TableTasks
  <2> QED
    BY <1>1, <1>2, <1>3, <2>1, <2>3, <2>4 DEF Board!Close
<1> QED
  BY <1>4, <1>5

\* The second statement of add_task: the task is on the board.
LEMMA AddStep == ASSUME BoardInv, BoardInv', AddTaskFill PROVE Board!Add
<1> DEFINE id == adding.id
           task == adding.task
           data == [tasksTable[id] EXCEPT
                        !.repeat_type = task.repeat_type,
                        !.repeat_info = task.repeat_info,
                        !.scheduled_start = mktime(task.start_time)]
<1>1. /\ pc = "adding" /\ pc' = "idle"
      /\ m_tasks' = Put(m_tasks, id, data)
      /\ UNCHANGED <<instancesTable, m_task_instances>>
  BY DEF AddTaskFill
<1>2. /\ id \in TaskIds /\ task \in NewTasks /\ id \notin DOMAIN m_tasks
      /\ tasksTable[id] = BlankTask(Escape[task.name])
  BY <1>1 DEF BoardInv, Agreement, TasksAgree, Safe, Inserted, TypeOK, Adding
<1>3. SavedTask(data) = AsAdded(task)
  <2>1. Escape[Escape[task.name]] = Escape[task.name] /\ Escape[NoText] = NoText
    BY <1>2, StringsAssumption, ArgumentsAssumption DEF NewTask
  <2> DEFINE name == Escape[task.name]
             typed == [BlankTask(name) EXCEPT !.repeat_type = task.repeat_type]
             told == [typed EXCEPT !.repeat_info = task.repeat_info]
             start == mktime(task.start_time)
  <2> HIDE DEF name, start, task
  <2>2. typed = [name |-> name, scheduled_start |-> 0, repeat_type |-> task.repeat_type,
                 repeat_info |-> 0, comment |-> NoText]
    BY DEF BlankTask
  <2>3. told = [name |-> name, scheduled_start |-> 0, repeat_type |-> task.repeat_type,
                repeat_info |-> task.repeat_info, comment |-> NoText]
    <3> HIDE DEF typed
    <3> QED
      BY <2>2
  <2>4. data = [told EXCEPT !.scheduled_start = start]
    BY <1>2 DEF name, start, task
  <2>5. data = [name |-> name, scheduled_start |-> start, repeat_type |-> task.repeat_type,
                repeat_info |-> task.repeat_info, comment |-> NoText]
    <3> HIDE DEF told, data
    <3> QED
      BY <2>3, <2>4
  <2>6. Escape[name] = name /\ Escape[NoText] = NoText
    BY <2>1 DEF name, task
  <2>7. SavedTask(data) = data
    <3> HIDE DEF data
    <3>1. [data EXCEPT !.name = Escape[@]] = data
      BY <2>5, <2>6
    <3>2. [data EXCEPT !.comment = Escape[@]] = data
      BY <2>5, <2>6
    <3> QED
      BY <3>1, <3>2 DEF SavedTask
  <2>8. data = AsAdded(task)
    <3> HIDE DEF data
    <3> QED
      BY <2>5 DEF AsAdded, name, start
  <2> QED
    BY <2>7, <2>8 DEF task
<1>4. /\ BoardTasks = [k \in DOMAIN m_tasks |-> SavedTask(m_tasks[k])]
      /\ BoardTasks' = [k \in DOMAIN m_tasks' |-> SavedTask(m_tasks'[k])]
  BY <1>1 DEF BoardTasks, HeldTasks
<1>5. BoardTasks' = Board!With(BoardTasks, id, SavedTask(data))
  <2> HIDE DEF data, id
  <2> QED
    BY <1>1, <1>2, <1>4 DEF Board!With, Put
<1>6. UNCHANGED BoardMarks
  BY <1>1, MarksKept, SameRowsSameMarks
<1>7. /\ BoardTasks' = Board!With(BoardTasks, id, AsAdded(task))
      /\ id \in TaskIds \ DOMAIN BoardTasks
      /\ AsAdded(task) \in {AsAdded(t) : t \in NewTasks}
      /\ (pc = "clearing") = (pc' = "clearing")
  BY <1>1, <1>2, <1>3, <1>4, <1>5
<1> HIDE DEF id, task
<1> QED
  BY <1>1, <1>6, <1>7 DEF Board!Add

\* An edit of a task in memory, saved.
LEMMA EditStep ==
  ASSUME BoardInv, BoardInv', NEW id \in DOMAIN m_tasks, NEW data,
         SavedTask(data).name = SavedTask(m_tasks[id]).name,
         pc = "idle", m_tasks' = [m_tasks EXCEPT ![id] = data],
         UNCHANGED <<instancesTable, m_task_instances, pc>>
  PROVE  Board!Edit
<1>1. /\ BoardTasks = [k \in DOMAIN m_tasks |-> SavedTask(m_tasks[k])]
      /\ BoardTasks' = [k \in DOMAIN m_tasks' |-> SavedTask(m_tasks'[k])]
  BY DEF BoardTasks, HeldTasks
<1>2. UNCHANGED BoardMarks
  BY MarksKept, SameRowsSameMarks
<1>3. /\ DOMAIN BoardTasks' = DOMAIN BoardTasks
      /\ BoardTasks'[id].name = BoardTasks[id].name
      /\ \A k \in DOMAIN BoardTasks \ {id} : BoardTasks'[k] = BoardTasks[k]
  BY <1>1
<1> QED
  BY <1>1, <1>2, <1>3 DEF Board!Edit

LEMMA TaskCallStep ==
  ASSUME BoardInv, BoardInv', TaskCall PROVE [Board!Next]_(Board!boardVars)
<1>1. ASSUME NEW task \in NewTasks, AddTask(task) PROVE UNCHANGED Board!boardVars
  <2>1. /\ pc = "idle" /\ pc' = "adding"
        /\ UNCHANGED <<m_tasks, instancesTable, m_task_instances>>
    BY <1>1 DEF AddTask, memory
  <2>2. UNCHANGED BoardTasks
    BY <2>1 DEF BoardTasks, HeldTasks
  <2> QED
    BY <2>1, <2>2, UnseenStep
<1>2. ASSUME NEW id \in TaskIds, DeleteTask(id) PROVE Board!Remove
  <2>1. /\ pc = "idle" /\ id \in DOMAIN m_tasks
        /\ m_tasks' = Without(m_tasks, id)
        /\ UNCHANGED <<pc, instancesTable, m_task_instances>>
    BY <1>2 DEF DeleteTask, BoardInv, Agreement, TasksAgree, SameTasks
  <2>2. /\ BoardTasks = [k \in DOMAIN m_tasks |-> SavedTask(m_tasks[k])]
        /\ BoardTasks' = [k \in DOMAIN m_tasks' |-> SavedTask(m_tasks'[k])]
    BY <2>1 DEF BoardTasks, HeldTasks
  <2>3. BoardTasks' = Board!Without(BoardTasks, id)
    BY <2>1, <2>2 DEF Board!Without, Board!Restrict, Without, Restrict
  <2>4. UNCHANGED BoardMarks
    BY <2>1, MarksKept, SameRowsSameMarks
  <2> QED
    BY <2>1, <2>2, <2>3, <2>4 DEF Board!Remove
<1>3. ASSUME NEW id \in TaskIds, NEW patch \in Patches, ModifyTask(id, patch)
      PROVE  Board!Edit
  <2> DEFINE data == Patched(m_tasks[id], patch)
  <2>1. /\ pc = "idle" /\ id \in DOMAIN m_tasks
        /\ m_tasks' = [m_tasks EXCEPT ![id] = data]
        /\ UNCHANGED <<pc, instancesTable, m_task_instances>>
    BY <1>3 DEF ModifyTask
  <2>2. m_tasks[id] \in TaskData
    BY <2>1 DEF BoardInv, Safe, TypeOK, IsTable
  <2>3. data \in TaskData /\ data.name = m_tasks[id].name
    BY <2>2, PatchedType DEF Patched, TaskData
  <2>4. SavedTask(data).name = SavedTask(m_tasks[id]).name
    <3> HIDE DEF data
    <3> QED
      BY <2>2, <2>3 DEF SavedTask, TaskData
  <2> HIDE DEF data
  <2> QED
    BY <2>1, <2>4, EditStep
<1>4. ASSUME NEW id \in TaskIds, NEW comment \in Comments, SetTaskComment(id, comment)
      PROVE  Board!Edit
  <2> DEFINE data == [m_tasks[id] EXCEPT !.comment = comment]
  <2>1. /\ pc = "idle" /\ id \in DOMAIN m_tasks
        /\ m_tasks' = [m_tasks EXCEPT ![id] = data]
        /\ UNCHANGED <<pc, instancesTable, m_task_instances>>
    BY <1>4 DEF SetTaskComment
  <2>2. m_tasks[id] \in TaskData
    BY <2>1 DEF BoardInv, Safe, TypeOK, IsTable
  <2>3. SavedTask(data).name = SavedTask(m_tasks[id]).name
    BY <2>2 DEF SavedTask, TaskData
  <2> HIDE DEF data
  <2> QED
    BY <2>1, <2>3, EditStep
<1>5. ModifyUnknownTask => Board!Close
  BY CloseStep DEF ModifyUnknownTask
<1> QED
  BY <1>1, <1>2, <1>3, <1>4, <1>5 DEF TaskCall, Board!Next

\* An instance is marked, or its mark is taken from it, in memory and in its
\* row.
LEMMA MarkStep ==
  ASSUME BoardInv, BoardInv', NEW uid \in DOMAIN m_task_instances,
         NEW data \in TaskInstanceData, WriteInstance(uid, data),
         UNCHANGED <<tasksTable, m_tasks, pc>>
  PROVE  Board!Mark
<1> DEFINE row == SavedInstance(data)
           m == MarkOf(row)
<1>1. row \in TaskInstanceData
  BY SavedInstanceType
<1>2. m \in [state : TaskStates, comment : Strings]
  <2> HIDE DEF row
  <2> QED
    BY <1>1 DEF MarkOf, TaskInstanceData
<1>3. uid \in DOMAIN instancesTable
  BY DEF BoardInv, Stored, CacheStored
<1>4. instancesTable' = [instancesTable EXCEPT ![uid] = row]
  BY <1>3 DEF WriteInstance, UpdateRow
<1>5. UNCHANGED BoardTasks /\ DOMAIN m_task_instances' = DOMAIN m_task_instances
  BY DEF BoardTasks, HeldTasks, WriteInstance
<1>6. TableMarks' = IF m = MarkOf(BlankInstance) THEN Board!Without(TableMarks, uid)
                                                 ELSE Board!With(TableMarks, uid, m)
  <2> HIDE DEF row
  <2>1. MarkedRows' = IF m = MarkOf(BlankInstance) THEN MarkedRows \ {uid}
                                                   ELSE MarkedRows \cup {uid}
    BY <1>3, <1>4 DEF MarkedRows
  <2>2. \A u \in MarkedRows' :
            MarkOf(instancesTable'[u]) = IF u = uid THEN m ELSE MarkOf(instancesTable[u])
    BY <1>4 DEF MarkedRows
  <2>3. \A u \in MarkedRows' \ {uid} : u \in MarkedRows
    BY <2>1
  <2> HIDE DEF m
  <2>4. CASE m = MarkOf(BlankInstance)
    BY <2>1, <2>2, <2>3, <2>4 DEF TableMarks, Board!Without, Board!Restrict
  <2>5. CASE m # MarkOf(BlankInstance)
    BY <2>1, <2>2, <2>3, <2>5 DEF TableMarks, Board!With
  <2> QED
    BY <2>4, <2>5
<1>7. BoardMarks = TableMarks /\ (BoardMarks = TableMarks)'
  BY MarksAreStored, PTL
<1> HIDE DEF m
<1> QED
  BY <1>2, <1>5, <1>6, <1>7 DEF Board!Mark

LEMMA InstanceCallStep == ASSUME BoardInv, BoardInv', InstanceCall PROVE Board!Mark
<1>1. PICK uid \in DOMAIN m_task_instances :
          \/ StartTask(uid) \/ SkipTask(uid) \/ FinishTask(uid) \/ SetUndone(uid)
          \/ \E comment \in Comments : SetComment(uid, comment)
  BY DEF InstanceCall
<1>2. m_task_instances[uid] \in TaskInstanceData
  BY DEF BoardInv, Safe, TypeOK, IsTable
<1>3. ASSUME NEW state \in TaskStates, SetState(uid, state) PROVE Board!Mark
  <2> DEFINE data == [m_task_instances[uid] EXCEPT !.state = state]
  <2>1. data \in TaskInstanceData
    BY <1>2 DEF TaskInstanceData
  <2>2. WriteInstance(uid, data) /\ UNCHANGED <<tasksTable, m_tasks, pc>>
    BY <1>3 DEF SetState
  <2> HIDE DEF data
  <2> QED
    BY <2>1, <2>2, MarkStep
<1>4. ASSUME NEW comment \in Comments, SetComment(uid, comment) PROVE Board!Mark
  <2> DEFINE data == [m_task_instances[uid] EXCEPT !.comment = comment]
  <2>1. data \in TaskInstanceData
    BY <1>2, StringsAssumption DEF TaskInstanceData
  <2>2. WriteInstance(uid, data) /\ UNCHANGED <<tasksTable, m_tasks, pc>>
    BY <1>4 DEF SetComment
  <2> HIDE DEF data
  <2> QED
    BY <2>1, <2>2, MarkStep
<1>5. {"NotStarted", "Started", "Finished", "Skipped"} \subseteq TaskStates
  BY DEF TaskStates
<1> QED
  BY <1>1, <1>3, <1>4, <1>5 DEF StartTask, SkipTask, FinishTask, SetUndone

\* A listing begins, or goes past a task without reading or writing a row.
LEMMA ListingStep ==
  ASSUME BoardInv, BoardInv',
         \/ ListCall
         \/ ListReturn
         \/ \E id \in TaskIds : ScanSkip(id) \/ ScanCached(id)
  PROVE  UNCHANGED Board!boardVars
<1>1. /\ pc \in {"idle", "scanning"} /\ pc' \in {"idle", "scanning"}
      /\ UNCHANGED <<m_tasks, instancesTable, m_task_instances>>
  BY DEF ListCall, GetTaskInstances, GetTaskInstancesOn, BeginListing, ListReturn,
         ScanSkip, ScanCached, Scanning, tables, memory
<1>2. UNCHANGED BoardTasks
  BY <1>1 DEF BoardTasks, HeldTasks
<1> QED
  BY <1>1, <1>2, UnseenStep

\* A listing comes to an instance that is not cached: it is inserted without
\* a mark, or shown with the mark it has.
LEMMA ScanStep ==
  ASSUME BoardInv, BoardInv', NEW id \in TaskIds,
         ScanLoad(id) \/ ScanInsert(id) \/ Fill(id)
  PROVE  Board!Show \/ UNCHANGED Board!boardVars
<1> DEFINE uid == UidOf(id, listing.date)
<1>1. /\ pc \in {"scanning", "filling"} /\ pc' \in {"scanning", "filling"}
      /\ IsCurrent(id) /\ UNCHANGED m_tasks
  BY DEF ScanLoad, ScanInsert, Fill, Scanning, memory
<1>2. id \in DOMAIN m_tasks
  BY <1>1 DEF BoardInv, Safe, LocalsOK, IsCurrent
<1>3. UNCHANGED BoardTasks /\ (pc = "clearing") = (pc' = "clearing")
  BY <1>1 DEF BoardTasks, HeldTasks
<1>4. id \in DOMAIN BoardTasks
  BY <1>1, <1>2 DEF BoardTasks, HeldTasks
<1>5. uid.id = id
  BY DEF UidOf
<1>6. ASSUME ScanLoad(id) PROVE Board!Show
  <2>1. /\ DOMAIN m_task_instances' = DOMAIN m_task_instances \cup {uid}
        /\ UNCHANGED instancesTable
    BY <1>6 DEF ScanLoad, Put, tables
  <2>2. UNCHANGED BoardMarks
    BY <2>1, MarksKept, SameRowsSameMarks
  <2> QED
    BY <1>3, <1>4, <1>5, <2>1, <2>2 DEF Board!Show
<1>7. ASSUME ScanInsert(id) PROVE UNCHANGED Board!boardVars
  <2>1. /\ uid \notin DOMAIN instancesTable
        /\ instancesTable' = Put(instancesTable, uid, BlankInstance)
        /\ UNCHANGED m_task_instances
    BY <1>7 DEF ScanInsert, memory
  <2>2. MarkedRows' = MarkedRows
    BY <2>1 DEF MarkedRows, Put
  <2>3. \A u \in MarkedRows : instancesTable'[u] = instancesTable[u]
    BY <2>1 DEF MarkedRows, Put
  <2>4. UNCHANGED TableMarks
    BY <2>2, <2>3 DEF TableMarks
  <2>5. UNCHANGED BoardMarks
    BY <2>4, MarksKept
  <2> QED
    BY <1>3, <2>1, <2>5 DEF Board!boardVars
<1>8. ASSUME Fill(id) PROVE Board!Show
  <2> DEFINE data == [instancesTable[uid] EXCEPT !.scheduled_start = InstanceStart(id)]
  <2>1. uid \in DOMAIN instancesTable
    BY <1>1, <1>8 DEF Fill, BoardInv, Safe, LocalsOK
  <2>2. /\ instancesTable' = [instancesTable EXCEPT ![uid] = SavedInstance(data)]
        /\ DOMAIN m_task_instances' = DOMAIN m_task_instances \cup {uid}
    BY <1>8, <2>1 DEF Fill, Put, UpdateRow
  <2>3. /\ instancesTable[uid] \in TaskInstanceData
        /\ SavedInstance(instancesTable[uid]) = instancesTable[uid]
    BY <2>1 DEF BoardInv, Safe, TypeOK, IsTable, Agreement, RowsSaved
  <2>4. Escape[instancesTable[uid].comment] = instancesTable[uid].comment
    BY <2>3 DEF SavedInstance, TaskInstanceData
  <2>5. /\ SavedInstance(data).state = instancesTable[uid].state
        /\ SavedInstance(data).comment = instancesTable[uid].comment
    BY <2>3, <2>4 DEF SavedInstance, TaskInstanceData
  <2>6. MarkOf(SavedInstance(data)) = MarkOf(instancesTable[uid])
    BY <2>5 DEF MarkOf
  <2> HIDE DEF data, uid
  <2>7. /\ DOMAIN instancesTable' = DOMAIN instancesTable
        /\ \A u \in DOMAIN instancesTable :
              MarkOf(instancesTable'[u]) = MarkOf(instancesTable[u])
    BY <2>2, <2>6
  <2>8. UNCHANGED TableMarks
    BY <2>7 DEF TableMarks, MarkedRows
  <2>9. UNCHANGED BoardMarks
    BY <2>8, MarksKept
  <2> QED
    BY <1>3, <1>4, <1>5, <2>2, <2>9 DEF Board!Show
<1> QED
  BY <1>6, <1>7, <1>8

\* clear, and the start of a process.
LEMMA ClearStep ==
  ASSUME BoardInv, BoardInv', ClearedInTime, Clear PROVE Board!ClearTasks
<1>1. /\ pc = "idle" /\ pc' = "clearing" /\ tasksTable' = NoRows
      /\ UNCHANGED <<instancesTable, m_task_instances>>
  BY DEF Clear, memory
<1>2. BoardTasks' = Board!Empty
  BY <1>1, NoRowsFacts DEF BoardTasks, HeldTasks, Board!Empty
<1>3. UNCHANGED BoardMarks
  BY <1>1, MarksKept, SameRowsSameMarks
<1> QED
  BY <1>1, <1>2, <1>3 DEF Board!ClearTasks, ClearedInTime

LEMMA ClearInstancesStep ==
  ASSUME BoardInv, BoardInv', ClearInstances PROVE Board!ClearMarks
<1>1. /\ pc = "clearing" /\ pc' = "idle"
      /\ m_tasks' = tasksTable /\ instancesTable' = NoRows
      /\ UNCHANGED <<tasksTable, m_task_instances>>
  BY DEF ClearInstances
<1>2. UNCHANGED BoardTasks
  BY <1>1 DEF BoardTasks, HeldTasks
<1>3. DOMAIN m_task_instances = {}
  BY <1>1 DEF BoardInv, Stored
<1>4. BoardMarks' = Board!Empty
  BY <1>1, <1>3, NoRowsFacts DEF BoardMarks, Board!Empty
<1> QED
  BY <1>1, <1>2, <1>4 DEF Board!ClearMarks

LEMMA RestartStep ==
  ASSUME BoardInv, BoardInv', Restart PROVE UNCHANGED Board!boardVars
<1>1. /\ pc = "down" /\ pc' = "idle" /\ m_tasks' = tasksTable
      /\ UNCHANGED <<tasksTable, instancesTable, m_task_instances>>
  BY DEF Restart, tables
<1>2. UNCHANGED BoardTasks
  BY <1>1 DEF BoardTasks, HeldTasks
<1> QED
  BY <1>1, <1>2, UnseenStep

LEMMA BoardStep ==
  ASSUME BoardInv, [Next]_vars, ClearedInTime
  PROVE  [Board!Next]_(Board!boardVars)
<1>0. BoardInv'
  BY BoardInvNext
<1>1. TaskCall => [Board!Next]_(Board!boardVars)
  BY <1>0, TaskCallStep
<1>2. InstanceCall => Board!Mark
  BY <1>0, InstanceCallStep
<1>3. ListCall => UNCHANGED Board!boardVars
  BY <1>0, ListingStep
<1>4. Clear => Board!ClearTasks
  BY <1>0, ClearStep
<1>5. Internal => [Board!Next]_(Board!boardVars)
  <2>1. AddTaskFill => Board!Add
    BY <1>0, AddStep
  <2>2. ASSUME NEW id \in TaskIds, Scan(id) PROVE [Board!Next]_(Board!boardVars)
    <3>1. ScanTrap(id) => Board!Close
      BY <1>0, CloseStep DEF ScanTrap
    <3>2. ScanSkip(id) \/ ScanCached(id) => UNCHANGED Board!boardVars
      BY <1>0, ListingStep
    <3>3. ScanLoad(id) \/ ScanInsert(id) \/ Fill(id)
            => Board!Show \/ UNCHANGED Board!boardVars
      BY <1>0, ScanStep
    <3> QED
      BY <2>2, <3>1, <3>2, <3>3 DEF Scan, Board!Next
  <2>3. ListReturn => UNCHANGED Board!boardVars
    BY <1>0, ListingStep
  <2>4. ClearInstances => Board!ClearMarks
    BY <1>0, ClearInstancesStep
  <2> QED
    BY <2>1, <2>2, <2>3, <2>4 DEF Internal, Board!Next
<1>6. Crash => Board!Close
  BY <1>0, CloseStep DEF Crash
<1>7. Restart => UNCHANGED Board!boardVars
  BY <1>0, RestartStep
<1>8. UNCHANGED vars => UNCHANGED Board!boardVars
  <2> SUFFICES ASSUME UNCHANGED vars PROVE UNCHANGED Board!boardVars
    OBVIOUS
  <2>1. UNCHANGED <<tasksTable, instancesTable, m_tasks, m_task_instances, pc>>
    BY DEF vars
  <2>2. UNCHANGED BoardTasks
    BY <2>1 DEF BoardTasks, HeldTasks
  <2> QED
    BY <1>0, <2>1, <2>2, UnseenStep
<1> QED
  BY <1>1, <1>2, <1>3, <1>4, <1>5, <1>6, <1>7, <1>8 DEF Next, Board!Next

LEMMA BoardInit == Init => Board!Init
<1> SUFFICES ASSUME Init PROVE Board!Init
  OBVIOUS
<1>1. /\ pc = "idle" /\ DOMAIN m_tasks = {}
      /\ DOMAIN instancesTable = {} /\ DOMAIN m_task_instances = {}
  BY NoRowsFacts DEF Init
<1>2. BoardTasks = Board!Empty
  BY <1>1 DEF BoardTasks, HeldTasks, Board!Empty
<1>3. BoardMarks = Board!Empty
  BY <1>1 DEF BoardMarks, Board!Empty
<1> QED
  BY <1>1, <1>2, <1>3 DEF Board!Init

-----------------------------------------------------------------------------

\* When clear is called before the first listing only, the tracker keeps the
\* board: the cache, the statements of a creation, the escaping, the end of
\* the process and the next start are not seen in tasks and marks.
THEOREM TrackerKeepsBoard == ASSUME ~ClearAnytime PROVE Spec => KeepsBoard
<1>1. BoardInv /\ [Next]_vars => BoardInv' /\ [Board!Next]_(Board!boardVars)
  <2>1. ClearedInTime
    BY FlagsAssumption DEF ClearedInTime, Clear
  <2> QED
    BY <2>1, BoardInvNext, BoardStep
<1> QED
  BY <1>1, BoardInvInit, BoardInit, PTL DEF Spec, KeepsBoard, Board!Spec

\* The application keeps the board, whatever the library lets clear do.
THEOREM AppKeepsBoard == AppSpec => KeepsBoard
<1>1. AppInit => BoardInv /\ Board!Init
  BY BoardInvInit, BoardInit DEF AppInit
<1>2. AppInv /\ BoardInv /\ [AppNext]_appVars
        => BoardInv' /\ [Board!Next]_(Board!boardVars)
  <2> SUFFICES ASSUME AppInv, BoardInv, [AppNext]_appVars
               PROVE  BoardInv' /\ [Board!Next]_(Board!boardVars)
    OBVIOUS
  <2>1. [Next]_vars
    BY AppStep DEF AppInv, ListInv
  <2>2. ClearedInTime
    BY ClearedEarly DEF ClearedInTime
  <2> QED
    BY <2>1, <2>2, BoardInvNext, BoardStep
<1> QED
  BY <1>1, <1>2, AppInvAlways, PTL DEF AppSpec, KeepsBoard, Board!Spec

=============================================================================
