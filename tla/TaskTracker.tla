---------------------------- MODULE TaskTracker -----------------------------
(***************************************************************************)
(* tasktracker::TaskTracker and the SQLite file behind it.                 *)
(*                                                                         *)
(* Two tables are durable.  Two collections in memory are not: the tasks,  *)
(* loaded when the tracker is constructed, and a cache of the task         *)
(* instances that some listing has shown.  Every SQL statement is a        *)
(* transaction of its own, so a call that issues several is several steps, *)
(* and the process can end between any two of them.  Calls do not overlap: *)
(* the HTTP server, the list model and the user interface share one        *)
(* thread.                                                                 *)
(***************************************************************************)
EXTENDS Task, Functions, FiniteSets

CONSTANTS
    Strings,       \* names and comments that occur
    NoText,        \* the empty string
    Escape,        \* escape_quote, as a function on Strings
    MaxTaskId,     \* bound: row ids of tasks are 1..MaxTaskId
    NewTasks,      \* arguments of add_task
    Patches,       \* arguments of an edit through the HTTP interface
    Comments,      \* arguments of set_comment
    Dates,         \* times at which a listing is asked for
    BareDates,     \* those asked for as a year_month_day
    CanCrash,      \* may the process be killed
    ClearAnytime   \* may clear be called when instances are cached

TaskIds == 1..MaxTaskId

RepeatInfos == Nat

NewTask == [name : Strings, repeat_type : RepeatTypes, repeat_info : RepeatInfos,
            start_time : Tm]

\* An edit.  A negative number in a request leaves the field as it is;
\* "Keep" is the negative number of the repeat type.
Patch == [repeat_type : RepeatTypes \cup {"Keep"}, repeat_info : Int,
          scheduled_start : Int]

ASSUME StringsAssumption ==
    /\ Escape \in [Strings -> Strings]
    /\ \A s \in Strings : Escape[Escape[s]] = Escape[s]
    /\ NoText \in Strings
    /\ Escape[NoText] = NoText
    /\ Comments \subseteq Strings

ASSUME BoundsAssumption == MaxTaskId \in Nat

ASSUME ArgumentsAssumption ==
    /\ NewTasks \subseteq NewTask
    /\ Patches \subseteq Patch
    /\ BareDates \subseteq Dates
    /\ \A d \in Dates : d \in Int /\ localtime(d) \in Tm

ASSUME FlagsAssumption == CanCrash \in BOOLEAN /\ ClearAnytime \in BOOLEAN

VARIABLES
    tasksTable,        \* table TASKS: id -> row
    instancesTable,    \* table TASK_INSTANCES: uid -> row
    m_tasks,           \* tasks in memory: id -> data
    m_task_instances,  \* instances in memory: uid -> data
    pc,                \* where the running call is; "idle" between calls
    adding,            \* locals of add_task while it runs
    listing            \* locals of get_task_instances while it runs

vars == <<tasksTable, instancesTable, m_tasks, m_task_instances, pc, adding, listing>>

tables == <<tasksTable, instancesTable>>
memory == <<m_tasks, m_task_instances>>

-----------------------------------------------------------------------------
(* Rows.                                                                   *)

\* struct TaskData: the id is the key it is filed under.  The column STATE
\* is never given a value.
TaskData == [name : Strings, scheduled_start : Int, repeat_type : RepeatTypes,
             repeat_info : RepeatInfos, comment : Strings]

\* The identifier of an instance, "name-id-year-month-day": its last four
\* numbers can be told apart from the name, so equal identifiers have equal
\* parts.
Uid == [name : Strings, id : TaskIds, mon : Months, mday : 1..31]

TaskStates == {"NotStarted", "Started", "Finished", "Skipped"}

\* struct TaskInstanceData: id, parent_id and name are in the uid.
TaskInstanceData == [scheduled_start : Int, start_time : Int, finish_time : Int,
                     comment : Strings, state : TaskStates]

\* Mutant of BlankTask: a NULL repeat type is not told from a value.
UnreadTask(name) ==
    [name |-> name, scheduled_start |-> 0, repeat_type |-> "NULL",
     repeat_info |-> 0, comment |-> NoText]

\* What a SELECT makes of the NULL columns of a row just inserted.
BlankTask(name) ==
    [name |-> name, scheduled_start |-> 0, repeat_type |-> "NoRepeat",
     repeat_info |-> 0, comment |-> NoText]

BlankInstance ==
    [scheduled_start |-> 0, start_time |-> 0, finish_time |-> 0,
     comment |-> NoText, state |-> "NotStarted"]

\* The row an UPDATE leaves for data held in memory.
SavedTask(data) == [data EXCEPT !.name = Escape[@], !.comment = Escape[@]]

SavedInstance(data) == [data EXCEPT !.comment = Escape[@]]

Put(f, k, v) == [x \in DOMAIN f \cup {k} |-> IF x = k THEN v ELSE f[x]]

\* UPDATE ... WHERE id = k: no row, no effect, no error.
UpdateRow(f, k, v) == IF k \in DOMAIN f THEN [f EXCEPT ![k] = v] ELSE f

Without(f, k) == Restrict(f, DOMAIN f \ {k})

NoRows == [k \in {} |-> k]

\* INTEGER PRIMARY KEY without AUTOINCREMENT: one more than the largest id
\* in the table, so that the id of the last task is given again once that
\* task is deleted.
IsNextRowid(id) ==
    /\ \A k \in DOMAIN tasksTable : k < id
    /\ id = 1 \/ id - 1 \in DOMAIN tasksTable

-----------------------------------------------------------------------------
(* Locals of the calls that take several steps.                            *)

NoLocals == <<>>

Adding == [id : TaskIds, task : NewTasks]

Listing == [date : Tm, todo : SUBSET TaskIds, found : SUBSET Uid]

PcValues == {"down", "idle", "adding", "scanning", "filling", "clearing"}

\* Some rows, filed under some of the keys.
IsTable(f, keys, rows) ==
    /\ DOMAIN f \subseteq keys
    /\ \A k \in DOMAIN f : f[k] \in rows

TypeOK ==
    /\ IsTable(tasksTable, TaskIds, TaskData)
    /\ IsTable(instancesTable, Uid, TaskInstanceData)
    /\ IsTable(m_tasks, TaskIds, TaskData)
    /\ IsTable(m_task_instances, Uid, TaskInstanceData)
    /\ pc \in PcValues
    /\ IF pc = "adding" THEN adding \in Adding ELSE adding = NoLocals
    /\ IF pc \in {"scanning", "filling"} THEN listing \in Listing
                                         ELSE listing = NoLocals

\* A new database file: the constructor makes the tables and loads no task.
Init ==
    /\ tasksTable = NoRows
    /\ instancesTable = NoRows
    /\ m_tasks = NoRows
    /\ m_task_instances = NoRows
    /\ pc = "idle"
    /\ adding = NoLocals
    /\ listing = NoLocals

-----------------------------------------------------------------------------
(* Tasks.                                                                  *)

\* Mutant of AddTask: create_task does not escape the name.
AddTaskUnescaped(task) ==
    /\ pc = "idle"
    /\ \E id \in TaskIds :
          /\ IsNextRowid(id)
          /\ tasksTable' = Put(tasksTable, id, BlankTask(task.name))
          /\ adding' = [id |-> id, task |-> task]
    /\ pc' = "adding"
    /\ UNCHANGED <<instancesTable, memory, listing>>

\* add_task, first statement: INSERT of a row that has only a name.
AddTask(task) ==
    /\ pc = "idle"
    /\ \E id \in TaskIds :
          /\ IsNextRowid(id)
          /\ tasksTable' = Put(tasksTable, id, BlankTask(Escape[task.name]))
          /\ adding' = [id |-> id, task |-> task]
    /\ pc' = "adding"
    /\ UNCHANGED <<instancesTable, memory, listing>>

\* add_task, the rest: the row is read back, completed, UPDATEd and kept.
AddTaskFill ==
    /\ pc = "adding"
    /\ LET id == adding.id
           data == [tasksTable[id] EXCEPT
                        !.repeat_type = adding.task.repeat_type,
                        !.repeat_info = adding.task.repeat_info,
                        !.scheduled_start = mktime(adding.task.start_time)]
       IN  /\ tasksTable' = UpdateRow(tasksTable, id, SavedTask(data))
           /\ m_tasks' = Put(m_tasks, id, data)
    /\ pc' = "idle"
    /\ adding' = NoLocals
    /\ UNCHANGED <<instancesTable, m_task_instances, listing>>

\* Mutants of DeleteTask: the task stays in memory ...
DeleteRowOnly(id) ==
    /\ pc = "idle"
    /\ id \in DOMAIN tasksTable
    /\ tasksTable' = Without(tasksTable, id)
    /\ UNCHANGED <<instancesTable, memory, pc, adding, listing>>

\* ... or the row stays in the file ...
DeleteMemoryOnly(id) ==
    /\ pc = "idle"
    /\ id \in DOMAIN tasksTable
    /\ m_tasks' = Without(m_tasks, id)
    /\ UNCHANGED <<tables, m_task_instances, pc, adding, listing>>

OfOthers(f, id) == Restrict(f, {uid \in DOMAIN f : uid.id # id})

\* ... or its instances go with it, their cached copies too.
DeleteWithInstances(id) ==
    /\ pc = "idle"
    /\ id \in DOMAIN tasksTable
    /\ tasksTable' = Without(tasksTable, id)
    /\ m_tasks' = Without(m_tasks, id)
    /\ instancesTable' = OfOthers(instancesTable, id)
    /\ m_task_instances' = OfOthers(m_task_instances, id)
    /\ UNCHANGED <<pc, adding, listing>>

\* delete_task of an id that is in the table; any other id returns early.
\* The instances of the task stay, in the table and in memory.
DeleteTask(id) ==
    /\ pc = "idle"
    /\ id \in DOMAIN tasksTable
    /\ tasksTable' = Without(tasksTable, id)
    /\ m_tasks' = Without(m_tasks, id)
    /\ UNCHANGED <<instancesTable, m_task_instances, pc, adding, listing>>

Patched(data, patch) ==
    [data EXCEPT
        !.repeat_info = IF patch.repeat_info > 0 THEN patch.repeat_info ELSE @,
        !.repeat_type = IF patch.repeat_type # "Keep" THEN patch.repeat_type ELSE @,
        !.scheduled_start =
            IF patch.scheduled_start >= 0 THEN patch.scheduled_start ELSE @]

\* TaskServer::modifyTask: the task is changed in memory, then saved.
ModifyTask(id, patch) ==
    /\ pc = "idle"
    /\ id \in DOMAIN m_tasks
    /\ LET data == Patched(m_tasks[id], patch)
       IN  /\ m_tasks' = [m_tasks EXCEPT ![id] = data]
           /\ tasksTable' = UpdateRow(tasksTable, id, SavedTask(data))
    /\ UNCHANGED <<instancesTable, m_task_instances, pc, adding, listing>>

\* The process ends, and with it everything it kept in memory.
Die ==
    /\ pc' = "down"
    /\ m_tasks' = NoRows
    /\ m_task_instances' = NoRows
    /\ adding' = NoLocals
    /\ listing' = NoLocals

\* TaskServer::modifyTask of an id get_task does not find: the null pointer
\* it returns is used.
ModifyUnknownTask ==
    /\ pc = "idle"
    /\ \E id \in TaskIds : id \notin DOMAIN m_tasks
    /\ Die
    /\ UNCHANGED tables

\* Task::set_comment: memory keeps the comment as given.
SetTaskComment(id, comment) ==
    /\ pc = "idle"
    /\ id \in DOMAIN m_tasks
    /\ LET data == [m_tasks[id] EXCEPT !.comment = comment]
       IN  /\ m_tasks' = [m_tasks EXCEPT ![id] = data]
           /\ tasksTable' = UpdateRow(tasksTable, id, SavedTask(data))
    /\ UNCHANGED <<instancesTable, m_task_instances, pc, adding, listing>>

-----------------------------------------------------------------------------
(* Task instances, through a pointer an earlier listing returned.          *)

\* Mutant of WriteInstance: no UPDATE.
WriteMemoryOnly(uid, data) ==
    /\ m_task_instances' = [m_task_instances EXCEPT ![uid] = data]
    /\ UNCHANGED instancesTable

WriteInstance(uid, data) ==
    /\ m_task_instances' = [m_task_instances EXCEPT ![uid] = data]
    /\ instancesTable' = UpdateRow(instancesTable, uid, SavedInstance(data))

\* start_task, skip_task, finish_task and set_undone: the state alone.
SetState(uid, state) ==
    /\ pc = "idle"
    /\ uid \in DOMAIN m_task_instances
    /\ WriteInstance(uid, [m_task_instances[uid] EXCEPT !.state = state])
    /\ UNCHANGED <<tasksTable, m_tasks, pc, adding, listing>>

StartTask(uid) == SetState(uid, "Started")
SkipTask(uid) == SetState(uid, "Skipped")
FinishTask(uid) == SetState(uid, "Finished")
SetUndone(uid) == SetState(uid, "NotStarted")

\* TaskInstance::set_comment.
SetComment(uid, comment) ==
    /\ pc = "idle"
    /\ uid \in DOMAIN m_task_instances
    /\ WriteInstance(uid, [m_task_instances[uid] EXCEPT !.comment = comment])
    /\ UNCHANGED <<tasksTable, m_tasks, pc, adding, listing>>

-----------------------------------------------------------------------------
(* The listing of one day.                                                 *)

\* m_create_identifier.
UidOf(id, date) ==
    [name |-> m_tasks[id].name, id |-> id, mon |-> date.mon, mday |-> date.mday]

BeginListing(date) ==
    /\ pc = "idle"
    /\ listing' = [date |-> date, todo |-> DOMAIN m_tasks, found |-> {}]
    /\ pc' = "scanning"
    /\ UNCHANGED <<tables, memory, adding>>

\* get_task_instances(tm), called with localtime of some moment.
GetTaskInstances(t) == BeginListing(localtime(t))

\* get_task_instances(year_month_day), for the date it is at t.
GetTaskInstancesOn(t) ==
    BeginListing(FromYmd(localtime(t).mon, localtime(t).mday))

\* The task the loop has come to: ids are in the order of m_tasks.
IsCurrent(id) ==
    /\ id \in listing.todo
    /\ \A k \in listing.todo : id <= k

Scanning(id) == pc = "scanning" /\ IsCurrent(id)

Due(id) == /\ ~Traps(m_tasks[id], listing.date)
           /\ Occurs(m_tasks[id], listing.date)

\* Mutant of Advance: the loop stays at the task.
AdvanceFound(id, uids) == listing' = [listing EXCEPT !.found = @ \cup uids]

\* The task is done with, and its instance, if it has one, is in the result.
Advance(id, uids) ==
    listing' = [listing EXCEPT !.todo = @ \ {id}, !.found = @ \cup uids]

\* occurs divides by an interval of zero.
ScanTrap(id) ==
    /\ Scanning(id)
    /\ Traps(m_tasks[id], listing.date)
    /\ Die
    /\ UNCHANGED tables

\* Mutant of ScanSkip: the loop does not go on.
ScanStay(id) ==
    /\ Scanning(id)
    /\ ~Traps(m_tasks[id], listing.date)
    /\ ~Occurs(m_tasks[id], listing.date)
    /\ UNCHANGED vars

ScanSkip(id) ==
    /\ Scanning(id)
    /\ ~Traps(m_tasks[id], listing.date)
    /\ ~Occurs(m_tasks[id], listing.date)
    /\ Advance(id, {})
    /\ UNCHANGED <<tables, memory, pc, adding>>

ScanCached(id) ==
    /\ Scanning(id)
    /\ Due(id)
    /\ UidOf(id, listing.date) \in DOMAIN m_task_instances
    /\ Advance(id, {UidOf(id, listing.date)})
    /\ UNCHANGED <<tables, memory, pc, adding>>

\* Mutant of ScanLoad: the instance is cached and not returned.
LoadUnlisted(id) ==
    LET uid == UidOf(id, listing.date)
    IN  /\ Scanning(id)
        /\ Due(id)
        /\ uid \notin DOMAIN m_task_instances
        /\ uid \in DOMAIN instancesTable
        /\ m_task_instances' = Put(m_task_instances, uid, instancesTable[uid])
        /\ Advance(id, {})
        /\ UNCHANGED <<tables, m_tasks, pc, adding>>

\* m_create_task_instance, the instance being in the table already.
ScanLoad(id) ==
    LET uid == UidOf(id, listing.date)
    IN  /\ Scanning(id)
        /\ Due(id)
        /\ uid \notin DOMAIN m_task_instances
        /\ uid \in DOMAIN instancesTable
        /\ m_task_instances' = Put(m_task_instances, uid, instancesTable[uid])
        /\ Advance(id, {uid})
        /\ UNCHANGED <<tables, m_tasks, pc, adding>>

\* Mutant of ScanInsert: a row that is there is replaced.
InsertOrReplace(id) ==
    LET uid == UidOf(id, listing.date)
    IN  /\ Scanning(id)
        /\ Due(id)
        /\ uid \notin DOMAIN m_task_instances
        /\ instancesTable' = Put(instancesTable, uid, BlankInstance)
        /\ pc' = "filling"
        /\ UNCHANGED <<tasksTable, memory, adding, listing>>

\* m_create_task_instance, first statement for a new instance: INSERT.  The
\* name is not escaped here; NamesQuoted is what makes the statement succeed.
ScanInsert(id) ==
    LET uid == UidOf(id, listing.date)
    IN  /\ Scanning(id)
        /\ Due(id)
        /\ uid \notin DOMAIN m_task_instances
        /\ uid \notin DOMAIN instancesTable
        /\ instancesTable' = Put(instancesTable, uid, BlankInstance)
        /\ pc' = "filling"
        /\ UNCHANGED <<tasksTable, memory, adding, listing>>

\* Mutant of InstanceStart: the first start of the task.
FirstStart(id) == m_tasks[id].scheduled_start

\* The start of a new instance: the day asked for, at the hour of the task.
InstanceStart(id) ==
    mktime([listing.date EXCEPT !.hour = ScheduledHour(m_tasks[id])])

\* Mutant of Fill: the start is set in memory alone.
FillMemoryOnly(id) ==
    LET uid == UidOf(id, listing.date)
        data == [instancesTable[uid] EXCEPT !.scheduled_start = InstanceStart(id)]
    IN  /\ pc = "filling"
        /\ IsCurrent(id)
        /\ m_task_instances' = Put(m_task_instances, uid, data)
        /\ Advance(id, {uid})
        /\ pc' = "scanning"
        /\ UNCHANGED <<tables, m_tasks, adding>>

\* m_create_task_instance, the rest: UPDATE, SELECT, insert in the cache.
Fill(id) ==
    LET uid == UidOf(id, listing.date)
        data == [instancesTable[uid] EXCEPT !.scheduled_start = InstanceStart(id)]
    IN  /\ pc = "filling"
        /\ IsCurrent(id)
        /\ instancesTable' = UpdateRow(instancesTable, uid, SavedInstance(data))
        /\ m_task_instances' = Put(m_task_instances, uid, instancesTable'[uid])
        /\ Advance(id, {uid})
        /\ pc' = "scanning"
        /\ UNCHANGED <<tasksTable, m_tasks, adding>>

\* The loop is over; the result is sorted and returned.
ListReturn ==
    /\ pc = "scanning"
    /\ listing.todo = {}
    /\ pc' = "idle"
    /\ listing' = NoLocals
    /\ UNCHANGED <<tables, memory, adding>>

Scan(id) == \/ ScanTrap(id) \/ ScanSkip(id) \/ ScanCached(id)
            \/ ScanLoad(id) \/ ScanInsert(id) \/ Fill(id)

-----------------------------------------------------------------------------
(* The whole database.                                                     *)

\* clear, first table.  The application calls it before its first listing
\* only; the library does not say so.
Clear ==
    /\ pc = "idle"
    /\ ClearAnytime \/ DOMAIN m_task_instances = {}
    /\ tasksTable' = NoRows
    /\ pc' = "clearing"
    /\ UNCHANGED <<instancesTable, memory, adding, listing>>

\* clear, second table, and m_load_tasks.  m_task_instances is not cleared.
ClearInstances ==
    /\ pc = "clearing"
    /\ instancesTable' = NoRows
    /\ m_tasks' = tasksTable
    /\ pc' = "idle"
    /\ UNCHANGED <<tasksTable, m_task_instances, adding, listing>>

\* The process is killed, between two statements or between two calls.
Crash ==
    /\ CanCrash
    /\ pc # "down"
    /\ Die
    /\ UNCHANGED tables

\* The constructor: the tables are there, the tasks are loaded.
Restart ==
    /\ pc = "down"
    /\ m_tasks' = tasksTable
    /\ pc' = "idle"
    /\ UNCHANGED <<tables, m_task_instances, adding, listing>>

-----------------------------------------------------------------------------

TaskCall ==
    \/ \E task \in NewTasks : AddTask(task)
    \/ \E id \in TaskIds :
          \/ DeleteTask(id)
          \/ \E patch \in Patches : ModifyTask(id, patch)
          \/ \E comment \in Comments : SetTaskComment(id, comment)
    \/ ModifyUnknownTask

InstanceCall ==
    \E uid \in DOMAIN m_task_instances :
       \/ StartTask(uid)
       \/ SkipTask(uid)
       \/ FinishTask(uid)
       \/ SetUndone(uid)
       \/ \E comment \in Comments : SetComment(uid, comment)

ListCall ==
    \/ \E t \in Dates : GetTaskInstances(t)
    \/ \E t \in BareDates : GetTaskInstancesOn(t)

\* The steps of a call that has begun.
Internal ==
    \/ AddTaskFill
    \/ \E id \in TaskIds : Scan(id)
    \/ ListReturn
    \/ ClearInstances

Next ==
    \/ TaskCall
    \/ InstanceCall
    \/ ListCall
    \/ Clear
    \/ Internal
    \/ Crash
    \/ Restart

Spec == Init /\ [][Next]_vars

-----------------------------------------------------------------------------
(* Safety: what holds between calls, and during them.                      *)

SameTasks ==
    /\ DOMAIN m_tasks = DOMAIN tasksTable
    /\ \A id \in DOMAIN m_tasks : tasksTable[id] = SavedTask(m_tasks[id])

\* The locals of a running call refer to data that is there: the row add_task
\* has inserted, the tasks a listing has yet to come to, and the instance row
\* a listing has inserted for a task that is due and not cached yet.
LocalsOK ==
    /\ pc = "adding" => adding.id \in DOMAIN tasksTable
    /\ pc \in {"scanning", "filling"} => listing.todo \subseteq DOMAIN m_tasks
    /\ pc = "filling" =>
          \A id \in TaskIds :
              IsCurrent(id) =>
                  /\ Due(id)
                  /\ UidOf(id, listing.date) \in DOMAIN instancesTable
                  /\ UidOf(id, listing.date) \notin DOMAIN m_task_instances

\* The tasks in memory are the tasks in the database, whenever a call can be
\* made or a listing is under way: no edit, deletion, crash or restart makes
\* the tracker list by data that is not the data on disk.  While add_task
\* runs only the row it has inserted is not in memory yet.
TasksAgree ==
    /\ pc \in {"idle", "scanning", "filling"} => SameTasks
    /\ pc = "adding" =>
          /\ DOMAIN m_tasks = DOMAIN tasksTable \ {adding.id}
          /\ \A id \in DOMAIN m_tasks : tasksTable[id] = SavedTask(m_tasks[id])

\* An instance that is both cached and in the table is the same in both: the
\* cache is written through by every operation on an instance, and a listing
\* never writes a row whose instance is cached.
CacheCoherent ==
    \A uid \in DOMAIN m_task_instances \cap DOMAIN instancesTable :
        instancesTable[uid] = SavedInstance(m_task_instances[uid])

\* An instance the user sees has a row that will keep what the user does to
\* it: "task->id must exist" of TaskInstanceDatabase::update_task.  So it is
\* when clear is only called before the first listing.
CacheStored == DOMAIN m_task_instances \subseteq DOMAIN instancesTable

\* Every name a statement is built from has gone through escape_quote, also
\* the one that m_create_task_instance puts in its INSERT as it is.
NamesQuoted ==
    /\ \A id \in DOMAIN tasksTable : Escape[tasksTable[id].name] = tasksTable[id].name
    /\ \A id \in DOMAIN m_tasks : Escape[m_tasks[id].name] = m_tasks[id].name

\* A listing is exact: of the tasks it has come past it has found the ones
\* that occur on its day, each with the one instance of that day, and no
\* instance of a deleted or renamed task; and all it has found it can point
\* to in memory.
ListingExact ==
    pc \in {"scanning", "filling"} =>
        /\ listing.found =
              {UidOf(id, listing.date) : id \in {k \in DOMAIN m_tasks \ listing.todo :
                                                    Due(k)}}
        /\ listing.found \subseteq DOMAIN m_task_instances

\* As long as the process lives, a pointer to an instance that a listing has
\* returned stays good: the list model keeps such pointers across edits and
\* deletions of tasks made through the HTTP server.
InstancePointersStayValid ==
    [][pc # "down" /\ pc' # "down" =>
          DOMAIN m_task_instances \subseteq DOMAIN m_task_instances']_vars

\* The status and the comment of an instance in the database change only in
\* step with the cached instance the user acts on, or by clear: they survive
\* listings, restarts and the edits of the task, as long as there is the task.
\* What its removal does to them is left open: the library keeps the rows,
\* and a comment of the list model has it remove them.
StatusKept ==
    [][\A uid \in DOMAIN instancesTable :
          uid.id \in DOMAIN tasksTable \cap DOMAIN tasksTable' =>
          \/ pc = "clearing"
          \/ /\ uid \in DOMAIN instancesTable'
             /\ instancesTable'[uid].state = instancesTable[uid].state
             /\ instancesTable'[uid].comment = instancesTable[uid].comment
          \/ /\ uid \in DOMAIN m_task_instances \cap DOMAIN m_task_instances'
             /\ m_task_instances'[uid] # m_task_instances[uid]]_vars

\* An instance starts on the day it was listed for, which is the day in its
\* identifier; rows that are still blank aside.
StartsOnItsDay ==
    \A uid \in DOMAIN instancesTable :
        LET start == localtime(instancesTable[uid].scheduled_start)
        IN  instancesTable[uid].scheduled_start # 0 =>
                start.mon = uid.mon /\ start.mday = uid.mday

\* Only the listing that inserted a row sees it without its start: "when the
\* task was scheduled to start" is known of every other instance.
InstancesAreFilled ==
    \A uid \in DOMAIN instancesTable :
        instancesTable[uid].scheduled_start = 0 =>
            /\ pc = "filling"
            /\ \E id \in listing.todo : IsCurrent(id) /\ uid = UidOf(id, listing.date)

\* The most steps that the running call can still take: one for the second
\* half of add_task and of clear, and for a listing two for each task it has
\* yet to come to, one INSERT and one UPDATE, and its return.
StepsLeft ==
    CASE pc \in {"adding", "clearing"} -> 1
      [] pc = "scanning" -> 2 * Cardinality(listing.todo) + 1
      [] pc = "filling" -> 2 * Cardinality(listing.todo)
      [] OTHER -> 0

\* No call goes on for ever: every step there is while a call runs is one
\* step less of it, and nothing that happens in between makes work for it.
CallsAreBounded ==
    [][pc \notin {"idle", "down"} => StepsLeft' \in 0..(StepsLeft - 1)]_vars

\* A call that begins returns or ends the process; in particular a listing
\* comes to the end of the tasks.
EveryCallReturns == pc \notin {"idle", "down"} ~> pc \in {"idle", "down"}

-----------------------------------------------------------------------------
(* What comments in the sources say and the code does not do.              *)

\* get_task_instances returns the "list of TaskInstance objects sorted by
\* the start time" (tasktracklib.h): no task stops it.
ListingNeverTraps ==
    pc = "scanning" => \A id \in listing.todo : ~Traps(m_tasks[id], listing.date)

=============================================================================
