--------------------------- MODULE TrackerFaults ----------------------------
(***************************************************************************)
(* A tracker whose statements may throw DatabaseErr, for a caller that     *)
(* catches it and goes on: the call ends where it stands, and what it has  *)
(* done by then stays done.                                                *)
(*                                                                         *)
(* A statement that throws before its call has changed anything leaves no  *)
(* trace and is no step here: all of delete_task, add_task up to its       *)
(* INSERT, the constructor, after which there is no tracker to call.  In   *)
(* the application nobody catches: there an exception is the end of the    *)
(* process, a Crash of TaskTracker.                                        *)
(***************************************************************************)
EXTENDS TaskTracker

CONSTANT SetStates  \* bound: the states that instances are set to

ASSUME SetStatesAssumption == SetStates \subseteq TaskStates

VARIABLES
    unsavedTasks,      \* tasks whose last change is in memory alone
    unsavedInstances,  \* instances whose last change is in memory alone
    interrupted,       \* uids of rows that a listing inserted and did not fill
    halfCleared        \* the tasks in memory are those of before a clear that threw

history == <<unsavedTasks, unsavedInstances, interrupted, halfCleared>>

faultVars == <<vars, history>>

FaultInit ==
    /\ Init
    /\ unsavedTasks = {}
    /\ unsavedInstances = {}
    /\ interrupted = {}
    /\ halfCleared = FALSE

-----------------------------------------------------------------------------
(* Calls that throw.                                                       *)

\* add_task: its SELECT or its UPDATE.  The row has a name and no more.
AddTaskThrows ==
    /\ pc = "adding"
    /\ pc' = "idle"
    /\ adding' = NoLocals
    /\ UNCHANGED <<tables, memory, listing, history>>

KeepUnsaved(id, data) ==
    /\ m_tasks' = [m_tasks EXCEPT ![id] = data]
    /\ unsavedTasks' = unsavedTasks \cup {id}
    /\ UNCHANGED <<tables, m_task_instances, pc, adding, listing,
                   unsavedInstances, interrupted, halfCleared>>

ModifyTaskThrows(id, patch) ==
    /\ pc = "idle"
    /\ id \in DOMAIN m_tasks
    /\ KeepUnsaved(id, Patched(m_tasks[id], patch))

SetTaskCommentThrows(id, comment) ==
    /\ pc = "idle"
    /\ id \in DOMAIN m_tasks
    /\ KeepUnsaved(id, [m_tasks[id] EXCEPT !.comment = comment])

\* A change of an instance: the UPDATE of WriteInstance.
WriteThrows(uid, data) ==
    /\ pc = "idle"
    /\ uid \in DOMAIN m_task_instances
    /\ m_task_instances' = [m_task_instances EXCEPT ![uid] = data]
    /\ unsavedInstances' = unsavedInstances \cup {uid}
    /\ UNCHANGED <<tables, m_tasks, pc, adding, listing,
                   unsavedTasks, interrupted, halfCleared>>

SetStateThrows(uid, state) ==
    WriteThrows(uid, [m_task_instances[uid] EXCEPT !.state = state])

SetCommentThrows(uid, comment) ==
    WriteThrows(uid, [m_task_instances[uid] EXCEPT !.comment = comment])

EndListing ==
    /\ pc' = "idle"
    /\ listing' = NoLocals
    /\ UNCHANGED <<tasksTable, memory, adding,
                   unsavedTasks, unsavedInstances, halfCleared>>

\* A listing: a SELECT, or the INSERT.  What is cached by then stays cached.
ScanThrows ==
    /\ \E id \in TaskIds :
          /\ Scanning(id)
          /\ Due(id)
          /\ UidOf(id, listing.date) \notin DOMAIN m_task_instances
    /\ EndListing
    /\ UNCHANGED <<instancesTable, interrupted>>

\* A listing: a statement of Fill before its UPDATE is done, or the SELECT
\* after it.
FillThrows(id) ==
    LET uid == UidOf(id, listing.date)
    IN  /\ pc = "filling"
        /\ IsCurrent(id)
        /\ EndListing
        /\ \/ /\ interrupted' = interrupted \cup {uid}
              /\ UNCHANGED instancesTable
           \/ /\ instancesTable' =
                     [instancesTable EXCEPT ![uid].scheduled_start = InstanceStart(id)]
              /\ UNCHANGED interrupted

\* clear, once its first DROP is done: the CREATE after it, a statement for the
\* second table, or the CREATE of that one.  The tasks are loaded last, so those
\* in memory stay.  (When the loading throws memory is empty already, as
\* ClearInstances leaves it.)  A table that is missing is here an empty one, of
\* which each statement may throw.
ClearThrows ==
    /\ pc = "clearing"
    /\ instancesTable' \in {instancesTable, NoRows}
    /\ pc' = "idle"
    /\ interrupted' = interrupted \cap DOMAIN instancesTable'
    /\ halfCleared' = TRUE
    /\ UNCHANGED <<tasksTable, memory, adding, listing, unsavedTasks, unsavedInstances>>

Throws ==
    \/ AddTaskThrows
    \/ ClearThrows
    \/ \E id \in TaskIds :
          \/ \E patch \in Patches : ModifyTaskThrows(id, patch)
          \/ \E comment \in Comments : SetTaskCommentThrows(id, comment)
          \/ FillThrows(id)
    \/ \E uid \in DOMAIN m_task_instances :
          \/ \E state \in SetStates : SetStateThrows(uid, state)
          \/ \E comment \in Comments : SetCommentThrows(uid, comment)
    \/ ScanThrows

-----------------------------------------------------------------------------
(* Calls that do not, and what they make of the history.                   *)

\* The UPDATE of a task or an instance saves all of it, and with it every
\* change that was not saved before.
Settled(ids, uids) ==
    /\ unsavedTasks' = unsavedTasks \ ids
    /\ unsavedInstances' = unsavedInstances \ uids
    /\ UNCHANGED <<interrupted, halfCleared>>

TaskStep ==
    \E id \in TaskIds :
        /\ \/ DeleteTask(id)
           \/ \E patch \in Patches : ModifyTask(id, patch)
           \/ \E comment \in Comments : SetTaskComment(id, comment)
        /\ Settled({id}, {})

InstanceStep ==
    \E uid \in DOMAIN m_task_instances :
        /\ \/ \E state \in SetStates : SetState(uid, state)
           \/ \E comment \in Comments : SetComment(uid, comment)
        /\ Settled({}, {uid})

\* Bound: no task is added between a clear that threw and the next clear or
\* start.  Its id would be that of a task in memory (see AddedIsNew), and here
\* tasks are filed by id.
PlainStep ==
    /\ \/ ~halfCleared /\ \E task \in NewTasks : AddTask(task)
       \/ ListCall
       \/ Clear
       \/ AddTaskFill
       \/ \E id \in TaskIds : ScanSkip(id) \/ ScanCached(id) \/ ScanLoad(id)
                              \/ ScanInsert(id) \/ Fill(id)
       \/ ListReturn
       \/ Restart
    /\ UNCHANGED history

ClearStep ==
    /\ ClearInstances
    /\ unsavedTasks' = {}
    /\ unsavedInstances' = {}
    /\ interrupted' = {}
    /\ halfCleared' = FALSE

\* With the process end the changes that were not saved.
DeathStep ==
    /\ \/ ModifyUnknownTask
       \/ \E id \in TaskIds : ScanTrap(id)
       \/ Crash
    /\ unsavedTasks' = {}
    /\ unsavedInstances' = {}
    /\ interrupted' = interrupted \cup
           {UidOf(id, listing.date) : id \in {k \in TaskIds : pc = "filling" /\ IsCurrent(k)}}
    /\ halfCleared' = FALSE

FaultNext ==
    \/ TaskStep
    \/ InstanceStep
    \/ PlainStep
    \/ ClearStep
    \/ DeathStep
    \/ Throws

FaultSpec == FaultInit /\ [][FaultNext]_faultVars

\* A call that has begun goes on: nothing in it waits for anything, and if no
\* statement throws its next step is taken.  No statement has to throw, users
\* need not make calls, and a process that ended need not be started again.
FairFaultSpec == FaultSpec /\ WF_faultVars(FaultNext /\ Internal)

-----------------------------------------------------------------------------

FaultTypeOK ==
    /\ TypeOK
    /\ unsavedTasks \subseteq DOMAIN m_tasks
    /\ unsavedInstances \subseteq DOMAIN m_task_instances
    /\ interrupted \subseteq DOMAIN instancesTable
    /\ halfCleared \in BOOLEAN

\* Memory and file differ only where the last change of a task or an
\* instance threw: making any change to it again saves all of it, no listing
\* and no change of another one loses it, and a restart makes both agree.  A
\* clear that threw parts the tasks of both, and no instance.
OnlyUnsavedDiffer ==
    pc # "clearing" =>
        /\ ~halfCleared =>
              \A id \in DOMAIN m_tasks \ unsavedTasks :
                  id \in DOMAIN tasksTable /\ tasksTable[id] = SavedTask(m_tasks[id])
        /\ \A uid \in DOMAIN m_task_instances \ unsavedInstances :
               /\ uid \in DOMAIN instancesTable
               /\ instancesTable[uid] = SavedInstance(m_task_instances[uid])

\* An add_task that threw leaves at most a row that is still blank: a task in
\* the file alone is never due on a day that its caller asked for, and each
\* retry leaves one more.
HalfAddedIsBlank ==
    pc \notin {"down", "clearing"} =>
        \A id \in DOMAIN tasksTable \ DOMAIN m_tasks :
            \E name \in Strings : tasksTable[id] = BlankTask(name)

\* A task's id is a "unique id" (Task::get_id, task.h), in memory too: the id
\* that SQLite gives a new row is that of no task in memory, although memory
\* and file no longer have the same tasks.  Of a clear that threw this is not
\* claimed, and is not so: the new table begins with id 1 and memory has kept
\* its tasks, until a clear or a start that does not throw.
AddedIsNew == pc = "adding" /\ ~halfCleared => adding.id \notin DOMAIN m_tasks

\* A row without a start is that of a listing that was interrupted while it
\* made that row: no other order of calls, exceptions and restarts leaves one.
OnlyInterruptedAreBlank ==
    \A uid \in DOMAIN instancesTable :
        instancesTable[uid].scheduled_start = 0 =>
            \/ uid \in interrupted
            \/ pc = "filling"
               /\ \E id \in TaskIds : IsCurrent(id) /\ uid = UidOf(id, listing.date)

\* The step neither edits nor removes the task of an instance that starts at
\* the hour of its task.
TaskKeepsHour(uid, start) ==
    /\ uid.id \in DOMAIN m_tasks \cap DOMAIN m_tasks'
    /\ m_tasks'[uid.id] = m_tasks[uid.id]
    /\ ScheduledHour(m_tasks[uid.id]) = localtime(start).hour

\* The start of an instance is set once: later listings, changes of it and of
\* other tasks, and exceptions do not move it, in the file or in memory, and
\* only clear removes the row.  This is said of instances that
\* "start at the same time as the original one" (task_data.h).  What an edit
\* of the hour should do to them is left open: that comment has them follow,
\* and the code leaves them where they are.
StartsNeverMove ==
    [][/\ \A uid \in DOMAIN instancesTable :
              TaskKeepsHour(uid, instancesTable[uid].scheduled_start) =>
              \/ pc = "clearing"
              \/ /\ uid \in DOMAIN instancesTable'
                 /\ instancesTable[uid].scheduled_start
                        \in {0, instancesTable'[uid].scheduled_start}
       /\ \A uid \in DOMAIN m_task_instances \cap DOMAIN m_task_instances' :
              TaskKeepsHour(uid, m_task_instances[uid].scheduled_start) =>
              m_task_instances'[uid].scheduled_start
                  = m_task_instances[uid].scheduled_start]_faultVars

=============================================================================
