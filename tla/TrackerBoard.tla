---------------------------- MODULE TrackerBoard ----------------------------
(***************************************************************************)
(* The board that a tracker keeps: the refinement mapping of TaskTracker   *)
(* to TaskBoard.                                                           *)
(***************************************************************************)
EXTENDS TaskTracker

\* The tasks on the board are those in memory, as an UPDATE saves them, or
\* those of the file when there is no process that has loaded them.
HeldTasks == IF pc \in {"down", "clearing"} THEN tasksTable ELSE m_tasks

BoardTasks == [id \in DOMAIN HeldTasks |-> SavedTask(HeldTasks[id])]

\* An instance is what the user sees of it, or would see once it is listed.
BoardInstance(uid) ==
    IF uid \in DOMAIN m_task_instances THEN SavedInstance(m_task_instances[uid])
                                       ELSE instancesTable[uid]

MarkOf(data) == [state |-> data.state, comment |-> data.comment]

BoardMarks ==
    [uid \in {u \in DOMAIN m_task_instances \cup DOMAIN instancesTable :
                  MarkOf(BoardInstance(u)) # MarkOf(BlankInstance)}
        |-> MarkOf(BoardInstance(uid))]

\* The task add_task has been asked for.
AsAdded(task) ==
    [name |-> Escape[task.name], scheduled_start |-> mktime(task.start_time),
     repeat_type |-> task.repeat_type, repeat_info |-> task.repeat_info,
     comment |-> NoText]

Board == INSTANCE TaskBoard WITH
    Ids      <- TaskIds,
    Added    <- {AsAdded(task) : task \in NewTasks},
    CutOff   <- {BlankTask(Escape[task.name]) : task \in NewTasks},
    Marks    <- [state : TaskStates, comment : Strings],
    NoMark   <- MarkOf(BlankInstance),
    tasks    <- BoardTasks,
    marks    <- BoardMarks,
    shown    <- DOMAIN m_task_instances,
    clearing <- pc = "clearing"

\* The tracker keeps the board: through the cache, the two statements of
\* each creation, the escaping, listings in any order, the end of the process
\* between any two statements and the next start, tasks and marks are what
\* the calls made them.
KeepsBoard == Board!Spec

=============================================================================
