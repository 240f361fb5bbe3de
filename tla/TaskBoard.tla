----------------------------- MODULE TaskBoard ------------------------------
(***************************************************************************)
(* What the task tracker promises to those who use it: a board of tasks    *)
(* and of marks on their instances, which is there for good.               *)
(*                                                                         *)
(* There is no memory and no file here, no cache and no identifier that    *)
(* has to be looked up.  The end of the process takes the instances from   *)
(* view; what it may not do is to take a task or a mark.                   *)
(***************************************************************************)
EXTENDS Functions

CONSTANTS
    Ids,      \* of tasks
    Added,    \* the data tasks are added with
    CutOff,   \* what may be left of one whose addition was cut off
    Marks,    \* what can be noted of an instance
    NoMark    \* nothing is

VARIABLES
    tasks,    \* id -> data
    marks,    \* instance -> mark, for those of which something is noted
    shown,    \* instances that have been listed
    clearing  \* the tasks are gone, the marks will be

boardVars == <<tasks, marks, shown, clearing>>

Empty == [k \in {} |-> k]

With(f, k, v) == [x \in DOMAIN f \cup {k} |-> IF x = k THEN v ELSE f[x]]

Without(f, k) == Restrict(f, DOMAIN f \ {k})

Init ==
    /\ tasks = Empty
    /\ marks = Empty
    /\ shown = {}
    /\ clearing = FALSE

-----------------------------------------------------------------------------

\* A task comes with the data it was added with, under an id that no task
\* has; marks under that id are kept.
Add ==
    /\ \E id \in Ids \ DOMAIN tasks : \E data \in Added : tasks' = With(tasks, id, data)
    /\ UNCHANGED <<marks, shown, clearing>>

\* An edit changes one task, and not its name.
Edit ==
    /\ \E id \in DOMAIN tasks :
          /\ DOMAIN tasks' = DOMAIN tasks
          /\ tasks'[id].name = tasks[id].name
          /\ \A k \in DOMAIN tasks \ {id} : tasks'[k] = tasks[k]
    /\ UNCHANGED <<marks, shown, clearing>>

\* A task goes, and the marks on its instances may go with it or stay: nothing
\* is promised of them once there is no task.
Remove ==
    /\ \E id \in DOMAIN tasks :
          /\ tasks' = Without(tasks, id)
          /\ marks' \in {marks, Restrict(marks, {uid \in DOMAIN marks : uid.id # id})}
    /\ UNCHANGED <<shown, clearing>>

\* A listing shows an instance of a task that is on the board.
Show ==
    /\ \E uid \in shown' :
          /\ shown' = shown \cup {uid}
          /\ uid.id \in DOMAIN tasks
    /\ UNCHANGED <<tasks, marks, clearing>>

\* A mark is put on an instance that has been listed, or taken from it.
Mark ==
    /\ \E uid \in shown : \E m \in Marks :
          marks' = IF m = NoMark THEN Without(marks, uid) ELSE With(marks, uid, m)
    /\ UNCHANGED <<tasks, shown, clearing>>

\* The board is wiped before anything is shown, the tasks first.
ClearTasks ==
    /\ shown = {}
    /\ tasks' = Empty
    /\ clearing' = TRUE
    /\ UNCHANGED <<marks, shown>>

ClearMarks ==
    /\ clearing
    /\ marks' = Empty
    /\ clearing' = FALSE
    /\ UNCHANGED <<tasks, shown>>

\* The process ends, at any moment: the board stays as it is, but for a task
\* that was being added.
Close ==
    /\ \/ tasks' = tasks
       \/ \E id \in Ids \ DOMAIN tasks : \E data \in CutOff : tasks' = With(tasks, id, data)
    /\ shown' = {}
    /\ clearing' = FALSE
    /\ UNCHANGED marks

Next ==
    \/ Add
    \/ Edit
    \/ Remove
    \/ Show
    \/ Mark
    \/ ClearTasks
    \/ ClearMarks
    \/ Close

Spec == Init /\ [][Next]_boardVars

=============================================================================
