---------------------------- MODULE TaskListModel ---------------------------
(***************************************************************************)
(* TaskListModel and the page that shows it (TaskList.qml, and the date in *)
(* Main.qml), over the tracker whose calls it makes.                       *)
(*                                                                         *)
(* A handler of the model makes one or two calls of the tracker.  While    *)
(* they run, call says what is left to do when the tracker comes back;     *)
(* "none" is the event loop.  The list is kept as the set of its rows: a   *)
(* row is a pointer to an instance, here its identifier.                   *)
(***************************************************************************)
EXTENDS TaskTracker

VARIABLES
    now,     \* system_clock::now
    m_date,  \* the time whose day is shown
    label,   \* the day whose date stands above the list
    rows,    \* m_active_task_instance_list
    call     \* where the running handler is

display == <<m_date, label, rows>>

\* The thread waits for an event: a touch, a request.
Waiting == call = "none" /\ pc = "idle"

-----------------------------------------------------------------------------
(* What is shown.                                                          *)

\* Mutant of BeginPopulate: the handler does not wait for the listing.
PopulateInBackground(t) ==
    /\ GetTaskInstances(t)
    /\ call' = "none"
    /\ UNCHANGED <<now, rows>>

\* populate, up to the return of get_task_instances.
BeginPopulate(t) ==
    /\ GetTaskInstances(t)
    /\ call' = "populate"
    /\ UNCHANGED <<now, rows>>

\* Mutant of EndPopulate: the reset of the model asks for another refresh.
EndByRefresh ==
    /\ call = "populate"
    /\ ListReturn
    /\ rows' = listing.found
    /\ call' = "refresh"
    /\ UNCHANGED <<now, m_date, label>>

\* populate, the rest: the list is replaced.
EndPopulate ==
    /\ call = "populate"
    /\ ListReturn
    /\ rows' = listing.found
    /\ call' = "none"
    /\ UNCHANGED <<now, m_date, label>>

\* Show the day of t; dateChanged sets the label.
Show(t) ==
    /\ m_date' = t
    /\ label' = DayOf(t)
    /\ BeginPopulate(t)

SetToday == Waiting /\ Show(now)

\* nextDay and previousDay, as far as the days listed go.
NextDay == Waiting /\ nextDay(m_date) \in Dates /\ Show(nextDay(m_date))
PreviousDay == Waiting /\ previousDay(m_date) \in Dates /\ Show(previousDay(m_date))

\* refresh: back to today.  dateChanged is not emitted.
Refresh ==
    /\ call = "refresh"
    /\ pc = "idle"
    /\ m_date' = now
    /\ UNCHANGED label
    /\ BeginPopulate(now)

-----------------------------------------------------------------------------
(* What the user does to a row.  The page offers Done and, held longer,    *)
(* skip on rows that are neither, undo on the others, and removal on rows  *)
(* that are neither.                                                       *)

Marked(uid) == m_task_instances[uid].state \in {"Finished", "Skipped"}

SetFinished(uid) ==
    /\ Waiting
    /\ ~Marked(uid)
    /\ FinishTask(uid)
    /\ UNCHANGED <<now, display, call>>

\* Mutant of SetSkipped: the button is there on every row.
SkipMarked(uid) ==
    /\ Waiting
    /\ SkipTask(uid)
    /\ UNCHANGED <<now, display, call>>

SetSkipped(uid) ==
    /\ Waiting
    /\ ~Marked(uid)
    /\ SkipTask(uid)
    /\ UNCHANGED <<now, display, call>>

SetUndoneRow(uid) ==
    /\ Waiting
    /\ Marked(uid)
    /\ SetUndone(uid)
    /\ UNCHANGED <<now, display, call>>

\* Mutant of RemoveTask: no refresh.
RemoveSilently(uid) ==
    /\ Waiting
    /\ ~Marked(uid)
    /\ DeleteTask(uid.id)
    /\ UNCHANGED <<now, display, call>>

\* removeTask: delete_task of the row's parent, then refresh.
RemoveTask(uid) ==
    /\ Waiting
    /\ ~Marked(uid)
    /\ DeleteTask(uid.id)
    /\ call' = "refresh"
    /\ UNCHANGED <<now, display>>

UserEvent ==
    \/ SetToday
    \/ NextDay
    \/ PreviousDay
    \/ \E uid \in rows :
          \/ SetFinished(uid)
          \/ SetSkipped(uid)
          \/ SetUndoneRow(uid)
          \/ RemoveTask(uid)

=============================================================================
