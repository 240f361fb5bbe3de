----------------------------- MODULE DriverStore -----------------------------
(***************************************************************************)
(* What the two drivers promise their tracker: a call is asked for, takes  *)
(* effect at one moment, and returns.  It may throw at any time, then      *)
(* either all of it has happened or nothing.  Only clear has two moments:  *)
(* between them its table is not there.                                    *)
(*                                                                         *)
(* Handles and statements are not seen here.  DatabaseDriver implements    *)
(* this, and TaskTracker takes a call for the step in which it takes       *)
(* effect.                                                                 *)
(***************************************************************************)
EXTENDS Integers, Functions

CONSTANTS
    Drivers,  \* "tasks", "instances"
    Keys,     \* ids of rows
    Values,   \* contents of rows
    Theirs    \* the content of the rows of another program

VARIABLES
    made,    \* the drivers whose table is there
    rows,    \* by driver: the rows of its table
    request  \* the call that runs: what was asked, how far it is, its answer

storeVars == <<made, rows, request>>

NoRows == [k \in {} |-> k]
NoId == 0
NoRequest == <<>>

Init ==
    /\ made \in {{}, Drivers}
    /\ rows = [d \in Drivers |-> NoRows]
    /\ request = NoRequest

-----------------------------------------------------------------------------
(* The life of a call.                                                     *)

Ask(driver, op, key, value) ==
    /\ request = NoRequest
    /\ request' = [driver |-> driver, op |-> op, key |-> key, value |-> value,
                   phase |-> "asked", id |-> NoId]
    /\ UNCHANGED <<made, rows>>

Asked(driver, op) ==
    /\ request # NoRequest
    /\ request.phase = "asked"
    /\ request.driver = driver
    /\ request.op = op

\* The call has happened.
Done == request' = [request EXCEPT !.phase = "done"]

Return ==
    /\ request # NoRequest
    /\ request.phase = "done"
    /\ request' = NoRequest
    /\ UNCHANGED <<made, rows>>

Throw ==
    /\ request # NoRequest
    /\ request' = NoRequest
    /\ UNCHANGED <<made, rows>>

-----------------------------------------------------------------------------
(* The moment in which it takes effect.                                    *)

Put(f, k, v) == [x \in DOMAIN f \cup {k} |-> IF x = k THEN v ELSE f[x]]

\* INTEGER PRIMARY KEY without AUTOINCREMENT.
IsNextRowid(k) ==
    /\ \A x \in DOMAIN rows["tasks"] : x < k
    /\ k = 1 \/ k - 1 \in DOMAIN rows["tasks"]

\* A call that needs the table leaves these rows.
Becomes(driver, newRows) ==
    /\ driver \in made
    /\ rows' = [rows EXCEPT ![driver] = newRows]
    /\ UNCHANGED made

MakeTable(driver) ==
    /\ Asked(driver, "init")
    /\ made' = made \cup {driver}
    /\ Done
    /\ UNCHANGED rows

ClearRows(driver) ==
    /\ Asked(driver, "clear")
    /\ driver \in made
    /\ made' = made \ {driver}
    /\ rows' = [rows EXCEPT ![driver] = NoRows]
    /\ request' = [request EXCEPT !.phase = "cleared"]

MakeAgain(driver) ==
    /\ request # NoRequest
    /\ request.driver = driver
    /\ request.phase = "cleared"
    /\ made' = made \cup {driver}
    /\ Done
    /\ UNCHANGED rows

\* The answer is the id of the new row.
CreateTask ==
    /\ Asked("tasks", "create_task")
    /\ \E k \in Keys :
          /\ IsNextRowid(k)
          /\ Becomes("tasks", Put(rows["tasks"], k, request.value))
          /\ request' = [request EXCEPT !.phase = "done", !.id = k]

CreateInstance ==
    /\ Asked("instances", "create_task")
    /\ request.key \notin DOMAIN rows["instances"]
    /\ Becomes("instances", Put(rows["instances"], request.key, request.value))
    /\ Done

UpdateTask(driver) ==
    /\ Asked(driver, "update_task")
    /\ Becomes(driver, [k \in DOMAIN rows[driver] |->
                           IF k = request.key THEN request.value ELSE rows[driver][k]])
    /\ Done

DeleteTask(driver) ==
    /\ Asked(driver, "delete_task")
    /\ Becomes(driver, Restrict(rows[driver], DOMAIN rows[driver] \ {request.key}))
    /\ Done

GetTask(driver) ==
    /\ Asked(driver, "get_task")
    /\ Becomes(driver, rows[driver])
    /\ Done

\* Another program, at any time.
OtherInserts ==
    /\ "tasks" \in made
    /\ \E k \in Keys :
          /\ IsNextRowid(k)
          /\ rows' = [rows EXCEPT !["tasks"] = Put(rows["tasks"], k, Theirs)]
    /\ UNCHANGED <<made, request>>

-----------------------------------------------------------------------------

Ops == {"init", "clear", "create_task", "update_task", "delete_task", "get_task"}

TakesEffect ==
    \/ CreateTask
    \/ CreateInstance
    \/ \E driver \in Drivers :
          \/ MakeTable(driver)
          \/ ClearRows(driver)
          \/ MakeAgain(driver)
          \/ UpdateTask(driver)
          \/ DeleteTask(driver)
          \/ GetTask(driver)

Next ==
    \/ \E d \in Drivers, op \in Ops, k \in Keys, v \in Values : Ask(d, op, k, v)
    \/ TakesEffect
    \/ Return
    \/ Throw
    \/ OtherInserts

Spec == Init /\ [][Next]_storeVars

=============================================================================
