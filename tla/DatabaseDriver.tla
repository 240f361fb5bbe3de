--------------------------- MODULE DatabaseDriver ---------------------------
(***************************************************************************)
(* The two drivers of a tracker, for the tables of tasks and of instances  *)
(* in one file.  A call opens a handle, executes a statement or two and    *)
(* closes the handle; whatever fails throws.                               *)
(*                                                                         *)
(* SQLite is external: a statement is a transaction and may fail at any    *)
(* time, because the file is locked or the disk is full.  An address that  *)
(* was freed can be given again.  Another program may insert tasks into    *)
(* the same file.                                                          *)
(***************************************************************************)
EXTENDS Integers, Sequences, Functions

CONSTANTS
    Drivers,  \* the DatabaseDriver objects
    MaxKey,   \* bound: the ids of rows are 1..MaxKey
    Values,   \* contents of rows
    Theirs,   \* the content of the rows of the other program
    Handles   \* bound: addresses of sqlite3 objects

ASSUME DriversAssumption == Drivers \subseteq {"tasks", "instances"}

ASSUME KeysAssumption == MaxKey \in Nat

VARIABLES
    made,    \* the drivers whose table is there
    rows,    \* by driver: the rows of its table
    handle,  \* by address: free, open, or left by an open that failed
    m_db,    \* by driver: the address it was given last
    call     \* the call that runs

vars == <<made, rows, handle, m_db, call>>

Keys == 1..MaxKey

Null == 0
NoId == 0

ASSUME HandlesAssumption == Null \notin Handles

Statements == {"CREATE", "DROP", "INSERT", "ROWID", "UPDATE", "DELETE", "SELECT"}

\* Mutant of Program: clear does not make the table again.
ProgramDropOnly(driver, op) ==
    CASE op = "init" -> <<"open", "CREATE", "close">>
      [] op = "clear" -> <<"open", "DROP", "close">>
      [] op = "create_task" -> <<"open", "INSERT", "ROWID", "close">>
      [] op = "update_task" -> <<"open", "UPDATE", "close">>
      [] op = "delete_task" -> <<"open", "DELETE", "close">>
      [] op = "get_task" -> <<"open", "SELECT", "close">>

\* The steps of an operation.  create_task is given the key of an instance;
\* that of a task is chosen by SQLite and asked for.
Program(driver, op) ==
    CASE op = "init" -> <<"open", "CREATE", "close">>
      [] op = "clear" -> <<"open", "DROP", "close", "open", "CREATE", "close">>
      [] op = "create_task" ->
            IF driver = "tasks" THEN <<"open", "INSERT", "ROWID", "close">>
                                ELSE <<"open", "INSERT", "close">>
      [] op = "update_task" -> <<"open", "UPDATE", "close">>
      [] op = "delete_task" -> <<"open", "DELETE", "close">>
      [] op = "get_task" -> <<"open", "SELECT", "close">>

NoCall == <<>>

Running == call # NoCall

Steps == Program(call.driver, call.op)

\* The running call has come to this step.
At(step) == Running /\ call.at <= Len(Steps) /\ Steps[call.at] = step

\* How far a call is for the tracker: its first statement stands second, and
\* the last one of clear fifth.
Phase ==
    IF call.at <= 2 THEN "asked"
    ELSE IF call.op = "clear" /\ call.at <= 5 THEN "cleared" ELSE "done"

\* The running call without its handle and its statements.  From its INSERT
\* on, the row create_task has made is the one that it will give the id of.
Request ==
    IF Running
    THEN [driver |-> call.driver, op |-> call.op, key |-> call.key, value |-> call.value,
          phase |-> Phase, id |-> IF call.at <= 3 THEN call.rowid ELSE call.id]
    ELSE NoCall

Store == INSTANCE DriverStore WITH request <- Request

\* A call: what it was given, the step it has come to, the rowid its handle
\* has inserted last, and the id it has read.
Call == [driver : Drivers, op : Store!Ops, key : Keys, value : Values, at : 1..7,
         rowid : Keys \cup {NoId}, id : Keys \cup {NoId}]

\* Some rows, filed under some of the keys.
IsTable(f) ==
    /\ DOMAIN f \subseteq Keys
    /\ f \in [DOMAIN f -> Values \cup {Theirs}]

TypeOK ==
    /\ made \subseteq Drivers
    /\ DOMAIN rows = Drivers
    /\ \A d \in Drivers : IsTable(rows[d])
    /\ handle \in [Handles -> {"free", "open", "failed"}]
    /\ m_db \in [Drivers -> Handles \cup {Null}]
    /\ Running => call \in Call

\* A new file, or one that a tracker has left.
Init ==
    /\ made \in {{}, Drivers}
    /\ rows = [d \in Drivers |-> Store!NoRows]
    /\ handle = [h \in Handles |-> "free"]
    /\ m_db = [d \in Drivers |-> Null]
    /\ call = NoCall

-----------------------------------------------------------------------------
(* One step of a call.                                                     *)

Begin(driver, op, key, value) ==
    /\ ~Running
    /\ call' = [driver |-> driver, op |-> op, key |-> key, value |-> value, at |-> 1,
                rowid |-> NoId, id |-> NoId]
    /\ UNCHANGED <<made, rows, handle, m_db>>

Advance == call' = [call EXCEPT !.at = @ + 1]

\* An exception leaves the call where it is, for a caller that catches it.
Throw == call' = NoCall

\* m_open_db.
Open ==
    /\ At("open")
    /\ \E h \in Handles :
          /\ handle[h] = "free"
          /\ handle' = [handle EXCEPT ![h] = "open"]
          /\ m_db' = [m_db EXCEPT ![call.driver] = h]
    /\ call' = [call EXCEPT !.at = @ + 1, !.rowid = NoId]
    /\ UNCHANGED <<made, rows>>

\* m_open_db, sqlite3_open failing: what it was given is not closed, unless
\* there was no memory for it at all.
OpenFails ==
    /\ At("open")
    /\ \/ \E h \in Handles :
             /\ handle[h] = "free"
             /\ handle' = [handle EXCEPT ![h] = "failed"]
             /\ m_db' = [m_db EXCEPT ![call.driver] = h]
       \/ /\ m_db' = [m_db EXCEPT ![call.driver] = Null]
          /\ UNCHANGED handle
    /\ Throw
    /\ UNCHANGED <<made, rows>>

\* m_close_db.  m_db keeps the address.
Release == handle' = IF m_db[call.driver] = Null THEN handle
                     ELSE [handle EXCEPT ![m_db[call.driver]] = "free"]

Close ==
    /\ At("close")
    /\ Release
    /\ Advance
    /\ UNCHANGED <<made, rows, m_db>>

Return ==
    /\ Running
    /\ call.at > Len(Steps)
    /\ call' = NoCall
    /\ UNCHANGED <<made, rows, handle, m_db>>

\* Mutant of StatementFails: the error is reported and the call goes on.
FailAndGoOn ==
    /\ \E s \in Statements : At(s)
    /\ Release
    /\ Advance
    /\ UNCHANGED <<made, rows, m_db>>

\* m_execute, sqlite3_exec failing.
StatementFails ==
    /\ \E s \in Statements : At(s)
    /\ Release
    /\ Throw
    /\ UNCHANGED <<made, rows, m_db>>

-----------------------------------------------------------------------------
(* m_execute, the statement succeeding.                                    *)

\* Any statement but CREATE and DROP, with the rows it leaves.
Execute(newRows) ==
    /\ call.driver \in made
    /\ rows' = [rows EXCEPT ![call.driver] = newRows]
    /\ UNCHANGED <<made, handle, m_db>>

\* m_make_table: CREATE TABLE IF NOT EXISTS.
Create ==
    /\ At("CREATE")
    /\ made' = made \cup {call.driver}
    /\ Advance
    /\ UNCHANGED <<rows, handle, m_db>>

Drop ==
    /\ At("DROP")
    /\ call.driver \in made
    /\ made' = made \ {call.driver}
    /\ rows' = [rows EXCEPT ![call.driver] = Store!NoRows]
    /\ Advance
    /\ UNCHANGED <<handle, m_db>>

InsertTask ==
    /\ At("INSERT")
    /\ call.driver = "tasks"
    /\ \E k \in Keys :
          /\ Store!IsNextRowid(k)
          /\ Execute(Store!Put(rows["tasks"], k, call.value))
          /\ call' = [call EXCEPT !.at = @ + 1, !.rowid = k]

\* A second row under one key is an error.
InsertInstance ==
    /\ At("INSERT")
    /\ call.driver = "instances"
    /\ call.key \notin DOMAIN rows["instances"]
    /\ Execute(Store!Put(rows["instances"], call.key, call.value))
    /\ Advance

\* Mutant of LastInsertRowid: the last row of the table is taken for it.
LargestId ==
    /\ At("ROWID")
    /\ \E k \in DOMAIN rows["tasks"] :
          /\ \A x \in DOMAIN rows["tasks"] : x <= k
          /\ call' = [call EXCEPT !.at = @ + 1, !.id = k]
    /\ UNCHANGED <<made, rows, handle, m_db>>

\* SELECT last_insert_rowid(), of this connection.
LastInsertRowid ==
    /\ At("ROWID")
    /\ call' = [call EXCEPT !.at = @ + 1, !.id = call.rowid]
    /\ UNCHANGED <<made, rows, handle, m_db>>

Update ==
    /\ At("UPDATE")
    /\ Execute(IF call.key \in DOMAIN rows[call.driver]
               THEN [rows[call.driver] EXCEPT ![call.key] = call.value]
               ELSE rows[call.driver])
    /\ Advance

\* Mutant of Delete: the row is emptied.
DeleteContent ==
    /\ At("DELETE")
    /\ call.key \in DOMAIN rows[call.driver]
    /\ Execute([rows[call.driver] EXCEPT ![call.key] = "NULL"])
    /\ Advance

Delete ==
    /\ At("DELETE")
    /\ Execute(Restrict(rows[call.driver], DOMAIN rows[call.driver] \ {call.key}))
    /\ Advance

Select ==
    /\ At("SELECT")
    /\ Execute(rows[call.driver])
    /\ Advance

\* The other program.
OtherInserts ==
    /\ "tasks" \in made
    /\ \E k \in Keys :
          /\ Store!IsNextRowid(k)
          /\ rows' = [rows EXCEPT !["tasks"] = Store!Put(rows["tasks"], k, Theirs)]
    /\ UNCHANGED <<made, handle, m_db, call>>

-----------------------------------------------------------------------------

Statement ==
    \/ Create
    \/ Drop
    \/ InsertTask
    \/ InsertInstance
    \/ LastInsertRowid
    \/ Update
    \/ Delete
    \/ Select

Next ==
    \/ \E d \in Drivers, op \in Store!Ops, k \in Keys, v \in Values : Begin(d, op, k, v)
    \/ Open
    \/ OpenFails
    \/ Statement
    \/ StatementFails
    \/ Close
    \/ Return
    \/ OtherInserts

Spec == Init /\ [][Next]_vars

-----------------------------------------------------------------------------

\* The call has opened a handle and has not come to the open that follows.
Holding ==
    /\ Running
    /\ call.at \in 2..Len(Steps)
    /\ Steps[call.at] # "open"

\* Every statement and every close gets a handle that is open, and no handle
\* is open that the running call does not hold: across errors, exceptions and
\* addresses given again, each is closed once and none is used afterwards,
\* although m_db is never reset.
HandleOfCall ==
    /\ Holding => m_db[call.driver] # Null /\ handle[m_db[call.driver]] = "open"
    /\ \A h \in Handles : handle[h] = "open" => Holding /\ m_db[call.driver] = h

\* The id that create_task returns is that of the row it has inserted, "unique
\* database ID of the task", also when another program has inserted one since.
OwnId ==
    Running /\ call.id # NoId =>
        /\ call.id \in DOMAIN rows["tasks"]
        /\ rows["tasks"][call.id] = call.value

\* A table that a clear has dropped and failed to make again is never taken
\* for an empty one: the calls on it throw until it is made.
ReturnsWithTable ==
    Running /\ call.at > Len(Steps) => call.driver \in made

\* For the tracker a call is one step: it happens all at once between its
\* beginning and its return, or not at all if it throws before, and clear
\* alone happens in two.  The id that create_task returns is chosen in that
\* step.  So it is whichever statement fails, and whatever another program
\* inserts between the statements.
KeepsStore == Store!Spec

=============================================================================
