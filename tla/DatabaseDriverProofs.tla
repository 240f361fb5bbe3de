------------------------ MODULE DatabaseDriverProofs ------------------------
(***************************************************************************)
(* The handles and the tables of the drivers, for any rows, any number of  *)
(* addresses and any statements failing.                                   *)
(***************************************************************************)
EXTENDS DatabaseDriver, TLAPS

\* What the programs have in common.
LEMMA ProgramShape ==
    ASSUME NEW d, NEW op \in Store!Ops
    PROVE  LET p == Program(d, op)
           IN  /\ Len(p) \in 3..6
               /\ p[1] = "open"
               /\ \A i \in 1..Len(p) :
                     /\ p[i] \in Statements \cup {"open", "close"}
                     /\ p[i] = "open" => i < Len(p) /\ p[i + 1] # "open"
                     /\ p[i] \in Statements => i < Len(p) /\ p[i + 1] # "open"
                     /\ p[i] = "close" => i = Len(p) \/ p[i + 1] = "open"
<1> USE DEF Program, Statements
<1>1. CASE op = "init" BY <1>1
<1>2. CASE op = "clear" BY <1>2
<1>3. CASE op = "create_task"
  <2>1. CASE d = "tasks" BY <1>3, <2>1
  <2>2. CASE d # "tasks" BY <1>3, <2>2
  <2> QED BY <2>1, <2>2
<1>4. CASE op = "update_task" BY <1>4
<1>5. CASE op = "delete_task" BY <1>5
<1>6. CASE op = "get_task" BY <1>6
<1> QED BY <1>1, <1>2, <1>3, <1>4, <1>5, <1>6 DEF Store!Ops

\* Where the statements stand that the tables depend on.
LEMMA ProgramStatements ==
    ASSUME NEW d, NEW op \in Store!Ops
    PROVE  LET p == Program(d, op)
           IN  /\ op = "clear" => p[2] = "DROP" /\ p[5] = "CREATE" /\ Len(p) = 6
               /\ op # "clear" => Len(p) < 5 /\ p[2] \in Statements \ {"DROP"}
               /\ \A i \in 1..Len(p) :
                     /\ p[i] = "open" => i = 1 \/ op = "clear"
                     /\ p[i] = "DROP" => op = "clear" /\ i = 2
                     /\ p[i] = "CREATE" => (op = "clear" /\ i = 5) \/ (op = "init" /\ i = 2)
                     /\ i > 2 /\ op # "clear" => p[i] \in {"ROWID", "close"}
                     /\ p[i] \in {"UPDATE", "DELETE", "SELECT", "INSERT"} => i = 2
                     /\ p[i] = "INSERT" => op = "create_task"
                     /\ p[i] \in {"UPDATE", "DELETE"} => op # "create_task"
                     /\ p[i] = "ROWID" => op = "create_task" /\ d = "tasks" /\ i = 3
<1> USE DEF Program, Statements
<1>1. CASE op = "init" BY <1>1
<1>2. CASE op = "clear"
  <2>1. Program(d, op) = <<"open", "DROP", "close", "open", "CREATE", "close">>
    BY <1>2
  <2> DEFINE p == Program(d, op)
  <2> HIDE DEF Program
  <2>2. /\ Len(p) = 6
        /\ p[1] = "open" /\ p[2] = "DROP" /\ p[3] = "close"
        /\ p[4] = "open" /\ p[5] = "CREATE" /\ p[6] = "close"
    BY <2>1
  <2>3. \A i \in 1..6 : i = 1 \/ i = 2 \/ i = 3 \/ i = 4 \/ i = 5 \/ i = 6
    OBVIOUS
  <2> HIDE DEF p
  <2>4. \A i \in 1..6 : /\ p[i] = "DROP" => i = 2
                        /\ p[i] = "CREATE" => i = 5
                        /\ p[i] \notin {"UPDATE", "DELETE", "SELECT", "INSERT", "ROWID"}
    BY <2>2, <2>3
  <2> QED BY <1>2, <2>2, <2>4 DEF p
<1>3. CASE op = "create_task"
  <2>1. CASE d = "tasks" BY <1>3, <2>1
  <2>2. CASE d # "tasks" BY <1>3, <2>2
  <2> QED BY <2>1, <2>2
<1>4. CASE op = "update_task" BY <1>4
<1>5. CASE op = "delete_task" BY <1>5
<1>6. CASE op = "get_task" BY <1>6
<1> QED BY <1>1, <1>2, <1>3, <1>4, <1>5, <1>6 DEF Store!Ops

LEMMA CallsAreRecords == \A c \in Call : c # NoCall
<1> SUFFICES ASSUME NEW c \in Call PROVE c # NoCall
    OBVIOUS
<1>1. DOMAIN c # {}
  BY DEF Call
<1>2. DOMAIN NoCall = {}
  BY DEF NoCall
<1> QED BY <1>1, <1>2

-----------------------------------------------------------------------------
(* Types.                                                                  *)

\* What a step of a running call can do to the rows.
LEMMA TablesStep ==
    ASSUME NEW d \in Drivers, NEW f, IsTable(f), TypeOK
    PROVE  /\ IsTable(Store!NoRows)
           /\ DOMAIN [rows EXCEPT ![d] = f] = Drivers
           /\ \A e \in Drivers : IsTable([rows EXCEPT ![d] = f][e])
BY DEF TypeOK, IsTable, Store!NoRows

LEMMA PutIsTable ==
    ASSUME NEW f, IsTable(f), NEW k \in Keys, NEW v \in Values \cup {Theirs}
    PROVE  IsTable(Store!Put(f, k, v))
BY DEF IsTable, Store!Put

\* A call that has come to a step can go on by one.
LEMMA Room ==
    ASSUME TypeOK, Running, call.at <= Len(Steps)
    PROVE  call.at + 1 \in 1..7
<1>1. /\ call \in Call
      /\ call.op \in Store!Ops
      /\ call.at \in 1..7
  BY DEF TypeOK, Call
<1>2. Len(Steps) \in 3..6
  BY <1>1, ProgramShape DEF Steps
<1>3. ASSUME NEW a \in 1..7, NEW n \in 3..6, a <= n PROVE a + 1 \in 1..7
  BY <1>3
<1> HIDE DEF Steps
<1> QED BY <1>1, <1>2, <1>3

LEMMA TypeStep == TypeOK /\ [Next]_vars => TypeOK'
<1> SUFFICES ASSUME TypeOK, [Next]_vars PROVE TypeOK'
    OBVIOUS
<1>c. Running => call \in Call /\ call.driver \in Drivers /\ call.op \in Store!Ops
                 /\ call.key \in Keys /\ call.value \in Values
  BY DEF TypeOK, Call
<1>a. ASSUME Running, call.at <= Len(Steps), Advance
      PROVE  call' \in Call
  BY <1>a, <1>c, Room DEF Advance, Call
<1>r. ASSUME NEW d \in Drivers, NEW f, IsTable(f), rows' = [rows EXCEPT ![d] = f]
      PROVE  DOMAIN rows' = Drivers /\ \A e \in Drivers : IsTable(rows[e])'
  BY <1>r, TablesStep DEF IsTable
<1>h. Running /\ Release => handle' \in [Handles -> {"free", "open", "failed"}]
  BY <1>c DEF TypeOK, Release
<1>1. ASSUME NEW d \in Drivers, NEW op \in Store!Ops, NEW k \in Keys, NEW v \in Values,
             Begin(d, op, k, v)
      PROVE  TypeOK'
  <2>1. call' \in Call
    BY <1>1 DEF Begin, Call
  <2> QED BY <1>1, <2>1 DEF Begin, TypeOK, IsTable
<1>2. CASE Open
  <2>1. call' \in Call
    BY <1>2, <1>c, Room DEF Open, At, Call
  <2>2. handle' \in [Handles -> {"free", "open", "failed"}]
    BY <1>2 DEF Open, TypeOK
  <2>3. m_db' \in [Drivers -> Handles \cup {Null}]
    BY <1>2 DEF Open, TypeOK
  <2> QED BY <1>2, <2>1, <2>2, <2>3 DEF Open, TypeOK, IsTable
<1>3. CASE OpenFails
  <2>1. ~Running'
    BY <1>3 DEF OpenFails, Throw, Running
  <2>2. handle' \in [Handles -> {"free", "open", "failed"}]
    BY <1>3 DEF OpenFails, TypeOK
  <2>3. m_db' \in [Drivers -> Handles \cup {Null}]
    BY <1>3 DEF OpenFails, TypeOK
  <2> QED BY <1>3, <2>1, <2>2, <2>3 DEF OpenFails, TypeOK, IsTable
<1>4. CASE Statement
  <2>s. Running /\ call.at <= Len(Steps)
    BY <1>4 DEF Statement, Create, Drop, InsertTask, InsertInstance, LastInsertRowid,
                Update, Delete, Select, At
  <2>t. IsTable(rows[call.driver])
    BY <2>s, <1>c DEF TypeOK
  <2>e. ASSUME NEW f, IsTable(f), Execute(f)
        PROVE  /\ made' = made /\ handle' = handle /\ m_db' = m_db
               /\ DOMAIN rows' = Drivers /\ \A e \in Drivers : IsTable(rows[e])'
    <3>1. rows' = [rows EXCEPT ![call.driver] = f]
      BY <2>e DEF Execute
    <3>2. DOMAIN rows' = Drivers /\ \A e \in Drivers : IsTable(rows[e])'
      BY <3>1, <2>e, <1>r, <1>c, <2>s
    <3> QED BY <2>e, <3>2 DEF Execute
  <2>1. CASE Create
    <3>1. call' \in Call
      BY <2>1, <2>s, <1>a DEF Create
    <3> QED BY <2>1, <2>s, <1>c, <3>1 DEF Create, TypeOK, IsTable
  <2>2. CASE Drop
    <3>1. call' \in Call
      BY <2>2, <2>s, <1>a DEF Drop
    <3>2. IsTable(Store!NoRows)
      BY DEF IsTable, Store!NoRows
    <3>3. DOMAIN rows' = Drivers /\ \A e \in Drivers : IsTable(rows[e])'
      BY <2>2, <2>s, <1>c, <1>r, <3>2 DEF Drop
    <3> QED BY <2>2, <3>1, <3>3 DEF Drop, TypeOK
  <2>3. CASE InsertTask
    <3>1. PICK k \in Keys : /\ Execute(Store!Put(rows["tasks"], k, call.value))
                            /\ call' = [call EXCEPT !.at = @ + 1, !.rowid = k]
      BY <2>3 DEF InsertTask
    <3>2. IsTable(Store!Put(rows["tasks"], k, call.value))
      BY <2>3, <2>s, <2>t, <1>c, PutIsTable DEF InsertTask
    <3>3. call' \in Call
      BY <3>1, <2>s, <1>c, Room DEF Call
    <3> QED BY <3>1, <3>2, <3>3, <2>e DEF TypeOK
  <2>4. CASE InsertInstance
    <3>1. Execute(Store!Put(rows["instances"], call.key, call.value))
      BY <2>4 DEF InsertInstance
    <3>2. IsTable(Store!Put(rows["instances"], call.key, call.value))
      BY <2>4, <2>s, <2>t, <1>c, PutIsTable DEF InsertInstance
    <3>3. call' \in Call
      BY <2>4, <2>s, <1>a DEF InsertInstance
    <3> QED BY <3>1, <3>2, <3>3, <2>e DEF TypeOK
  <2>5. CASE LastInsertRowid
    <3>1. call' \in Call
      BY <2>5, <2>s, <1>c, Room DEF LastInsertRowid, Call
    <3> QED BY <2>5, <3>1 DEF LastInsertRowid, TypeOK, IsTable
  <2>6. CASE Update
    <3> DEFINE f == IF call.key \in DOMAIN rows[call.driver]
                    THEN [rows[call.driver] EXCEPT ![call.key] = call.value]
                    ELSE rows[call.driver]
    <3>1. Execute(f)
      BY <2>6 DEF Update
    <3>2. IsTable(f)
      BY <2>t, <2>s, <1>c DEF IsTable
    <3>3. call' \in Call
      BY <2>6, <2>s, <1>a DEF Update
    <3> HIDE DEF f
    <3> QED BY <3>1, <3>2, <3>3, <2>e DEF TypeOK
  <2>7. CASE Delete
    <3> DEFINE f == Restrict(rows[call.driver], DOMAIN rows[call.driver] \ {call.key})
    <3>1. Execute(f)
      BY <2>7 DEF Delete
    <3>2. IsTable(f)
      BY <2>t DEF IsTable, Restrict
    <3>3. call' \in Call
      BY <2>7, <2>s, <1>a DEF Delete
    <3> HIDE DEF f
    <3> QED BY <3>1, <3>2, <3>3, <2>e DEF TypeOK
  <2>8. CASE Select
    <3>1. Execute(rows[call.driver])
      BY <2>8 DEF Select
    <3>3. call' \in Call
      BY <2>8, <2>s, <1>a DEF Select
    <3> QED BY <3>1, <2>t, <3>3, <2>e DEF TypeOK
  <2> QED BY <1>4, <2>1, <2>2, <2>3, <2>4, <2>5, <2>6, <2>7, <2>8 DEF Statement
<1>5. CASE StatementFails
  <2>1. ~Running' /\ Running /\ Release
    BY <1>5 DEF StatementFails, Throw, Running, At
  <2> QED BY <1>5, <2>1, <1>h DEF StatementFails, TypeOK, IsTable
<1>6. CASE Close
  <2>1. Running /\ Release /\ call.at <= Len(Steps) /\ Advance
    BY <1>6 DEF Close, At
  <2>2. call' \in Call
    BY <2>1, <1>a
  <2> QED BY <1>6, <2>1, <2>2, <1>h DEF Close, TypeOK, IsTable
<1>7. CASE Return
  <2>1. ~Running'
    BY <1>7 DEF Return, Running
  <2> QED BY <1>7, <2>1 DEF Return, TypeOK, IsTable
<1>8. CASE OtherInserts
  <2>1. PICK k \in Keys : rows' = [rows EXCEPT !["tasks"] = Store!Put(rows["tasks"], k, Theirs)]
    BY <1>8 DEF OtherInserts
  <2>2. "tasks" \in Drivers
    BY <1>8 DEF OtherInserts, TypeOK
  <2>3. IsTable(Store!Put(rows["tasks"], k, Theirs))
    BY <2>2, PutIsTable DEF TypeOK
  <2>4. DOMAIN rows' = Drivers /\ \A e \in Drivers : IsTable(rows[e])'
    BY <2>1, <2>2, <2>3, <1>r
  <2> QED BY <1>8, <2>4 DEF OtherInserts, TypeOK, Running
<1>9. CASE UNCHANGED vars
  BY <1>9 DEF vars, TypeOK, IsTable, Running
<1> QED BY <1>1, <1>2, <1>3, <1>4, <1>5, <1>6, <1>7, <1>8, <1>9 DEF Next

LEMMA TypeInit == Init => TypeOK
BY DEF Init, TypeOK, IsTable, Store!NoRows, Running

\* The rows, the handles and the running call are of the kinds declared for
\* them, whatever fails.
THEOREM DriverTypes == Spec => []TypeOK
BY TypeInit, TypeStep, PTL DEF Spec

-----------------------------------------------------------------------------
(* Handles.                                                                *)

\* The running call goes on to the next place of its program.
GoesOn ==
    /\ call' \in Call
    /\ call'.driver = call.driver
    /\ call'.op = call.op
    /\ call'.at = call.at + 1

LEMMA CallShape ==
    ASSUME TypeOK, Running
    PROVE  /\ call \in Call
           /\ call.at \in 1..7
           /\ Len(Steps) \in 3..6
           /\ Steps[1] = "open"
           /\ \A i \in 1..Len(Steps) :
                 /\ Steps[i] = "open" => i < Len(Steps) /\ Steps[i + 1] # "open"
                 /\ Steps[i] \in Statements => i < Len(Steps) /\ Steps[i + 1] # "open"
                 /\ Steps[i] = "close" => i = Len(Steps) \/ Steps[i + 1] = "open"
<1>1. call \in Call /\ call.op \in Store!Ops /\ call.at \in 1..7
  BY DEF TypeOK, Call
<1> QED BY <1>1, ProgramShape DEF Steps

\* What a call holds before and after each kind of step.
LEMMA HoldingAcross ==
    ASSUME TypeOK, Running
    PROVE  /\ At("open") => ~Holding
           /\ At("open") /\ GoesOn => Holding'
           /\ (\E s \in Statements : At(s)) => Holding
           /\ (\E s \in Statements : At(s)) /\ GoesOn => Holding'
           /\ At("close") => Holding
           /\ At("close") /\ GoesOn => ~Holding'
<1> DEFINE p == Steps
           n == Len(Steps)
           a == call.at
<1>1. /\ a \in 1..7 /\ n \in 3..6 /\ p[1] = "open"
      /\ \A i \in 1..n :
            /\ p[i] = "open" => i < n /\ p[i + 1] # "open"
            /\ p[i] \in Statements => i < n /\ p[i + 1] # "open"
            /\ p[i] = "close" => i = n \/ p[i + 1] = "open"
  BY CallShape
<1>2. GoesOn => Running' /\ Steps' = p /\ Len(Steps)' = n /\ call'.at = a + 1
  BY CallsAreRecords DEF GoesOn, Running, Steps
<1>3. "open" \notin Statements /\ "close" \notin Statements
  BY DEF Statements
<1>4. \A s : At(s) <=> a <= n /\ p[a] = s
  BY DEF At
<1>5. Holding <=> a \in 2..n /\ p[a] # "open"
  BY DEF Holding
<1>6. GoesOn => (Holding' <=> a + 1 \in 2..n /\ p[a + 1] # "open")
  BY <1>2 DEF Holding
<1> HIDE DEF p, n, a
<1>7. At("open") => ~Holding
  BY <1>4, <1>5
<1>8. At("open") => a + 1 \in 2..n /\ p[a + 1] # "open"
  BY <1>1, <1>4
<1>9. ASSUME NEW s \in Statements, At(s)
      PROVE  a \in 2..n /\ p[a] # "open" /\ a + 1 \in 2..n /\ p[a + 1] # "open"
  BY <1>9, <1>1, <1>3, <1>4
<1>10. At("close") => a \in 2..n /\ p[a] # "open"
  BY <1>1, <1>4
<1>11. At("close") => ~(a + 1 \in 2..n /\ p[a + 1] # "open")
  BY <1>1, <1>4
<1> QED BY <1>5, <1>6, <1>7, <1>8, <1>9, <1>10, <1>11

LEMMA HandleStep == TypeOK /\ TypeOK' /\ HandleOfCall /\ [Next]_vars => HandleOfCall'
<1> SUFFICES ASSUME TypeOK, TypeOK', HandleOfCall, [Next]_vars PROVE HandleOfCall'
    OBVIOUS
<1>a. ASSUME NEW new \in Call, call' = new, new.at = call.at + 1,
             new.driver = call.driver, new.op = call.op
      PROVE  GoesOn
  BY <1>a DEF GoesOn
<1>k. Running => call.driver \in Drivers /\ call \in Call
  BY DEF TypeOK, Call
<1>m. m_db \in [Drivers -> Handles \cup {Null}] /\ handle \in [Handles -> {"free", "open", "failed"}]
  BY DEF TypeOK
\* Once the handle is given back none is open.
<1>r. ASSUME Holding, Release
      PROVE  \A h \in Handles : handle'[h] # "open"
  BY <1>r, <1>k, <1>m DEF HandleOfCall, Release, Holding
<1>1. ASSUME NEW d \in Drivers, NEW op \in Store!Ops, NEW k \in Keys, NEW v \in Values,
             Begin(d, op, k, v)
      PROVE  HandleOfCall'
  <2>1. ~Holding /\ ~Holding' /\ handle' = handle
    BY <1>1 DEF Begin, Holding, Running
  <2> QED BY <2>1 DEF HandleOfCall
<1>2. CASE Open
  <2>1. PICK h \in Handles : /\ handle[h] = "free"
                             /\ handle' = [handle EXCEPT ![h] = "open"]
                             /\ m_db' = [m_db EXCEPT ![call.driver] = h]
    BY <1>2 DEF Open
  <2>2. Running /\ At("open") /\ call' = [call EXCEPT !.at = @ + 1, !.rowid = NoId]
    BY <1>2 DEF Open, At
  <2>3. GoesOn
    <3>1. call' \in Call
      BY <2>2, <1>k, Room DEF At, Call
    <3> QED BY <3>1, <2>2, <1>k DEF GoesOn, Call
  <2>4. ~Holding /\ Holding'
    BY <2>2, <2>3, HoldingAcross
  <2>5. call'.driver = call.driver /\ m_db'[call.driver] = h
    BY <2>1, <2>2, <2>3, <1>k, <1>m DEF GoesOn
  <2>6. h # Null /\ handle'[h] = "open"
    BY <2>1, <1>m, HandlesAssumption
  <2>7. \A g \in Handles : handle'[g] = "open" => g = h
    BY <2>1, <2>4, <1>m DEF HandleOfCall
  <2> QED BY <2>4, <2>5, <2>6, <2>7 DEF HandleOfCall
<1>3. CASE OpenFails
  <2>1. ~Holding /\ ~Holding'
    BY <1>3, HoldingAcross DEF OpenFails, Throw, At, Holding, Running
  <2>2. \A h \in Handles : handle'[h] # "open"
    BY <1>3, <2>1, <1>m DEF OpenFails, HandleOfCall
  <2> QED BY <2>1, <2>2 DEF HandleOfCall
<1>4. CASE Statement
  <2>1. PICK s \in Statements : At(s)
    BY <1>4 DEF Statement, Create, Drop, InsertTask, InsertInstance, LastInsertRowid,
                Update, Delete, Select, Statements
  <2>2. Running
    BY <2>1 DEF At
  <2>3. handle' = handle /\ m_db' = m_db
    BY <1>4 DEF Statement, Create, Drop, InsertTask, InsertInstance, LastInsertRowid,
                Update, Delete, Select, Execute
  <2>4. call' \in Call
    <3>1. \/ call' = [call EXCEPT !.at = @ + 1]
          \/ \E k \in Keys : call' = [call EXCEPT !.at = @ + 1, !.rowid = k]
          \/ call' = [call EXCEPT !.at = @ + 1, !.id = call.rowid]
      BY <1>4 DEF Statement, Create, Drop, InsertTask, InsertInstance, LastInsertRowid,
                  Update, Delete, Select, Advance
    <3>2. call.at + 1 \in 1..7
      BY <2>1, <2>2, Room DEF At
    <3>3. call' \in Call
      BY <3>1, <3>2, <2>2, <1>k DEF Call
    <3> QED BY <3>3
  <2>5. GoesOn
    BY <1>4, <2>4, <1>k, <2>2
       DEF Statement, Create, Drop, InsertTask, InsertInstance, LastInsertRowid,
           Update, Delete, Select, Advance, Call, GoesOn
  <2>6. Holding /\ Holding'
    BY <2>1, <2>2, <2>5, HoldingAcross
  <2> QED BY <2>3, <2>5, <2>6 DEF HandleOfCall, GoesOn
<1>5. CASE StatementFails
  <2>1. ~Holding'
    BY <1>5 DEF StatementFails, Throw, Holding, Running
  <2>2. Holding /\ Release
    BY <1>5, HoldingAcross DEF StatementFails, At
  <2> QED BY <2>1, <2>2, <1>r DEF HandleOfCall
<1>6. CASE Close
  <2>1. Running /\ At("close") /\ Release
    BY <1>6 DEF Close, At
  <2>2. GoesOn
    <3>1. call' \in Call
      BY <1>6, <2>1, <1>k, Room DEF Close, Advance, At, Call
    <3> QED BY <1>6, <3>1, <2>1, <1>k DEF Close, Advance, GoesOn, Call
  <2>3. Holding /\ ~Holding'
    BY <2>1, <2>2, HoldingAcross
  <2> QED BY <2>1, <2>3, <1>r DEF HandleOfCall
<1>7. CASE Return
  <2>1. ~Holding /\ ~Holding' /\ handle' = handle
    <3>1. call.at > Len(Steps) /\ call.at \in 1..7 /\ Len(Steps) \in 3..6
      BY <1>7, CallShape DEF Return
    <3>2. call.at \notin 2..Len(Steps)
      BY <3>1
    <3> QED BY <1>7, <3>2 DEF Return, Holding, Running
  <2> QED BY <2>1 DEF HandleOfCall
<1>8. CASE OtherInserts
  BY <1>8 DEF OtherInserts, HandleOfCall, Holding, Running, Steps
<1>9. CASE UNCHANGED vars
  BY <1>9 DEF vars, HandleOfCall, Holding, Running, Steps
<1> QED BY <1>1, <1>2, <1>3, <1>4, <1>5, <1>6, <1>7, <1>8, <1>9 DEF Next

LEMMA HandleInit == Init => HandleOfCall
BY DEF Init, HandleOfCall, Holding, Running

\* The handles of sqlite: one is open exactly while a call stands between its
\* open and its close, and it is the one that m_db of that driver points to.
THEOREM HandlesAreClosed == Spec => []HandleOfCall
BY TypeInit, TypeStep, HandleInit, HandleStep, PTL DEF Spec

-----------------------------------------------------------------------------
(* Rows and tables.                                                        *)

\* A row inserted by the running call is as it was inserted.
OwnRow ==
    Running /\ call.rowid # NoId =>
        /\ call.op = "create_task"
        /\ call.driver = "tasks"
        /\ call.at > 2
        /\ call.rowid \in DOMAIN rows["tasks"]
        /\ rows["tasks"][call.rowid] = call.value

\* The id read is that of the row inserted.
IdRead == Running => call.id \in {NoId, call.rowid}

\* Once its first statement, or the last one of clear, is done, a call knows
\* that the table is there.
Past ==
    Running /\ call.at > (IF call.op = "clear" THEN 5 ELSE 2) => call.driver \in made

\* A call that a step leaves running is one, and of the same operation.
LEMMA CallGoesOn ==
    ASSUME TypeOK, Running, call.at <= Len(Steps),
           \/ call' = [call EXCEPT !.at = @ + 1]
           \/ \E k \in Keys \cup {NoId} : call' = [call EXCEPT !.at = @ + 1, !.rowid = k]
           \/ call' = [call EXCEPT !.at = @ + 1, !.id = call.rowid]
    PROVE  /\ call' \in Call
           /\ call'.driver = call.driver /\ call'.op = call.op /\ call'.key = call.key
           /\ call'.value = call.value /\ call'.at = call.at + 1
<1>1. call \in Call /\ call.at + 1 \in 1..7
  BY Room DEF TypeOK
<1> QED BY <1>1 DEF Call

\* What the steps of a running call do to it.
LEMMA CallStep ==
    ASSUME TypeOK, Running, Next
    PROVE  \/ /\ ~Running'
              /\ made' = made /\ rows' = rows
           \/ OtherInserts
           \/ /\ call' \in Call
              /\ call'.driver = call.driver /\ call'.op = call.op /\ call'.key = call.key
              /\ call'.value = call.value /\ call'.at = call.at + 1
<1>1. \/ OpenFails \/ StatementFails \/ Return
      \/ OtherInserts
      \/ /\ call.at <= Len(Steps)
         /\ \/ call' = [call EXCEPT !.at = @ + 1]
            \/ \E k \in Keys \cup {NoId} : call' = [call EXCEPT !.at = @ + 1, !.rowid = k]
            \/ call' = [call EXCEPT !.at = @ + 1, !.id = call.rowid]
  BY DEF Next, Begin, Open, Close, At, Statement, Create, Drop, InsertTask, InsertInstance,
         LastInsertRowid, Update, Delete, Select, Advance
<1>2. ASSUME OpenFails \/ StatementFails \/ Return
      PROVE  ~Running' /\ made' = made /\ rows' = rows
  BY <1>2 DEF OpenFails, StatementFails, Return, Throw, Running
<1> QED BY <1>1, <1>2, CallGoesOn

LEMMA CallStatements ==
    ASSUME TypeOK, Running
    PROVE  /\ call.op = "clear" =>
                 Steps[2] = "DROP" /\ Steps[5] = "CREATE" /\ Len(Steps) = 6
           /\ call.op # "clear" => Len(Steps) < 5 /\ Steps[2] \in Statements \ {"DROP"}
           /\ \A i \in 1..Len(Steps) :
                 /\ Steps[i] = "open" => i = 1 \/ call.op = "clear"
                 /\ Steps[i] = "DROP" => call.op = "clear" /\ i = 2
                 /\ Steps[i] = "CREATE" =>
                       \/ call.op = "clear" /\ i = 5
                       \/ call.op = "init" /\ i = 2
                 /\ i > 2 /\ call.op # "clear" => Steps[i] \in {"ROWID", "close"}
                 /\ Steps[i] \in {"UPDATE", "DELETE", "SELECT", "INSERT"} => i = 2
                 /\ Steps[i] = "INSERT" => call.op = "create_task"
                 /\ Steps[i] \in {"UPDATE", "DELETE"} => call.op # "create_task"
                 /\ Steps[i] = "ROWID" =>
                       call.op = "create_task" /\ call.driver = "tasks" /\ i = 3
<1>1. call.op \in Store!Ops
  BY DEF TypeOK, Call
<1> QED BY <1>1, ProgramStatements DEF Steps

\* Only create_task inserts, and nothing after its INSERT changes the row.
LEMMA OwnRowStep ==
    TypeOK /\ TypeOK' /\ OwnRow /\ IdRead /\ [Next]_vars => OwnRow' /\ IdRead'
<1> SUFFICES ASSUME TypeOK, TypeOK', OwnRow, IdRead, [Next]_vars
             PROVE  OwnRow' /\ IdRead'
    OBVIOUS
<1>1. CASE ~Running
  <2>1. \/ \E d \in Drivers, op \in Store!Ops, k \in Keys, v \in Values : Begin(d, op, k, v)
        \/ OtherInserts
        \/ UNCHANGED vars
    BY <1>1 DEF Next, Open, OpenFails, Close, Return, StatementFails, At, Statement, Create,
                Drop, InsertTask, InsertInstance, LastInsertRowid, Update, Delete, Select
  <2>2. ASSUME NEW d \in Drivers, NEW op \in Store!Ops, NEW k \in Keys, NEW v \in Values,
               Begin(d, op, k, v)
        PROVE  call'.rowid = NoId /\ call'.id = NoId
    BY <2>2 DEF Begin
  <2>3. call' = call => ~Running'
    BY <1>1 DEF Running
  <2>4. ~Running' \/ (call'.rowid = NoId /\ call'.id = NoId)
    <3>1. OtherInserts \/ UNCHANGED vars => call' = call
      BY DEF OtherInserts, vars
    <3>2. CASE \E d \in Drivers, op \in Store!Ops, k \in Keys, v \in Values : Begin(d, op, k, v)
      BY <3>2, <2>2
    <3> QED BY <2>1, <2>3, <3>1, <3>2
  <2> QED BY <2>4 DEF OwnRow, IdRead
<1>2. CASE UNCHANGED vars
  BY <1>2 DEF vars, OwnRow, IdRead, Running
<1>3. CASE OtherInserts
  <2>1. call' = call
    BY <1>3 DEF OtherInserts
  <2>2. PICK k \in Keys : /\ \A x \in DOMAIN rows["tasks"] : x < k
                          /\ rows' = [rows EXCEPT !["tasks"] = Store!Put(rows["tasks"], k, Theirs)]
    BY <1>3 DEF OtherInserts, Store!IsNextRowid
  <2>3. "tasks" \in DOMAIN rows
    BY <1>3 DEF OtherInserts, TypeOK
  <2>4. \A x \in DOMAIN rows["tasks"] :
            x \in DOMAIN rows'["tasks"] /\ rows'["tasks"][x] = rows["tasks"][x]
    <3>1. k \notin DOMAIN rows["tasks"]
      BY <2>2 DEF Keys
    <3>2. rows'["tasks"] = Store!Put(rows["tasks"], k, Theirs)
      BY <2>2, <2>3
    <3> QED BY <3>1, <3>2 DEF Store!Put
  <2> QED BY <2>1, <2>4 DEF OwnRow, IdRead, Running
<1>4. CASE Running /\ Next /\ ~OtherInserts
  <2>1. CASE ~Running'
    BY <2>1 DEF OwnRow, IdRead
  <2>2. CASE Running'
    <3>1. /\ call' \in Call /\ call'.op = call.op /\ call'.driver = call.driver
          /\ call'.value = call.value /\ call'.at = call.at + 1
      BY <1>4, <2>2, CallStep
    <3>2. /\ call \in Call /\ call.at \in 1..7 /\ call.rowid \in Keys \cup {NoId}
      BY <1>4 DEF TypeOK, Call
    <3>3. CASE Open
      <4>1. call.rowid = NoId
        BY <1>4, <3>2, <3>3, CallStatements DEF OwnRow, Open, At
      <4>2. call'.rowid = NoId /\ call'.id = call.id
        BY <3>3, <3>2 DEF Open, Call
      <4> QED BY <1>4, <4>1, <4>2 DEF OwnRow, IdRead
    <3>4. CASE LastInsertRowid
      <4>1. call'.rowid = call.rowid /\ call'.id = call.rowid /\ rows' = rows
        BY <3>4, <3>2 DEF LastInsertRowid, Call
      <4> QED BY <1>4, <3>1, <3>2, <4>1 DEF OwnRow, IdRead
    <3>5. CASE InsertTask
      <4>1. PICK k \in Keys : /\ Execute(Store!Put(rows["tasks"], k, call.value))
                              /\ call' = [call EXCEPT !.at = @ + 1, !.rowid = k]
        BY <3>5 DEF InsertTask
      <4>2. call.op = "create_task" /\ call.at = 2 /\ call.driver = "tasks"
        BY <1>4, <3>5, <3>2, CallStatements DEF InsertTask, At
      <4>3. call'.rowid = k /\ call'.id = call.id
        BY <4>1, <3>2 DEF Call
      <4>4. rows'["tasks"] = Store!Put(rows["tasks"], k, call.value)
        <5>1. call.driver \in Drivers
          BY <3>2 DEF Call
        <5> QED BY <4>1, <4>2, <5>1 DEF Execute, TypeOK
      <4>5. k \in DOMAIN rows'["tasks"] /\ rows'["tasks"][k] = call.value
        BY <4>4 DEF Store!Put
      <4>6. call.rowid = NoId
        BY <1>4, <4>2 DEF OwnRow
      <4>7. call.id = NoId
        BY <1>4, <4>6 DEF IdRead
      <4> QED BY <3>1, <4>2, <4>3, <4>5, <4>7 DEF OwnRow, IdRead
    <3>6. CASE Create \/ InsertInstance \/ Update \/ Delete \/ Select \/ Drop \/ Close
      <4>1. call' = [call EXCEPT !.at = @ + 1]
        BY <3>6 DEF Create, InsertInstance, Update, Delete, Select, Drop, Close, Advance
      <4>2. call'.rowid = call.rowid /\ call'.id = call.id
        BY <4>1, <3>2 DEF Call
      <4>3. call.rowid # NoId => rows' = rows
        <5> SUFFICES ASSUME call.rowid # NoId PROVE rows' = rows
            OBVIOUS
        <5>1. call.op = "create_task" /\ call.at > 2
          BY <1>4 DEF OwnRow
        <5>2. call.at <= Len(Steps) => Steps[call.at] \in {"ROWID", "close"}
          BY <5>1, <1>4, <3>2, CallShape, CallStatements
        <5>3. Close
          BY <3>6, <5>2 DEF Create, InsertInstance, Update, Delete, Select, Drop, At
        <5> QED BY <5>3 DEF Close
      <4> QED BY <1>4, <3>1, <3>2, <4>2, <4>3 DEF OwnRow, IdRead
    <3> QED BY <1>4, <2>2, <3>3, <3>4, <3>5, <3>6
            DEF Next, Begin, OpenFails, StatementFails, Return, Throw, Running, Statement
  <2> QED BY <2>1, <2>2
<1> QED BY <1>1, <1>2, <1>3, <1>4

LEMMA OwnRowInit == Init => OwnRow /\ IdRead
BY DEF Init, OwnRow, IdRead, Running

LEMMA OwnRowIsOwnId == OwnRow /\ IdRead => OwnId
BY DEF OwnRow, IdRead, OwnId

\* create_task gives back the id of the row it has inserted, whatever another
\* program inserts meanwhile: last_insert_rowid is that of the connection.
THEOREM IdsAreOwn == Spec => []OwnId
BY TypeInit, TypeStep, OwnRowInit, OwnRowStep, OwnRowIsOwnId, PTL DEF Spec

LEMMA PastStep == TypeOK /\ TypeOK' /\ Past /\ [Next]_vars => Past'
<1> SUFFICES ASSUME TypeOK, TypeOK', Past, [Next]_vars PROVE Past'
    OBVIOUS
<1>1. CASE ~Running
  <2>1. \/ \E d \in Drivers, op \in Store!Ops, k \in Keys, v \in Values : Begin(d, op, k, v)
        \/ OtherInserts
        \/ UNCHANGED vars
    BY <1>1 DEF Next, Open, OpenFails, Close, Return, StatementFails, At, Statement, Create,
                Drop, InsertTask, InsertInstance, LastInsertRowid, Update, Delete, Select
  <2>2. ~Running' \/ call'.at = 1
    BY <1>1, <2>1 DEF Begin, OtherInserts, vars, Running
  <2> QED BY <2>2 DEF Past
<1>2. CASE UNCHANGED vars \/ OtherInserts
  BY <1>2 DEF vars, OtherInserts, Past, Running
<1>3. CASE Running /\ Next /\ ~OtherInserts
  <2>1. CASE ~Running'
    BY <2>1 DEF Past
  <2>2. CASE Running'
    <3>1. /\ call' \in Call /\ call'.op = call.op
          /\ call'.driver = call.driver /\ call'.at = call.at + 1
      BY <1>3, <2>2, CallStep
    <3>2. /\ call \in Call /\ call.at \in 1..7 /\ Len(Steps) \in 3..6
      BY <1>3, CallShape
    <3> DEFINE bound == IF call.op = "clear" THEN 5 ELSE 2
    <3>3. call.at > bound => call.driver \in made
      BY <1>3 DEF Past
    <3> SUFFICES ASSUME call.at + 1 > bound PROVE call.driver \in made'
        BY <3>1 DEF Past
    <3>4. CASE Drop
      <4>1. call.op = "clear" /\ call.at = 2
        BY <1>3, <3>2, <3>4, CallStatements DEF Drop, At
      <4> QED BY <4>1
    <3>5. CASE Create
      BY <3>5 DEF Create
    <3>6. CASE InsertTask \/ InsertInstance \/ Update \/ Delete \/ Select
      BY <3>6 DEF InsertTask, InsertInstance, Update, Delete, Select, Execute
    <3>7. CASE Open \/ LastInsertRowid \/ Close
      <4>1. made' = made
        BY <3>7 DEF Open, LastInsertRowid, Close
      <4>2. call.at # bound
        <5>1. At("open") \/ At("ROWID") \/ At("close")
          BY <3>7 DEF Open, LastInsertRowid, Close
        <5>2. call.at <= Len(Steps) /\ Steps[call.at] \in {"open", "ROWID", "close"}
          BY <5>1 DEF At
        <5>3. CASE call.op = "clear"
          BY <5>2, <5>3, <1>3, CallStatements
        <5>4. CASE call.op # "clear"
          <6>1. Steps[2] \in Statements /\ Steps[2] # "ROWID"
            BY <5>4, <1>3, <3>2, CallStatements
          <6> QED BY <5>2, <5>4, <6>1 DEF Statements
        <5> QED BY <5>3, <5>4
      <4>3. call.at > bound
        BY <4>2, <3>2
      <4> QED BY <4>1, <4>3, <3>3
    <3> QED BY <1>3, <2>2, <3>4, <3>5, <3>6, <3>7
            DEF Next, Begin, OpenFails, StatementFails, Return, Throw, Running, Statement
  <2> QED BY <2>1, <2>2
<1> QED BY <1>1, <1>2, <1>3

LEMMA PastInit == Init => Past
BY DEF Init, Past, Running

LEMMA PastReturns == TypeOK /\ Past => ReturnsWithTable
<1> SUFFICES ASSUME TypeOK, Past, Running, call.at > Len(Steps)
             PROVE  call.driver \in made
    BY DEF ReturnsWithTable
<1>1. call.at \in 1..7 /\ Len(Steps) \in 3..6 /\ (call.op = "clear" => Len(Steps) = 6)
  BY CallShape, CallStatements
<1>2. ASSUME NEW a \in 1..7, NEW n \in 3..6, a > n
      PROVE  a > 2 /\ (n = 6 => a > 5)
  BY <1>2
<1>3. call.at > (IF call.op = "clear" THEN 5 ELSE 2)
  <2> HIDE DEF Steps
  <2> QED BY <1>1, <1>2
<1> QED BY <1>3 DEF Past

\* A call that returns has found its table or made it: clear, failing half
\* way, leaves a driver whose calls throw until a tracker is constructed.
THEOREM TableIsThere == Spec => []ReturnsWithTable
BY TypeInit, TypeStep, PastInit, PastStep, PastReturns, PTL DEF Spec

-----------------------------------------------------------------------------
(* The store.                                                              *)

\* Where the steps stand that the store does not see.
LEMMA ProgramHandles ==
    ASSUME NEW d, NEW op \in Store!Ops
    PROVE  LET p == Program(d, op)
           IN  \A i \in 1..Len(p) :
                  /\ p[i] = "UPDATE" => op = "update_task"
                  /\ p[i] = "DELETE" => op = "delete_task"
                  /\ p[i] = "SELECT" => op = "get_task"
                  /\ p[i] = "open" => i = 1 \/ (op = "clear" /\ i = 4)
                  /\ p[i] = "close" => /\ i > 2
                                       /\ op = "clear" => i = 3 \/ i = 6
                                       /\ op = "create_task" /\ d = "tasks" => i = 4
<1> USE DEF Program
<1>1. CASE op = "init" BY <1>1
<1>2. CASE op = "clear" BY <1>2
<1>3. CASE op = "create_task"
  <2>1. CASE d = "tasks" BY <1>3, <2>1
  <2>2. CASE d # "tasks" BY <1>3, <2>2
  <2> QED BY <2>1, <2>2
<1>4. CASE op = "update_task" BY <1>4
<1>5. CASE op = "delete_task" BY <1>5
<1>6. CASE op = "get_task" BY <1>6
<1> QED BY <1>1, <1>2, <1>3, <1>4, <1>5, <1>6 DEF Store!Ops

LEMMA CallHandles ==
    ASSUME TypeOK, Running, call.at <= Len(Steps)
    PROVE  /\ Steps[call.at] = "UPDATE" => call.op = "update_task"
           /\ Steps[call.at] = "DELETE" => call.op = "delete_task"
           /\ Steps[call.at] = "SELECT" => call.op = "get_task"
           /\ Steps[call.at] = "open" =>
                 call.at = 1 \/ (call.op = "clear" /\ call.at = 4)
           /\ Steps[call.at] = "close" =>
                 /\ call.at > 2
                 /\ call.op = "clear" => call.at = 3 \/ call.at = 6
                 /\ call.op = "create_task" /\ call.driver = "tasks" => call.at = 4
<1>1. call.op \in Store!Ops
  BY DEF TypeOK, Call
<1>2. call.at \in 1..Len(Steps)
  BY CallShape
<1> QED BY <1>1, <1>2, ProgramHandles DEF Steps

\* The request that a call in this state is.
RequestOf(c, phase, id) ==
    [driver |-> c.driver, op |-> c.op, key |-> c.key, value |-> c.value,
     phase |-> phase, id |-> id]

\* The same, field by field.
IsRequestOf(r, c, phase, id) ==
    /\ r = [field \in {"driver", "op", "key", "value", "phase", "id"} |-> r[field]]
    /\ r.driver = c.driver /\ r.op = c.op /\ r.key = c.key /\ r.value = c.value
    /\ r.phase = phase /\ r.id = id

LEMMA RequestFields ==
    ASSUME NEW r, NEW c, NEW phase, NEW id
    PROVE  r = RequestOf(c, phase, id) <=> IsRequestOf(r, c, phase, id)
BY DEF RequestOf, IsRequestOf

ShownId == IF call.at <= 3 THEN call.rowid ELSE call.id

LEMMA RunningRequest ==
    ASSUME Running
    PROVE  /\ Request = RequestOf(call, Phase, ShownId)
           /\ Request # Store!NoRequest
           /\ Request.driver = call.driver /\ Request.op = call.op
           /\ Request.key = call.key /\ Request.value = call.value
           /\ Request.phase = Phase
           /\ \A phase, id :
                 /\ [Request EXCEPT !.phase = phase] = RequestOf(call, phase, ShownId)
                 /\ [Request EXCEPT !.phase = phase, !.id = id]
                        = RequestOf(call, phase, id)
<1>1. Request = RequestOf(call, Phase, ShownId)
  BY DEF Request, RequestOf, ShownId
<1>2. DOMAIN Request # {} /\ DOMAIN Store!NoRequest = {}
  BY <1>1 DEF RequestOf, Store!NoRequest
<1>3. /\ Request.driver = call.driver /\ Request.op = call.op
      /\ Request.key = call.key /\ Request.value = call.value
      /\ Request.phase = Phase
  BY <1>1 DEF RequestOf
<1>4. ASSUME NEW phase, NEW id
      PROVE  /\ [Request EXCEPT !.phase = phase] = RequestOf(call, phase, ShownId)
             /\ [Request EXCEPT !.phase = phase, !.id = id] = RequestOf(call, phase, id)
  <2>1. IsRequestOf(Request, call, Phase, ShownId)
    BY <1>1, RequestFields
  <2>2. /\ IsRequestOf([Request EXCEPT !.phase = phase], call, phase, ShownId)
        /\ IsRequestOf([Request EXCEPT !.phase = phase, !.id = id], call, phase, id)
    BY <2>1 DEF IsRequestOf
  <2> QED BY <2>2, RequestFields
<1>5. Request # Store!NoRequest
  BY <1>2
<1> HIDE DEF RequestOf, Phase, ShownId
<1> QED BY <1>1, <1>3, <1>4, <1>5

\* The request that remains of a call that goes on.
LEMMA NextRequest ==
    ASSUME call' \in Call, call'.driver = call.driver, call'.op = call.op,
           call'.key = call.key, call'.value = call.value, call'.at = call.at + 1
    PROVE  Request' = RequestOf(call, Phase', ShownId')
BY CallsAreRecords DEF Request, RequestOf, ShownId, Running

StoreStep == [Store!Next]_(Store!storeVars)

\* A statement that takes effect, with its answer.
LEMMA StoreEffects ==
    ASSUME TypeOK, TypeOK', OwnRow, IdRead, Running, Statement, Next
    PROVE  StoreStep
<1>1. PICK s \in Statements : At(s)
  BY DEF Statement, Create, Drop, InsertTask, InsertInstance, LastInsertRowid, Update,
         Delete, Select, Statements
<1>2. /\ call' \in Call
      /\ call'.driver = call.driver /\ call'.op = call.op /\ call'.key = call.key
      /\ call'.value = call.value /\ call'.at = call.at + 1
  <2>1. \/ call' = [call EXCEPT !.at = @ + 1]
        \/ \E k \in Keys \cup {NoId} : call' = [call EXCEPT !.at = @ + 1, !.rowid = k]
        \/ call' = [call EXCEPT !.at = @ + 1, !.id = call.rowid]
    BY DEF Statement, Create, Drop, InsertTask, InsertInstance, LastInsertRowid, Update,
           Delete, Select, Advance
  <2> QED BY <1>1, <2>1, CallGoesOn DEF At
<1>3. /\ call \in Call /\ call.at \in 1..7 /\ call.driver \in Drivers
      /\ call.at <= Len(Steps) /\ call.at \in 1..Len(Steps)
  BY <1>1, CallShape DEF At, Call
<1>4. Request' = RequestOf(call, Phase', ShownId')
  BY <1>2, NextRequest
<1>5. ASSUME call.at = 2, call.op # "clear", ShownId' = ShownId
      PROVE  /\ Request.phase = "asked"
             /\ Request' = [Request EXCEPT !.phase = "done"]
  <2>1. Phase = "asked" /\ Phase' = "done"
    BY <1>2, <1>5 DEF Phase
  <2> QED BY <2>1, <1>4, <1>5, RunningRequest
<1>6. ASSUME Advance PROVE call'.rowid = call.rowid /\ call'.id = call.id
  BY <1>3, <1>6 DEF Advance, Call
<1>7. Advance /\ call.at = 2 => ShownId' = ShownId
  BY <1>2, <1>6 DEF ShownId
<1>8. CASE Create
  <2>1. CASE call.op = "init"
    <3>1. call.at = 2
      BY <1>1, <1>3, <1>8, <2>1, CallStatements DEF Create, At
    <3>2. Store!MakeTable(call.driver)
      BY <1>5, <1>7, <1>8, <2>1, <3>1, RunningRequest
      DEF Create, Store!MakeTable, Store!Asked, Store!Done
    <3> QED BY <1>3, <3>2 DEF StoreStep, Store!Next, Store!TakesEffect
  <2>2. CASE call.op = "clear"
    <3>1. call.at = 5
      BY <1>1, <1>3, <1>8, <2>2, CallStatements DEF Create, At
    <3>2. Phase = "cleared" /\ Phase' = "done" /\ ShownId' = ShownId
      BY <1>2, <1>6, <1>8, <2>2, <3>1 DEF Phase, ShownId, Create
    <3>3. Store!MakeAgain(call.driver)
      BY <1>4, <1>8, <3>2, RunningRequest DEF Create, Store!MakeAgain, Store!Done
    <3> QED BY <1>3, <3>3 DEF StoreStep, Store!Next, Store!TakesEffect
  <2> QED
    BY <1>1, <1>3, <1>8, <2>1, <2>2, CallStatements DEF Create, At
<1>9. CASE Drop
  <2>1. call.op = "clear" /\ call.at = 2
    BY <1>3, <1>9, CallStatements DEF Drop, At
  <2>2. Phase = "asked" /\ Phase' = "cleared" /\ ShownId' = ShownId
    BY <1>2, <1>7, <1>9, <2>1 DEF Phase, Drop
  <2>3. Store!ClearRows(call.driver)
    BY <1>4, <1>9, <2>1, <2>2, RunningRequest DEF Drop, Store!ClearRows, Store!Asked
  <2> QED BY <1>3, <2>3 DEF StoreStep, Store!Next, Store!TakesEffect
<1>10. CASE InsertTask
  <2>1. call.op = "create_task" /\ call.at = 2 /\ call.driver = "tasks"
    BY <1>3, <1>10, CallStatements DEF InsertTask, At
  <2>2. PICK k \in Keys :
            /\ Store!IsNextRowid(k)
            /\ Execute(Store!Put(rows["tasks"], k, call.value))
            /\ call' = [call EXCEPT !.at = @ + 1, !.rowid = k]
    BY <1>10 DEF InsertTask
  <2>3. Phase = "asked" /\ Phase' = "done" /\ ShownId' = k
    BY <1>2, <1>3, <2>1, <2>2 DEF Phase, ShownId, Call
  <2>4. Store!Becomes("tasks", Store!Put(rows["tasks"], k, Request.value))
    BY <2>1, <2>2, RunningRequest DEF Execute, Store!Becomes
  <2>5. Store!Asked("tasks", "create_task")
    BY <2>1, <2>3, RunningRequest DEF Store!Asked
  <2>6. Request' = [Request EXCEPT !.phase = "done", !.id = k]
    BY <1>4, <2>3, RunningRequest
  <2>7. Store!CreateTask
    BY <2>2, <2>4, <2>5, <2>6 DEF Store!CreateTask
  <2> QED BY <2>7 DEF StoreStep, Store!Next, Store!TakesEffect
<1>11. CASE InsertInstance
  <2>1. call.op = "create_task" /\ call.at = 2 /\ call.driver = "instances"
    BY <1>3, <1>11, CallStatements DEF InsertInstance, At
  <2>2. Store!CreateInstance
    BY <1>5, <1>7, <1>11, <2>1, RunningRequest
    DEF InsertInstance, Execute, Store!CreateInstance, Store!Asked, Store!Becomes, Store!Done
  <2> QED BY <2>2 DEF StoreStep, Store!Next, Store!TakesEffect
<1>12. CASE LastInsertRowid
  <2>1. call.at = 3 /\ call.op # "clear"
    BY <1>3, <1>12, CallStatements DEF LastInsertRowid, At
  <2>2. call'.id = call.rowid
    BY <1>3, <1>12 DEF LastInsertRowid, Call
  <2>3. Phase = "done" /\ Phase' = "done" /\ ShownId' = ShownId
    BY <1>2, <2>1, <2>2 DEF Phase, ShownId
  <2>4. UNCHANGED <<made, rows, Request>>
    BY <1>4, <1>12, <2>3, RunningRequest DEF LastInsertRowid
  <2> QED BY <2>4 DEF StoreStep, Store!storeVars
<1>13. CASE Update \/ Delete \/ Select
  <2>1. call.at = 2 /\ Steps[2] \in {"UPDATE", "DELETE", "SELECT"} /\ Advance
    BY <1>3, <1>13, CallStatements DEF Update, Delete, Select, At
  <2>2. /\ call.op # "clear"
        /\ Update => call.op = "update_task"
        /\ Delete => call.op = "delete_task"
        /\ Select => call.op = "get_task"
    BY <1>13, <2>1, CallStatements, CallHandles DEF Update, Delete, Select, At
  <2>3. Request.phase = "asked" /\ Request' = [Request EXCEPT !.phase = "done"]
    BY <1>5, <1>7, <2>1, <2>2
  <2>4. Update => Store!UpdateTask(call.driver)
    <3> DEFINE old == rows[call.driver]
               new == IF call.key \in DOMAIN old
                      THEN [old EXCEPT ![call.key] = call.value] ELSE old
               same == [k \in DOMAIN old |-> IF k = Request.key THEN Request.value
                                                                ELSE old[k]]
    <3>1. new = same
      BY <1>3, RunningRequest DEF TypeOK, IsTable
    <3>2. Update => Execute(new)
      BY DEF Update
    <3>3. Store!UpdateTask(call.driver) <=> /\ Store!Asked(call.driver, "update_task")
                                            /\ Store!Becomes(call.driver, same)
                                            /\ Store!Done
      BY DEF Store!UpdateTask
    <3> HIDE DEF new, same
    <3>4. Update => Store!Becomes(call.driver, same)
      BY <3>1, <3>2 DEF Execute, Store!Becomes
    <3> QED BY <2>2, <2>3, <3>3, <3>4, RunningRequest DEF Store!Asked, Store!Done
  <2>5. Delete => Store!DeleteTask(call.driver)
    <3>1. Delete => Store!Becomes(call.driver, Restrict(rows[call.driver],
                                     DOMAIN rows[call.driver] \ {Request.key}))
      BY RunningRequest DEF Delete, Execute, Store!Becomes
    <3> QED BY <2>2, <2>3, <3>1, RunningRequest
            DEF Store!DeleteTask, Store!Asked, Store!Done, Restrict, Store!Restrict
  <2>6. Select => Store!GetTask(call.driver)
    BY <2>2, <2>3, RunningRequest
    DEF Select, Execute, Store!GetTask, Store!Asked, Store!Becomes, Store!Done
  <2> QED
    BY <1>3, <1>13, <2>4, <2>5, <2>6 DEF StoreStep, Store!Next, Store!TakesEffect
<1> QED
  BY <1>8, <1>9, <1>10, <1>11, <1>12, <1>13 DEF Statement

\* What the store does not see of a call: its handles and its last read.
LEMMA StoreStutters ==
    ASSUME TypeOK, TypeOK', OwnRow, IdRead, Running, Open \/ Close, Next
    PROVE  StoreStep
<1>1. /\ call \in Call /\ call.at \in 1..7 /\ call.at <= Len(Steps)
      /\ call' = [call EXCEPT !.at = @ + 1, !.rowid = call'.rowid]
      /\ call'.rowid = IF Open THEN NoId ELSE call.rowid
      /\ Open \/ Close
      /\ Open => Steps[call.at] = "open"
      /\ Close => Steps[call.at] = "close"
  <2>1. call \in Call /\ call.at \in 1..7
    BY CallShape
  <2>2. CASE Open
    <3>1. call' = [call EXCEPT !.at = @ + 1, !.rowid = NoId] /\ At("open")
      BY <2>2 DEF Open
    <3>2. call'.rowid = NoId
      BY <2>1, <3>1 DEF Call
    <3>3. ~Close
      BY <3>1 DEF Close, At
    <3> QED BY <2>1, <2>2, <3>1, <3>2, <3>3 DEF At
  <2>3. CASE ~Open
    <3>1. call' = [call EXCEPT !.at = @ + 1] /\ At("close") /\ Close
      BY <2>3 DEF Close, Advance
    <3>2. call' = [call EXCEPT !.at = @ + 1, !.rowid = call.rowid] /\ call'.rowid = call.rowid
      BY <2>1, <3>1 DEF Call
    <3> QED BY <2>1, <2>3, <3>1, <3>2 DEF At
  <2> QED BY <2>2, <2>3
<1>2. /\ call' \in Call
      /\ call'.driver = call.driver /\ call'.op = call.op /\ call'.key = call.key
      /\ call'.value = call.value /\ call'.at = call.at + 1
      /\ call'.id = call.id
  <2>1. call' \in Call
    <3>1. call'.rowid \in Keys \cup {NoId}
      BY <1>1 DEF Call
    <3> QED BY <1>1, <3>1, CallGoesOn
  <2> QED BY <1>1, <2>1 DEF Call
<1>3. \/ call.at = 1
      \/ call.op = "clear" /\ call.at \in {3, 4, 6}
      \/ call.op # "clear" /\ call.at > 2 /\ Close
  BY <1>1, CallHandles
<1>4. Phase' = Phase
  BY <1>1, <1>2, <1>3 DEF Phase
<1>5. ShownId' = ShownId
  <2>1. CASE call.rowid = NoId
    <3>1. call.id = NoId /\ call'.rowid = NoId
      BY <1>1, <2>1 DEF IdRead
    <3> QED BY <1>2, <2>1, <3>1 DEF ShownId
  <2>2. CASE call.rowid # NoId
    <3>1. call.op = "create_task" /\ call.driver = "tasks" /\ call.at > 2
      BY <2>2 DEF OwnRow
    <3>2. Close /\ call.at = 4
      BY <1>1, <1>3, <3>1, CallHandles
    <3> QED BY <1>1, <1>2, <3>2 DEF ShownId
  <2> QED BY <2>1, <2>2
<1>6. Request' = Request
  BY <1>2, <1>4, <1>5, NextRequest, RunningRequest
<1>7. UNCHANGED <<made, rows>>
  BY <1>1 DEF Open, Close
<1> QED BY <1>6, <1>7 DEF StoreStep, Store!storeVars

LEMMA StoreSteps ==
    ASSUME TypeOK, TypeOK', OwnRow, IdRead, [Next]_vars
    PROVE  StoreStep
<1>1. ASSUME NEW d \in Drivers, NEW op \in Store!Ops, NEW k \in Keys, NEW v \in Values,
             Begin(d, op, k, v)
      PROVE  StoreStep
  <2>1. Request = Store!NoRequest
    BY <1>1 DEF Begin, Request, NoCall, Store!NoRequest
  <2>2. call' \in Call /\ call'.at = 1 /\ call'.rowid = Store!NoId
    BY <1>1 DEF Begin, Call, NoId, Store!NoId
  <2>3. Request' = RequestOf(call', "asked", Store!NoId)
    BY <2>2, CallsAreRecords DEF Request, RequestOf, Running, Phase
  <2>4. Store!Ask(d, op, k, v)
    BY <1>1, <2>1, <2>3 DEF Begin, Store!Ask, RequestOf
  <2> QED BY <2>4 DEF StoreStep, Store!Next
<1>2. CASE OpenFails \/ StatementFails
  <2>1. Running /\ ~Running' /\ UNCHANGED <<made, rows>>
    BY <1>2 DEF OpenFails, StatementFails, Throw, At, Running
  <2>2. Request # Store!NoRequest /\ Request' = Store!NoRequest
    BY <2>1, RunningRequest DEF Request, NoCall, Store!NoRequest
  <2>3. Store!Throw
    BY <2>1, <2>2 DEF Store!Throw
  <2> QED BY <2>3 DEF StoreStep, Store!Next
<1>3. CASE Return
  <2>1. Running /\ ~Running' /\ UNCHANGED <<made, rows>> /\ call.at > Len(Steps)
    BY <1>3 DEF Return, Running
  <2>2. Request # Store!NoRequest /\ Request' = Store!NoRequest
    BY <2>1, RunningRequest DEF Request, NoCall, Store!NoRequest
  <2>3. Phase = "done"
    <3>1. /\ call.at \in 1..7 /\ Len(Steps) \in 3..6
          /\ call.op = "clear" => Len(Steps) = 6
      BY <2>1, CallShape, CallStatements
    <3> DEFINE a == call.at
               n == Len(Steps)
    <3>2. a \in 1..7 /\ n \in 3..6 /\ a > n => a > 2 /\ (n = 6 => a > 5)
      <4> HIDE DEF a, n
      <4> QED OBVIOUS
    <3>3. call.at \in 1..7 /\ call.at > 2 /\ (call.op = "clear" => call.at > 5)
      BY <2>1, <3>1, <3>2
    <3> QED BY <3>3 DEF Phase
  <2>4. Store!Return
    BY <2>1, <2>2, <2>3, RunningRequest DEF Store!Return
  <2> QED BY <2>4 DEF StoreStep, Store!Next
<1>4. CASE OtherInserts
  <2>1. Request' = Request
    BY <1>4 DEF OtherInserts, Request, Running, Phase
  <2>2. Store!OtherInserts
    BY <1>4, <2>1 DEF OtherInserts, Store!OtherInserts
  <2> QED BY <2>2 DEF StoreStep, Store!Next
<1>5. ASSUME Statement \/ Open \/ Close, Next PROVE StoreStep
  <2>1. Running
    BY <1>5 DEF Statement, Create, Drop, InsertTask, InsertInstance, LastInsertRowid,
                Update, Delete, Select, Open, Close, At
  <2> QED BY <1>5, <2>1, StoreEffects, StoreStutters
<1>6. CASE UNCHANGED vars
  BY <1>6 DEF vars, StoreStep, Store!storeVars, Request, Running, Phase
<1> QED BY <1>1, <1>2, <1>3, <1>4, <1>5, <1>6 DEF Next

\* The drivers implement the store: handles, statements, errors and another
\* program add up to calls that happen at one moment or not at all, clear in
\* two, and create_task answers with the row of that moment.
THEOREM StoreAlwaysKept == Spec => KeepsStore
<1>1. Init => Store!Init
  BY DEF Init, Store!Init, Request, Running, NoCall, Store!NoRequest
<1>2. TypeOK /\ TypeOK' /\ OwnRow /\ IdRead /\ [Next]_vars => [Store!Next]_(Store!storeVars)
  BY StoreSteps DEF StoreStep
<1> QED
  BY <1>1, <1>2, TypeInit, TypeStep, OwnRowInit, OwnRowStep, PTL
  DEF Spec, KeepsStore, Store!Spec

=============================================================================
