---------------------------- MODULE MCTaskTracker ---------------------------
(***************************************************************************)
(* Values for TaskTracker: two tasks, two days on either side of the turn  *)
(* of a month, one name and one comment with a quote in it.                *)
(***************************************************************************)
EXTENDS TrackerBoard

December == <<0, 31, 62, 90, 121>>

Quoted == "it's"
Unquoted == "it_s"

MCStrings == {"", "dishes", Quoted, Unquoted}

MCEscape == [s \in MCStrings |-> IF s = Quoted THEN Unquoted ELSE s]

MCComments == {Quoted}
NoComments == {}

\* 10 am of December 31st and of January 1st.
LastDay == 24 * 30 + 10
NewYearsDay == 24 * 31 + 10

BothDays == {LastDay, NewYearsDay}
OneDay == {NewYearsDay}
NoDays == {}

Add(name, type, info, start) ==
    [name |-> name, repeat_type |-> type, repeat_info |-> info,
     start_time |-> localtime(start)]

Daily == Add(Quoted, "WithInterval", 1, LastDay)
Once == Add("dishes", "NoRepeat", 0, NewYearsDay)

TwoTasks == {Daily, Once}
DailyTask == {Daily}
OnceTask == {Once}

Edit(type, info, start) ==
    [repeat_type |-> type, repeat_info |-> info, scheduled_start |-> start]

\* A later hour; another way of repeating, the interval left as it is.
Later == Edit("Keep", 0, LastDay + 5)
Repeating == Edit("WithInterval", 0, -1)

TwoEdits == {Later, Repeating}

\* The clock is put forward in the morning of January 1st.  A task at ten in
\* the evening, and an edit to one in the morning.
ChangeOfClock == NewYearsDay - 7
Evening == {Add(Quoted, "WithInterval", 1, LastDay + 12)}
ToMorning == {Edit("Keep", 0, LastDay - 9), Repeating}

BothAtOnce == {Edit("WithInterval", 0, LastDay + 5)}

=============================================================================
