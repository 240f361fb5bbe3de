------------------------------- MODULE MCApp --------------------------------
(***************************************************************************)
(* Values for App, beside those of MCTaskTracker.                          *)
(***************************************************************************)
EXTENDS MCTaskTracker, App

OneTest == <<Daily>>

\* The daily task begins a day late, and is not in the list of the first day
\* any more; Later takes it back.
Postponed == Edit("Keep", 0, NewYearsDay)

DayEdits == {Later, Repeating, Postponed}

=============================================================================
