-------------------------- MODULE WeatherListModel --------------------------
(***************************************************************************)
(* WeatherListModel: a forecast that an external program prints, a line    *)
(* for each hour.  The program is run in the main thread, which waits for  *)
(* its end, once at the start and then every hour.                         *)
(*                                                                         *)
(* A text is the sequence of its pieces between newlines, and a piece is   *)
(* the sequence of its cells between commas.  A cell is a number.  The     *)
(* program can die anywhere, in the middle of a cell too.                  *)
(***************************************************************************)
EXTENDS Integers, Sequences

CONSTANTS
    Reports,   \* the texts the program would print if it came to its end
    Fragments  \* what is left of a cell the program was printing

VARIABLES
    process,            \* "up", or how it ended
    due,                \* m_timer has fired and waits for the event loop
    running,            \* populate waits for the program
    m_api_output_lines

vars == <<process, due, running, m_api_output_lines>>

-----------------------------------------------------------------------------
(* From a text to rows.                                                    *)

\* A token is what stands before a delimiter: what follows the last one is
\* dropped, and of a text with a header the first token too.
split(pieces, has_header) ==
    SubSeq(pieces, IF has_header THEN 2 ELSE 1, Len(pieces) - 1)

\* Mutant of split_api_output: the header is taken for an hour.
SplitWithHeader(text) ==
    LET lines == split(text, FALSE)
    IN  [i \in DOMAIN lines |-> split(lines[i], FALSE)]

split_api_output(text) ==
    LET lines == split(text, TRUE)
    IN  [i \in DOMAIN lines |-> split(lines[i], FALSE)]

\* The last line is no row.  Without lines the unsigned difference turns into
\* -1 as it is returned.
rowCount == Len(m_api_output_lines) - 1

\* The rows the page asks for: a view with a rowCount of -1 asks for none.  It
\* is the view that keeps from them then, not the guard of data, which compares
\* with the difference as it is, the greatest unsigned number.
Rows == 0..(rowCount - 1)

Line(row) == m_api_output_lines[row + 1]

\* Mutant of HasData: enough columns for the rain are enough.
HasRain(row) == Len(Line(row)) >= 5

\* data shows a row that has all seven columns; another one stays empty.
HasData(row) == Len(Line(row)) >= 7

\* get_rain_ammount throws: the program prints the rain since the first hour,
\* and the rain of one hour takes that column of two rows.
RainThrows(row) ==
    \/ Len(Line(row)) < 5
    \/ row > 0 /\ Len(Line(row - 1)) < 5

\* A column is missing that the roles of a row read: one of its own, or the
\* rain of the row before, whose length nobody looks at.
Throws(row) == HasData(row) /\ (Len(Line(row)) < 7 \/ RainThrows(row))

-----------------------------------------------------------------------------

TypeOK ==
    /\ process \in {"up", "exited", "aborted"}
    /\ due \in BOOLEAN
    /\ running \in BOOLEAN
    /\ m_api_output_lines \in Seq(Seq(Int))

\* main has called populate.
Init ==
    /\ process = "up"
    /\ due = FALSE
    /\ running = TRUE
    /\ m_api_output_lines = <<>>

\* Timeouts that are not handled in time are one timeout.
HourPasses ==
    /\ process = "up"
    /\ ~due
    /\ due' = TRUE
    /\ UNCHANGED <<process, running, m_api_output_lines>>

\* m_timer calls populate, which starts the program.
HandleHour ==
    /\ process = "up"
    /\ ~running
    /\ due
    /\ due' = FALSE
    /\ running' = TRUE
    /\ UNCHANGED <<process, m_api_output_lines>>

\* The text the program leaves if it dies in cell k + 1 of piece n + 1.
Cut(report, n, k, fragment) ==
    Append(SubSeq(report, 1, n), Append(SubSeq(report[n + 1], 1, k), fragment))

\* read_weather ends with the program, and populate replaces the lines.
ProgramEnds ==
    /\ process = "up"
    /\ running
    /\ running' = FALSE
    /\ \E report \in Reports :
       \E n \in 0..(Len(report) - 1), fragment \in Fragments :
       \E k \in 0..(Len(report[n + 1]) - 1) :
           m_api_output_lines' = split_api_output(Cut(report, n, k, fragment))
    /\ UNCHANGED <<process, due>>

\* popen fails: exit(1).
PopenFails ==
    /\ process = "up"
    /\ running
    /\ process' = "exited"
    /\ running' = FALSE
    /\ UNCHANGED <<due, m_api_output_lines>>

\* The page reads a row whose roles need a missing column: at throws, nobody
\* catches.
ReadThrows ==
    /\ process = "up"
    /\ ~running
    /\ \E row \in Rows : Throws(row)
    /\ process' = "aborted"
    /\ UNCHANGED <<due, running, m_api_output_lines>>

Next ==
    \/ HourPasses
    \/ HandleHour
    \/ ProgramEnds
    \/ PopenFails
    \/ ReadThrows

Spec == Init /\ [][Next]_vars

-----------------------------------------------------------------------------

\* Whatever the program prints and wherever it dies, the application
\* survives reading the forecast unless a line has no column for the rain:
\* the guard of data and the dropped ends of lines cover the rest.
OnlyShortLinesAbort ==
    process = "aborted" =>
        \E i \in DOMAIN m_api_output_lines : Len(m_api_output_lines[i]) < 5

\* Each row shown is a whole line of one report, at its place after the
\* header, also when the program was cut off: no fragment is ever shown.
RowsAreOfReport ==
    \E report \in Reports :
        \A row \in Rows :
            Line(row) = SubSeq(report[row + 2], 1, Len(report[row + 2]) - 1)

=============================================================================
