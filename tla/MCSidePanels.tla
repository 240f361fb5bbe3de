---------------------------- MODULE MCSidePanels ----------------------------
(***************************************************************************)
(* Values for SidePanels: reports of up to four lines after the header,    *)
(* the rain in the fifth column.  A comma ends each line, and a newline    *)
(* the text.                                                               *)
(***************************************************************************)
EXTENDS SidePanels

\* A line of some columns, before the cell that its last comma opens.
Columns(n, rain) == [c \in 1..(n + 1) |-> IF c = 5 THEN rain ELSE 0]

Header == [c \in 1..8 |-> -1]
TextEnd == <<0>>

\* Three hours and the line that is never shown; an hour of six columns,
\* which stays empty, before a whole one; an hour of four before a whole one;
\* a message without any comma.
Dry == <<Header, Columns(7, 1), Columns(7, 3), Columns(7, 3), Columns(7, 4), TextEnd>>
Wide == <<Header, Columns(6, 2), Columns(7, 2), Columns(7, 5), TextEnd>>
Narrow == <<Header, Columns(4, 0), Columns(7, 1), Columns(7, 1), TextEnd>>
Message == <<<<0>>, TextEnd>>

MCReports == {Dry, Wide, Narrow, Message}

=============================================================================
