------------------------------- MODULE Screen -------------------------------
(***************************************************************************)
(* The console window main.cpp writes to: a grid of cells and a cursor.    *)
(* A cell holds what wrote it last: line k of the frame being shown (k >   *)
(* 0), or one of the marks below.  Text wider than the window, and the     *)
(* scrollback above it, are left out.                                      *)
(***************************************************************************)
EXTENDS Integers, Sequences

CONSTANTS Height, Width     \* of the window, in cells

\* There is a row above the last one, and room after two escape sequences.
ASSUME WindowAssumption == Height \in Nat /\ Height > 1 /\ Width \in Nat /\ Width > 2

Blank   == 0
Shell   == -1       \* what was in the window when the program started
Past    == -2       \* a frame before the one being shown
Garbage == -3       \* an escape sequence the console does not interpret
Message == -4       \* "Shutting down."
Cells   == {Blank, Shell, Past, Garbage, Message}

BlankRow == [c \in 1 .. Width |-> Blank]

\* A shell filled the rows above the cursor.
ShellScreen(row) ==
    [rows |-> [r \in 1 .. Height |-> IF r < row THEN [c \in 1 .. Width |-> Shell]
                                     ELSE BlankRow],
     row  |-> row, col |-> 1]

\* "\n": the next row, which may scroll the window by one.
NewLine(s) ==
    IF s.row < Height THEN [s EXCEPT !.row = @ + 1, !.col = 1]
    ELSE [rows |-> [r \in 1 .. Height |-> IF r < Height THEN s.rows[r + 1] ELSE BlankRow],
          row  |-> Height, col |-> 1]

\* Text overwrites the cells it is printed on, and no others.
Text(s, cell, width) ==
    [s EXCEPT !.rows[s.row] = [c \in 1 .. Width |->
                                  IF s.col <= c /\ c < s.col + width THEN cell ELSE @[c]],
              !.col = @ + width]

\* A frame, given by the widths of its lines.
PrintFrame(s, widths) ==
    LET print[k \in 0 .. Len(widths)] ==
            IF k = 0 THEN s ELSE NewLine(Text(print[k - 1], k, widths[k]))
    IN  print[Len(widths)]

\* What was the frame being shown is now an earlier one.
Aged(s) ==
    [s EXCEPT !.rows = [r \in 1 .. Height |-> [c \in 1 .. Width |->
                           IF s.rows[r][c] > 0 THEN Past ELSE s.rows[r][c]]]]

Escape(s) == Text(s, Garbage, 1)

\* Mutated: nothing is homed, and every frame starts where the last ended.
CursorHome_No(s, ansi) == s
\* ESC [H
CursorHome(s, ansi) == IF ansi THEN [s EXCEPT !.row = 1, !.col = 1] ELSE Escape(s)

\* Mutated: nothing is cleared.
ClearBelowCursor_No(s, ansi) == s
\* ESC [0J, from the cursor to the end of the window.
ClearBelowCursor(s, ansi) ==
    IF ansi
    THEN [s EXCEPT !.rows = [r \in 1 .. Height |-> [c \in 1 .. Width |->
                                IF r < s.row \/ (r = s.row /\ c < s.col) THEN @[r][c]
                                ELSE Blank]]]
    ELSE Escape(s)

Goodbye(s, width) == NewLine(Text(NewLine(s), Message, width))
=============================================================================
