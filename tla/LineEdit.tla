------------------------------ MODULE LineEdit ------------------------------
(***************************************************************************)
(* The shell's line editor (src/src/shell.c) on the text console           *)
(* (src/src/console.c, cursor.c).                                          *)
(*                                                                         *)
(* A character cell of the screen is one value; the pixels are left out.   *)
(* Only the prompt's row is kept, with what was drawn on it since the      *)
(* prompt: older text, which the console writes over because it starts     *)
(* again at the top and never scrolls, is taken for blank.  A line that    *)
(* breaks has left that row, and is no longer looked at.                   *)
(***************************************************************************)
EXTENDS Integers, Sequences, Characters

CONSTANTS
    Letters,       \* printing characters but the space
    LineCapacity,  \* LINE_CAPACITY
    Columns,       \* of the screen, in character cells
    MaxTabs        \* a bound of the model: tabs in a line

ASSUME LineAssumption == /\ LineCapacity \in Nat /\ LineCapacity > 1
                         /\ Columns \in Nat /\ MaxTabs \in Nat
                         /\ Letters \intersect {SPACE, NUL} = {}

VARIABLES
    line,    \* the variable of shell_main
    console, \* the cursor's column, where it is drawn, and the row's cells
    typed,   \* history: the characters of the line, by its keys
    tabs     \* the model's count of tabs

lineVars == <<line, console, typed, tabs>>

SCREEN_MARGIN_X == 2
Screen == 0 .. Columns - 1
Blank  == [x \in Screen |-> SPACE]

-----------------------------------------------------------------------------
(* console.c and cursor.c, as functions of the console's state.            *)

\* What is off the screen, or on another row, is not drawn.
Paint(c, x, what) == IF x \in Screen /\ ~c.left THEN [c EXCEPT !.cells[x] = what] ELSE c

\* A glyph is drawn over what is there; the space has no pixels.
Overlay(c, x, ch) ==
    IF ch = SPACE \/ x \notin Screen THEN c
    ELSE Paint(c, x, IF c.cells[x] = SPACE THEN ch ELSE "mess")

Move(c, dx) == [c EXCEPT !.x = @ + dx]

erase_cursor(c) == IF c.drawn < 0 THEN c ELSE [Paint(c, c.drawn, SPACE) EXCEPT !.drawn = -1]

update_cursor(c) == [Paint(erase_cursor(c), c.x, "cursor") EXCEPT !.drawn = c.x]

\* Into the margin, then to the next row behind the last column.
Placed(c) ==
    LET right == IF c.x < SCREEN_MARGIN_X THEN [c EXCEPT !.x = SCREEN_MARGIN_X] ELSE c
    IN  IF right.x < Columns THEN right
        ELSE [right EXCEPT !.x = SCREEN_MARGIN_X, !.left = TRUE, !.cells = Blank]

print_char(c, ch) == LET p == Placed(erase_cursor(c)) IN Move(Overlay(p, p.x, ch), 1)

\* Fault: the cursor is not drawn in its new place.
erase_unseen(c) == LET m == Move(c, -1) IN Paint(m, m.x, SPACE)

erase_previous_cell(c) == LET m == Move(c, -1) IN update_cursor(Paint(m, m.x, SPACE))

-----------------------------------------------------------------------------
(* The line.                                                               *)

Cells == 0 .. LineCapacity - 1

line_reset(l) == [l EXCEPT !.index = 0, !.command_length = 0, !.in_command = TRUE,
                           !.command[0] = NUL, !.arg[0] = NUL]

\* After "\n>" is printed.
Prompted == update_cursor([x |-> SCREEN_MARGIN_X + 1, left |-> FALSE, cells |-> Blank, drawn |-> -1])

\* The buffers of the line are on the stack, with anything in them.
LineInit == /\ \E g \in Letters :
                   LET any == [i \in Cells |-> g]
                   IN  line = line_reset([command |-> any, arg |-> any, index |-> 0,
                                          command_length |-> 0, in_command |-> TRUE])
            /\ console = Prompted
            /\ typed = <<>> /\ tabs = 0

NewLine == /\ line' = line_reset(line)
           /\ console' = Prompted
           /\ typed' = <<>> /\ tabs' = 0

line_target(l) == IF l.in_command THEN l.command ELSE l.arg

\* The line with b in place of its target.
Refill(l, b) == IF l.in_command THEN [l EXCEPT !.command = b] ELSE [l EXCEPT !.arg = b]

\* A key typed behind the last cell is lost.
line_append(ch) ==
    LET target == [line_target(line) EXCEPT ![line.index] = ch, ![line.index + 1] = NUL] IN
    /\ line.index < LineCapacity - 1
    /\ line' = [Refill(line, target) EXCEPT !.index = @ + 1]
    /\ console' = update_cursor(print_char(console, ch))
    /\ typed' = Append(typed, ch)
    /\ UNCHANGED tabs

\* The first space ends the command.
line_space == /\ line.in_command
              /\ line' = [line EXCEPT !.command[line.index] = NUL,
                                      !.command_length = line.index,
                                      !.in_command = FALSE, !.index = 0, !.arg[0] = NUL]
              /\ console' = update_cursor(Move(console, 1))
              /\ typed' = Append(typed, SPACE)
              /\ UNCHANGED tabs

\* A tab is seen, and is no part of the line.
line_tab == /\ tabs < MaxTabs
            /\ tabs' = tabs + 1
            /\ console' = update_cursor(Move(console, 4))
            /\ UNCHANGED <<line, typed>>

TakeBack == /\ console' = erase_previous_cell(console)
            /\ typed' = SubSeq(typed, 1, Len(typed) - 1)
            /\ UNCHANGED tabs

BackspaceChar == /\ line.index > 0
                 /\ line' = [Refill(line, [line_target(line) EXCEPT ![line.index - 1] = NUL])
                               EXCEPT !.index = @ - 1]
                 /\ TakeBack

\* Fault: going back into the command forgets where it ended.
backspace_restart == /\ ~line.in_command /\ line.index = 0
                     /\ line' = [line EXCEPT !.in_command = TRUE]
                     /\ TakeBack

\* Back over the space, into the command.
BackspaceSpace == /\ ~line.in_command /\ line.index = 0
                  /\ line' = [line EXCEPT !.in_command = TRUE,
                                          !.index = line.command_length,
                                          !.command[line.command_length] = NUL,
                                          !.arg[0] = NUL]
                  /\ TakeBack

\* handle_key for every key but Enter.
Typing == \/ \E ch \in Letters : line_append(ch)
          \/ line_space
          \/ ~line.in_command /\ line_append(SPACE)
          \/ line_tab
          \/ BackspaceChar \/ BackspaceSpace

-----------------------------------------------------------------------------
\* The C string in a buffer.
CString(buffer) ==
    LET n == CHOOSE i \in DOMAIN buffer : buffer[i] = NUL /\ \A j \in 0 .. i - 1 : buffer[j] # NUL
    IN  [i \in 1 .. n |-> buffer[i - 1]]

\* While the cursor is where the line ends on the prompt's row (no tab, no
\* break), the row shows the line, whatever was typed and taken back, over the
\* border of command and argument and at a full buffer.
EchoMatches ==
    ~console.left /\ console.x = SCREEN_MARGIN_X + 1 + Len(typed) =>
        \A x \in SCREEN_MARGIN_X + 1 .. Columns - 1 :
            LET i == x - SCREEN_MARGIN_X
            IN  console.cells[x] = IF i <= Len(typed) THEN typed[i]
                                   ELSE IF i = Len(typed) + 1 THEN "cursor" ELSE SPACE
=============================================================================
