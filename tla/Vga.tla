-------------------------------- MODULE Vga --------------------------------
(***************************************************************************)
(* The screen in text mode, kernel/dev/vga.c.  The cells are written at    *)
(* the cursor only, so that where it is says whether they are on the       *)
(* screen; what is in them is left out.                                    *)
(***************************************************************************)
EXTENDS Text

CONSTANTS
  COLS,  \* 80
  ROWS,  \* 25
  BYTE   \* 256: the number of values of vga_x and of vga_y

ASSUME VgaAssumption ==
  /\ COLS \in Nat /\ ROWS \in Nat /\ BYTE \in Nat
  /\ 0 < COLS /\ COLS < BYTE
  /\ 0 < ROWS /\ ROWS < BYTE

VARIABLES
  vga,        \* vga_x and vga_y; as ghost, whether they are not on the screen:
              \* by a backspace, or an exception in the middle of a character
  vga_color  \* its lower half; the upper is never anything but 0

Cursor == [x : 0 .. (BYTE - 1), y : 0 .. (BYTE - 1), lost : BOOLEAN]

VgaTypeOK ==
  /\ vga \in Cursor
  /\ vga_color \in 0 .. 15

VgaInit ==
  /\ vga = [x |-> 0, y |-> 0, lost |-> FALSE]
  /\ vga_color = 7

table == <<0, 4, 2, 6, 1, 5, 3, 7, 8, 12, 10, 14, 9, 13, 11, 15>>

\* Mutant: the bright colours are found by the number of the others.
SameOffset(code) == IF code \in 30 .. 37 THEN table[code - 30 + 1] ELSE code - 30

ansi_to_vga(code) ==
  IF code \in 30 .. 37 THEN table[code - 30 + 1] ELSE table[code - 82 + 1]

\* The code of a background, less than 16, is masked with 0xF0.
Colours(code) ==
  vga_color' = IF code = 0 THEN 7
                ELSE IF OfForeground(code) THEN ansi_to_vga(code)
                ELSE vga_color

-----------------------------------------------------------------------------
(***************************************************************************)
(* vga_putchar.                                                            *)
(***************************************************************************)
\* Mutant: the line is one cell longer.
FullBeyond(v) == v.x > COLS

Full(v) == v.x >= COLS

NextRow(v) == [v EXCEPT !.x = 0, !.y = (@ + 1) % BYTE]

\* Its end: a new line if this one is full, and vga_scroll.
Settles(v) ==
  LET line == IF Full(v) THEN NextRow(v) ELSE v
      up   == IF line.y >= ROWS THEN [line EXCEPT !.y = @ - 1] ELSE line
  IN  [up EXCEPT !.lost = @ /\ up.y >= ROWS]

Moves(v, c) ==
  CASE c = "NL" -> [v EXCEPT !.x = COLS]
    [] c = "BS" /\ v.x > 0 -> [v EXCEPT !.x = @ - 1]
    [] c = "BS" /\ v.x = 0 ->
         [x |-> COLS - 1, y |-> (v.y - 1) % BYTE, lost |-> v.lost \/ v.y = 0]
    [] OTHER -> [v EXCEPT !.x = @ + 1]

PutOne(v, c) == Settles(Moves(v, c))

\* On its way: the line is full, or the screen, and that has not been seen to.
VgaHalfway(v, c) ==
  LET moved == Moves(v, c)
  IN  IF Full(moved)
      THEN {[moved EXCEPT !.lost = TRUE], [NextRow(moved) EXCEPT !.lost = @ \/ v.y + 1 >= ROWS]}
      ELSE {}

PutBlank == [v \in Cursor |-> PutOne(v, " ")]

\* A tab is four blanks, and then the end of vga_putchar once more.
vga_putchar(v, c) ==
  IF c = "TAB"
  THEN Settles(PutBlank[PutBlank[PutBlank[PutBlank[v]]]])
  ELSE PutOne(v, c)

-----------------------------------------------------------------------------
(***************************************************************************)
(* vga_puts, a turn of its loop for each kind of what comes next.          *)
(***************************************************************************)
Reading == fate = "up" /\ rest # <<>>

VgaClears ==
  /\ Reading
  /\ Begins(rest, <<"ESC", "[", "2", "J">>)
  /\ rest' = After(rest, 4)
  /\ UNCHANGED <<vga, vga_color, shown, fate>>

VgaHomes ==
  /\ Reading
  /\ Begins(rest, <<"ESC", "[", "H">>)
  /\ vga' = [x |-> 0, y |-> 0, lost |-> FALSE]
  /\ rest' = After(rest, 3)
  /\ UNCHANGED <<vga_color, shown, fate>>

IsColour ==
  /\ Reading
  /\ IsSequence(rest)
  /\ ~Begins(rest, <<"ESC", "[", "2", "J">>)
  /\ ~Begins(rest, <<"ESC", "[", "H">>)

VgaOverruns ==
  /\ IsColour
  /\ Overruns(rest)
  /\ fate' = "ubsan"
  /\ UNCHANGED <<vga, vga_color, shown, rest>>

\* What follows the sequence is put on the screen unread, zeros included.
VgaColours ==
  /\ IsColour
  /\ ~Overruns(rest)
  /\ Colours(atoi(Parameter(rest)))
  /\ LET behind == After(rest, EndOfSequence(rest))
     IN  /\ vga' = vga_putchar(vga, First(behind))
         /\ Draws(First(behind))
         /\ rest' = Behind(behind)
  /\ UNCHANGED fate

VgaPuts ==
  /\ Reading
  /\ ~IsSequence(rest)
  /\ vga' = vga_putchar(vga, Head(rest))
  /\ Draws(Head(rest))
  /\ rest' = Tail(rest)
  /\ UNCHANGED <<vga_color, fate>>

vga_puts == VgaClears \/ VgaHomes \/ VgaOverruns \/ VgaColours \/ VgaPuts

-----------------------------------------------------------------------------
\* Where the next cell will be written (vga.c:84, 90).
VgaCursorOnScreen == vga.lost \/ (vga.x < COLS /\ vga.y < ROWS)
=============================================================================
