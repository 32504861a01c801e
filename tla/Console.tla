------------------------------ MODULE Console ------------------------------
(***************************************************************************)
(* The screen in graphics mode, kernel/lib/console.c.  A character is a    *)
(* rectangle of 8 by 16 pixels; what is drawn in it is left out, and where *)
(* it is says whether it is in the frame buffer.  When vmm_install enables *)
(* paging the frame buffer is gone, until its loop at the end has mapped   *)
(* it, up to the end of its last page; what is next to it is never mapped. *)
(***************************************************************************)
EXTENDS Text

CONSTANTS
  FrameBuffers,  \* width and height in pixels, pitch in bytes
  PAGE,          \* 4096
  BACK           \* bound: how many lines above the screen a lost cursor is
                 \* followed, while paging does not stop it

ASSUME FrameBuffersAssumption ==
  /\ PAGE \in Nat \ {0}
  /\ BACK \in Nat \ {0}
  /\ \A f \in FrameBuffers :
       /\ f.width \in Nat /\ f.width >= 16
       /\ f.height \in Nat /\ f.height >= 16
       /\ f.pitch \in Nat /\ f.pitch >= f.width

VARIABLES
  fb,
  paging,   \* "off", "on", or "mapped" when the frame buffer has been mapped
  console   \* its x, y, foreground and background; as ghost, whether it
            \* is not on the screen: by a backspace, by scrolling that
            \* faults, or by an exception in the middle of a character

border == (fb.height % 16) \div 2

\* console_init.
width  == (fb.width - border) \div 8
height == fb.height \div 16

\* The colour of a code in a table of sixteen; -1 is a grey for 0, and -2 black
\* for what is no code.
ansi_to_rgb(ansi) ==
  CASE ansi = 0            -> -1
    [] ansi \in 30 .. 37   -> ansi - 30
    [] ansi \in 40 .. 47   -> ansi - 40
    [] ansi \in 90 .. 97   -> ansi - 82
    [] ansi \in 100 .. 107 -> ansi - 92
    [] OTHER               -> -2

ConsoleTypeOK ==
  /\ fb \in FrameBuffers
  /\ paging \in {"off", "on", "mapped"}
  /\ console.x \in 0 .. width
  /\ console.y \in (-BACK) .. height
  /\ ansi_to_rgb(console.foreground) \in 0 .. 15
  /\ ansi_to_rgb(console.background) \in 0 .. 15
  /\ console.lost \in BOOLEAN

ConsoleInit ==
  /\ fb \in FrameBuffers
  /\ paging = "off"
  /\ console = [x |-> 0, y |-> 0, foreground |-> 37, background |-> 40,
                lost |-> FALSE]

-----------------------------------------------------------------------------
(***************************************************************************)
(* What fb_draw_char and console_draw_cursor draw at a position of the     *)
(* cursor: the lines from one to the fifteenth, of eight pixels each.      *)
(***************************************************************************)
Pixel(c, line, column) ==
  (c.y * 16 + line + border) * fb.width + c.x * 8 + border + column

InFrame(c, from) ==
  Pixel(c, from, 0) >= 0 /\ Pixel(c, 15, 7) < fb.width * fb.height

\* console_scroll copies all but sixteen lines, from sixteen lines and the
\* border on: it reads as many lines beyond the end as the border has.
Pages(bytes) == (bytes + PAGE - 1) \div PAGE

ScrollIsMapped == (fb.height + border) * fb.pitch <= Pages(fb.height * fb.pitch) * PAGE

(***************************************************************************)
(* console_putchar.                                                        *)
(***************************************************************************)
\* Mutant: the row is one cell longer.
WideBeyond(c) == c.x > width

Wide(c) == c.x >= width

Moved(c, char) ==
  CASE char = "NL" -> [c EXCEPT !.x = width]
    [] char = "BS" /\ c.x # 0 -> [c EXCEPT !.x = @ - 1]
    [] char = "BS" /\ c.x = 0 ->
         [c EXCEPT !.x = width - 1, !.y = @ - 1, !.lost = @ \/ c.y = 0]
    [] OTHER -> [c EXCEPT !.x = @ + 1]

Scrolls(c) == Wide(c) /\ c.y + 1 >= height

NextLine(c) == [c EXCEPT !.x = 0, !.y = @ + 1]

Wrapped(c) ==
  LET line == IF Wide(c) THEN NextLine(c) ELSE c
      up   == IF Scrolls(c) THEN [line EXCEPT !.y = @ - 1] ELSE line
  IN  [up EXCEPT !.lost = @ /\ up.y \notin 0 .. (height - 1)]

console_putchar(c, char) == Wrapped(Moved(c, char))

\* On its way: the line is full, or the screen, and that has not been seen to.
Halfway(c, char) ==
  LET moved == Moved(c, char)
  IN  (IF Wide(moved) THEN {[moved EXCEPT !.lost = TRUE]} ELSE {}) \union
      (IF Scrolls(moved) THEN {[NextLine(moved) EXCEPT !.lost = TRUE]} ELSE {})

\* It draws at the cursor, and after a backspace where that has gone.
Outside(c, char) ==
  \/ ~InFrame(c, 0)
  \/ char = "BS" /\ ~InFrame(Moved(c, char), 0)

DrawingFaults(c, char) == paging = "on" \/ (paging = "mapped" /\ Outside(c, char))

Faults(c, char) ==
  \/ DrawingFaults(c, char)
  \/ paging = "mapped" /\ Scrolls(Moved(c, char)) /\ ~ScrollIsMapped

\* Where the cursor is when it faults: a backspace draws once more when it has
\* moved, and a scroll is on its way from below the screen.
Left(c, char) ==
  IF paging = "on" \/ ~InFrame(c, 0) THEN c
  ELSE IF Outside(c, char) THEN Moved(c, char)
  ELSE [NextLine(c) EXCEPT !.lost = TRUE]

\* The cursor itself, at the end, is the last three lines.
EndFaults(c) == paging = "on" \/ (paging = "mapped" /\ ~InFrame(c, 13))

-----------------------------------------------------------------------------
(***************************************************************************)
(* console_write.                                                          *)
(***************************************************************************)
ConsoleReading == fate = "up" /\ rest # <<>>

ConsoleStops(why, c) ==
  /\ fate' = why
  /\ console' = c
  /\ UNCHANGED <<fb, paging, shown, rest>>

ConsoleOverruns ==
  /\ ConsoleReading
  /\ IsSequence(rest)
  /\ Overruns(rest)
  /\ ConsoleStops("ubsan", console)

Coloured(c, code) ==
  [c EXCEPT !.foreground = IF code = 0 THEN 37
                           ELSE IF OfForeground(code) THEN code ELSE @,
            !.background = IF code = 0 THEN 40
                           ELSE IF OfBackground(code) THEN code ELSE @]

ConsoleColours ==
  /\ ConsoleReading
  /\ IsSequence(rest)
  /\ ~Overruns(rest)
  /\ After(rest, EndOfSequence(rest)) = <<>> => ~EndFaults(console)
  /\ console' = Coloured(console, atoi(Parameter(rest)))
  /\ rest' = After(rest, EndOfSequence(rest))
  /\ UNCHANGED <<fb, paging, shown, fate>>

ConsolePuts ==
  /\ ConsoleReading
  /\ ~IsSequence(rest)
  /\ ~Faults(console, Head(rest))
  /\ console_putchar(console, Head(rest)).y >= -BACK
  /\ console' = console_putchar(console, Head(rest))
  /\ Draws(Head(rest))
  /\ rest' = Tail(rest)
  /\ UNCHANGED <<fb, paging, fate>>

ConsoleFaults ==
  /\ ConsoleReading
  /\ ~IsSequence(rest)
  /\ Faults(console, Head(rest))
  /\ ConsoleStops("fault", Left(console, Head(rest)))

\* The text ends with a sequence.
ConsoleEndFaults ==
  /\ ConsoleReading
  /\ IsSequence(rest)
  /\ ~Overruns(rest)
  /\ After(rest, EndOfSequence(rest)) = <<>>
  /\ EndFaults(console)
  /\ ConsoleStops("fault", Coloured(console, atoi(Parameter(rest))))

\* Above the frame buffer the index is unsigned and wraps around, which the
\* sanitizer may notice.
ConsoleWraps ==
  /\ ConsoleReading
  /\ ~IsSequence(rest)
  /\ LET stopped == Left(console, Head(rest))
     IN  /\ Outside(console, Head(rest))
         /\ Pixel(stopped, 0, 0) < 0
         /\ ConsoleStops("ubsan", stopped)

console_write ==
  \/ ConsoleOverruns
  \/ ConsoleColours
  \/ ConsolePuts
  \/ ConsoleFaults
  \/ ConsoleEndFaults
  \/ ConsoleWraps

-----------------------------------------------------------------------------
\* What is drawn at the cursor is in the frame buffer, and on its line.
ConsoleCursorOnScreen ==
  \/ console.lost
  \/ /\ InFrame(console, 0)
     /\ console.x * 8 + border + 8 <= fb.width
=============================================================================
