---------------------------- MODULE Stops_proofs ----------------------------
(***************************************************************************)
(* Proofs about the two screens, for text mode of any size, any frame      *)
(* buffer of at least one character, and any text, printed by the kernel   *)
(* or by its reports.                                                      *)
(***************************************************************************)
EXTENDS Stops, SequenceTheorems, WellFoundedInduction, TLAPS

\* A cursor that is not on the screen has been lost; its column is at most one
\* too far.
VgaState ==
  /\ VgaTypeOK
  /\ vga.x <= COLS
  /\ vga.lost \/ (vga.x < COLS /\ vga.y < ROWS)

\* The codes of a colour; those that ansi_to_rgb finds one for, but 0.
Codes == (30 .. 37) \union (40 .. 47) \union (90 .. 97) \union (100 .. 107)

ConsoleState ==
  /\ fb \in FrameBuffers
  /\ paging \in {"off", "on", "mapped"}
  /\ console \in [x : 0 .. width, y : (-BACK) .. height,
                  foreground : Codes, background : Codes, lost : BOOLEAN]
  /\ console.lost \/ (console.x < width /\ console.y \in 0 .. (height - 1))

\* Before the first stop nothing has been left in the middle of a character,
\* but for what is about to stop.
NothingHalfway ==
  stops = <<>> =>
    /\ vga.x < COLS
    /\ console.x < width
    /\ fate = "up" => console.y < height

IInv ==
  /\ VgaState
  /\ ConsoleState
  /\ stops \in Seq(Kinds)
  /\ NothingHalfway

-----------------------------------------------------------------------------
(***************************************************************************)
(* Text mode.                                                              *)
(***************************************************************************)
\* Where the cursor may be, lost or not.
Written(v) ==
  /\ v \in Cursor
  /\ v.x < COLS
  /\ v.lost \/ v.y < ROWS

LEMMA CursorFacts ==
  ASSUME NEW v \in Cursor
  PROVE  /\ v = [x |-> v.x, y |-> v.y, lost |-> v.lost]
         /\ v.x \in 0 .. (BYTE - 1) /\ v.y \in 0 .. (BYTE - 1) /\ v.lost \in BOOLEAN
         /\ COLS \in Nat /\ ROWS \in Nat /\ BYTE \in Nat
         /\ 0 < COLS /\ COLS < BYTE /\ 0 < ROWS /\ ROWS < BYTE
BY VgaAssumption DEF Cursor

LEMMA MovesFacts ==
  ASSUME NEW v \in Cursor, v.x <= COLS, v.lost \/ v.y < ROWS, NEW c
  PROVE  \E x \in 0 .. (COLS + 1), y \in 0 .. (BYTE - 1), lost \in BOOLEAN :
           /\ Moves(v, c) = [x |-> x, y |-> y, lost |-> lost]
           /\ lost \/ y < ROWS
           /\ v.x < COLS => x <= COLS
           /\ x >= COLS => y = v.y /\ lost = v.lost
<1>1. /\ v = [x |-> v.x, y |-> v.y, lost |-> v.lost]
      /\ v.x \in 0 .. (BYTE - 1) /\ v.y \in 0 .. (BYTE - 1) /\ v.lost \in BOOLEAN
      /\ COLS \in Nat /\ ROWS \in Nat /\ BYTE \in Nat
      /\ 0 < COLS /\ COLS < BYTE /\ 0 < ROWS /\ ROWS < BYTE
  BY CursorFacts
<1>2. CASE c = "NL"
  <2>1. Moves(v, c) = [x |-> COLS, y |-> v.y, lost |-> v.lost]
    BY <1>1, <1>2 DEF Moves
  <2> QED
    BY <1>1, <2>1
<1>3. CASE c = "BS" /\ v.x > 0
  <2>1. Moves(v, c) = [x |-> v.x - 1, y |-> v.y, lost |-> v.lost]
    BY <1>1, <1>3 DEF Moves
  <2>2. v.x - 1 \in 0 .. (COLS + 1) /\ v.x - 1 < COLS
    BY <1>1, <1>3
  <2> QED
    BY <1>1, <2>1, <2>2
<1>4. CASE c = "BS" /\ ~(v.x > 0)
  <2>1. v.x = 0
    BY <1>1, <1>4
  <2>2. PICK y \in 0 .. (BYTE - 1) : y = (v.y - 1) % BYTE
    BY <1>1
  <2>3. PICK lost \in BOOLEAN : lost = (v.lost \/ v.y = 0)
    OBVIOUS
  <2>4. Moves(v, c) = [x |-> COLS - 1, y |-> y, lost |-> lost]
    BY <1>4, <2>1, <2>2, <2>3 DEF Moves
  <2>5. lost \/ y < ROWS
    <3>1. CASE v.lost \/ v.y = 0
      BY <2>3, <3>1
    <3>2. CASE ~v.lost /\ v.y # 0
      <4>1. (v.y - 1) % BYTE = v.y - 1
        BY <1>1, <3>2
      <4> QED
        BY <1>1, <2>2, <3>2, <4>1
    <3> QED
      BY <3>1, <3>2
  <2>6. COLS - 1 \in 0 .. (COLS + 1) /\ ~(COLS - 1 >= COLS) /\ COLS - 1 <= COLS
    BY <1>1
  <2> QED
    BY <2>4, <2>5, <2>6
<1>5. CASE c # "NL" /\ c # "BS"
  <2>1. Moves(v, c) = [x |-> v.x + 1, y |-> v.y, lost |-> v.lost]
    BY <1>1, <1>5 DEF Moves
  <2>2. v.x + 1 \in 0 .. (COLS + 1) /\ (v.x < COLS => v.x + 1 <= COLS)
    BY <1>1
  <2> QED
    BY <1>1, <2>1, <2>2
<1> QED
  BY <1>2, <1>3, <1>4, <1>5

LEMMA SettlesFacts ==
  ASSUME NEW x \in 0 .. (COLS + 1), NEW y \in 0 .. (BYTE - 1),
         NEW lost \in BOOLEAN, lost \/ y < ROWS
  PROVE  Written(Settles([x |-> x, y |-> y, lost |-> lost]))
<1> DEFINE v == [x |-> x, y |-> y, lost |-> lost]
<1>1. /\ COLS \in Nat /\ ROWS \in Nat /\ BYTE \in Nat
      /\ 0 < COLS /\ COLS < BYTE /\ 0 < ROWS /\ ROWS < BYTE
  BY VgaAssumption
<1>2. PICK x1 \in 0 .. (COLS - 1), y1 \in 0 .. (BYTE - 1) :
        /\ (IF Full(v) THEN NextRow(v) ELSE v) = [x |-> x1, y |-> y1, lost |-> lost]
        /\ lost \/ y1 <= ROWS
  <2>1. CASE x >= COLS
    <3>1. PICK y1 \in 0 .. (BYTE - 1) : y1 = (y + 1) % BYTE
      BY <1>1
    <3>2. (IF Full(v) THEN NextRow(v) ELSE v) = [x |-> 0, y |-> y1, lost |-> lost]
      BY <2>1, <3>1 DEF Full, NextRow
    <3>3. lost \/ y1 <= ROWS
      <4>1. CASE y < ROWS
        <5>1. (y + 1) % BYTE = y + 1
          BY <1>1, <4>1
        <5> QED
          BY <1>1, <3>1, <4>1, <5>1
      <4> QED
        BY <4>1
    <3>4. 0 \in 0 .. (COLS - 1)
      BY <1>1
    <3> QED
      BY <3>2, <3>3, <3>4
  <2>2. CASE ~(x >= COLS)
    <3>1. (IF Full(v) THEN NextRow(v) ELSE v) = v
      BY <2>2 DEF Full
    <3>2. x \in 0 .. (COLS - 1) /\ (lost \/ y <= ROWS)
      BY <1>1, <2>2
    <3> QED
      BY <3>1, <3>2
  <2> QED
    BY <2>1, <2>2
<1> DEFINE line == [x |-> x1, y |-> y1, lost |-> lost]
<1>3. PICK y2 \in 0 .. (BYTE - 1) :
        /\ (IF line.y >= ROWS THEN [line EXCEPT !.y = @ - 1] ELSE line) =
             [x |-> x1, y |-> y2, lost |-> lost]
        /\ lost \/ y2 < ROWS
  <2>1. CASE y1 >= ROWS
    <3>1. y1 - 1 \in 0 .. (BYTE - 1) /\ (lost \/ y1 - 1 < ROWS)
      BY <1>1, <1>2, <2>1
    <3>2. (IF line.y >= ROWS THEN [line EXCEPT !.y = @ - 1] ELSE line) =
             [x |-> x1, y |-> y1 - 1, lost |-> lost]
      BY <2>1
    <3> QED
      BY <3>1, <3>2
  <2>2. CASE ~(y1 >= ROWS)
    <3>1. y1 < ROWS
      BY <1>1, <2>2
    <3> QED
      BY <2>2, <3>1
  <2> QED
    BY <2>1, <2>2
<1>4. PICK lost2 \in BOOLEAN : lost2 = (lost /\ y2 >= ROWS)
  OBVIOUS
<1>5. Settles(v) = [x |-> x1, y |-> y2, lost |-> lost2]
  BY <1>2, <1>3, <1>4 DEF Settles
<1>6. lost2 \/ y2 < ROWS
  BY <1>1, <1>3, <1>4
<1>7. x1 \in 0 .. (BYTE - 1) /\ x1 < COLS
  BY <1>1
<1> QED
  BY <1>5, <1>6, <1>7 DEF Written, Cursor

LEMMA PutOneFacts ==
  ASSUME NEW v \in Cursor, v.x <= COLS, v.lost \/ v.y < ROWS, NEW c
  PROVE  Written(PutOne(v, c))
<1>1. PICK x \in 0 .. (COLS + 1), y \in 0 .. (BYTE - 1), lost \in BOOLEAN :
        /\ Moves(v, c) = [x |-> x, y |-> y, lost |-> lost]
        /\ lost \/ y < ROWS
  BY MovesFacts
<1> QED
  BY <1>1, SettlesFacts DEF PutOne

LEMMA WrittenFacts ==
  ASSUME NEW v, Written(v)
  PROVE  v \in Cursor /\ v.x <= COLS /\ (v.lost \/ v.y < ROWS)
BY CursorFacts DEF Written

LEMMA BlankFacts ==
  ASSUME NEW v \in Cursor, v.x <= COLS, v.lost \/ v.y < ROWS
  PROVE  Written(PutBlank[v])
BY PutOneFacts DEF PutBlank

LEMMA PutcharFacts ==
  ASSUME NEW v \in Cursor, v.x <= COLS, v.lost \/ v.y < ROWS, NEW c
  PROVE  Written(vga_putchar(v, c))
<1>1. CASE c # "TAB"
  BY <1>1, PutOneFacts DEF vga_putchar
<1>2. CASE c = "TAB"
  <2>1. PICK v1 : v1 = PutBlank[v] /\ Written(v1)
    BY BlankFacts
  <2>2. PICK v2 : v2 = PutBlank[v1] /\ Written(v2)
    BY <2>1, BlankFacts, WrittenFacts
  <2>3. PICK v3 : v3 = PutBlank[v2] /\ Written(v3)
    BY <2>2, BlankFacts, WrittenFacts
  <2>4. PICK v4 : v4 = PutBlank[v3] /\ Written(v4)
    BY <2>3, BlankFacts, WrittenFacts
  <2>5. vga_putchar(v, c) = Settles(v4)
    BY <1>2, <2>1, <2>2, <2>3, <2>4 DEF vga_putchar
  <2>6. v4 \in Cursor /\ v4.x < COLS /\ (v4.lost \/ v4.y < ROWS)
    BY <2>4 DEF Written
  <2>7. /\ v4 = [x |-> v4.x, y |-> v4.y, lost |-> v4.lost]
        /\ v4.x \in 0 .. (COLS + 1) /\ v4.y \in 0 .. (BYTE - 1)
        /\ v4.lost \in BOOLEAN
    BY <2>6, CursorFacts
  <2>8. Written(Settles([x |-> v4.x, y |-> v4.y, lost |-> v4.lost]))
    BY <2>6, <2>7, SettlesFacts
  <2> QED
    BY <2>5, <2>7, <2>8
<1> QED
  BY <1>1, <1>2

LEMMA HalfwayFacts ==
  ASSUME NEW v \in Cursor, v.x < COLS, v.lost \/ v.y < ROWS, NEW c,
         NEW w \in VgaHalfway(v, c)
  PROVE  /\ w \in Cursor /\ w.x <= COLS
         /\ w.lost \/ (w.x < COLS /\ w.y < ROWS)
<1>1. /\ v.x \in 0 .. (BYTE - 1) /\ v.y \in 0 .. (BYTE - 1) /\ v.lost \in BOOLEAN
      /\ COLS \in Nat /\ ROWS \in Nat /\ BYTE \in Nat
      /\ 0 < COLS /\ COLS < BYTE /\ 0 < ROWS /\ ROWS < BYTE /\ v.x <= COLS
  BY CursorFacts
<1>2. PICK x \in 0 .. (COLS + 1), y \in 0 .. (BYTE - 1), lost \in BOOLEAN :
        /\ Moves(v, c) = [x |-> x, y |-> y, lost |-> lost]
        /\ v.x < COLS => x <= COLS
        /\ x >= COLS => y = v.y /\ lost = v.lost
  BY <1>1, MovesFacts
<1> DEFINE moved == [x |-> x, y |-> y, lost |-> lost]
<1>3. /\ x = COLS /\ y = v.y /\ lost = v.lost
      /\ \/ w = [moved EXCEPT !.lost = TRUE]
         \/ w = [NextRow(moved) EXCEPT !.lost = @ \/ v.y + 1 >= ROWS]
  BY <1>1, <1>2 DEF VgaHalfway, Full
<1>4. CASE w = [moved EXCEPT !.lost = TRUE]
  <2>1. w = [x |-> x, y |-> y, lost |-> TRUE]
    BY <1>4
  <2>2. x \in 0 .. (BYTE - 1)
    BY <1>1, <1>3
  <2> QED
    BY <1>1, <1>3, <2>1, <2>2 DEF Cursor
<1>5. CASE w = [NextRow(moved) EXCEPT !.lost = @ \/ v.y + 1 >= ROWS]
  <2>1. PICK below \in 0 .. (BYTE - 1) : below = (y + 1) % BYTE
    BY <1>1
  <2>2. PICK gone \in BOOLEAN : gone = (lost \/ v.y + 1 >= ROWS)
    OBVIOUS
  <2>3. w = [x |-> 0, y |-> below, lost |-> gone]
    BY <1>5, <2>1, <2>2 DEF NextRow
  <2>4. gone \/ below < ROWS
    <3>1. CASE v.y + 1 >= ROWS
      BY <2>2, <3>1
    <3>2. CASE ~(v.y + 1 >= ROWS)
      <4>1. v.y + 1 < ROWS /\ (v.y + 1) % BYTE = v.y + 1
        BY <1>1, <3>2
      <4> QED
        BY <1>1, <1>3, <2>1, <4>1
    <3> QED
      BY <3>1, <3>2
  <2> QED
    BY <1>1, <2>3, <2>4 DEF Cursor
<1> QED
  BY <1>3, <1>4, <1>5

LEMMA ColourFacts ==
  ASSUME vga_color \in 0 .. 15, NEW code, Colours(code)
  PROVE  vga_color' \in 0 .. 15
<1>1. \A j \in 1 .. 16 : table[j] \in 0 .. 15
  BY DEF table
<1>2. CASE OfForeground(code)
  <2>1. \/ code \in 30 .. 37 /\ code - 30 + 1 \in 1 .. 16
        \/ code \in 90 .. 97 /\ code \notin 30 .. 37 /\ code - 82 + 1 \in 1 .. 16
    BY <1>2 DEF OfForeground
  <2>2. ansi_to_vga(code) \in 0 .. 15
    BY <1>1, <2>1 DEF ansi_to_vga
  <2> QED
    BY <1>2, <2>2 DEF Colours
<1>3. CASE ~OfForeground(code)
  BY <1>3 DEF Colours
<1> QED
  BY <1>2, <1>3

LEMMA VgaPutsKeeps ==
  ASSUME VgaState, vga_puts
  PROVE  VgaState' /\ vga'.x <= COLS /\ (vga.x < COLS => vga'.x < COLS)
<1>1. /\ vga \in Cursor /\ vga.x <= COLS /\ (vga.lost \/ vga.y < ROWS)
      /\ vga_color \in 0 .. 15
      /\ vga.lost \/ (vga.x < COLS /\ vga.y < ROWS)
  BY DEF VgaState, VgaTypeOK
<1>2. CASE Written(vga') /\ vga_color' \in 0 .. 15
  <2>1. vga' \in Cursor /\ vga'.x < COLS /\ vga'.x <= COLS /\ (vga'.lost \/ vga'.y < ROWS)
    BY <1>2, WrittenFacts DEF Written
  <2> QED
    BY <1>2, <2>1 DEF VgaState, VgaTypeOK
<1>3. CASE VgaClears \/ VgaOverruns
  BY <1>1, <1>3 DEF VgaClears, VgaOverruns, VgaState, VgaTypeOK
<1>4. CASE VgaHomes
  <2>1. Written([x |-> 0, y |-> 0, lost |-> FALSE])
    BY VgaAssumption DEF Written, Cursor
  <2> QED
    BY <1>1, <1>2, <1>4, <2>1 DEF VgaHomes
<1>5. CASE VgaColours
  <2>1. Written(vga')
    BY <1>1, <1>5, PutcharFacts DEF VgaColours
  <2>2. vga_color' \in 0 .. 15
    BY <1>1, <1>5, ColourFacts DEF VgaColours
  <2> QED
    BY <1>2, <2>1, <2>2
<1>6. CASE VgaPuts
  <2>1. Written(vga')
    BY <1>1, <1>6, PutcharFacts DEF VgaPuts
  <2> QED
    BY <1>1, <1>2, <1>6, <2>1 DEF VgaPuts
<1> QED
  BY <1>3, <1>4, <1>5, <1>6 DEF vga_puts

-----------------------------------------------------------------------------
(***************************************************************************)
(* The frame buffer.                                                       *)
(***************************************************************************)
LEMMA Monotone ==
  ASSUME NEW a \in Int, NEW b \in Int, NEW n \in Nat, a <= b
  PROVE  a * n <= b * n
OBVIOUS

LEMMA FrameBufferFacts ==
  ASSUME NEW f \in FrameBuffers
  PROVE  /\ f.width \in Nat /\ f.width >= 16
         /\ f.height \in Nat /\ f.height >= 16
BY FrameBuffersAssumption

LEMMA SizeFacts ==
  ASSUME fb \in FrameBuffers
  PROVE  /\ fb.width \in Nat /\ fb.height \in Nat
         /\ border \in 0 .. 7
         /\ width \in Nat /\ width >= 1 /\ width * 8 + border <= fb.width
         /\ height \in Nat /\ height >= 1 /\ height * 16 + border <= fb.height
         /\ fb.height < height * 16 + 16
<1>1. /\ fb.width \in Nat /\ fb.width >= 16
      /\ fb.height \in Nat /\ fb.height >= 16
  BY FrameBufferFacts
<1>2. PICK w \in Nat : w = fb.width /\ w >= 16
  BY <1>1
<1>3. PICK h \in Nat : h = fb.height /\ h >= 16
  BY <1>1
<1>4. border = (h % 16) \div 2
  BY <1>3 DEF border
<1>5. PICK b \in 0 .. 7 : b = border
  BY <1>4
<1>6. width = (w - b) \div 8 /\ height = h \div 16
  BY <1>2, <1>3, <1>5 DEF width, height
<1>7. height \in Nat /\ height >= 1 /\ height * 16 + b <= h /\ h < height * 16 + 16
  BY <1>3, <1>4, <1>5, <1>6
<1>8. width \in Nat /\ width >= 1 /\ width * 8 + b <= w
  BY <1>2, <1>5, <1>6
<1> QED
  BY <1>1, <1>2, <1>3, <1>5, <1>7, <1>8

\* A character on the screen is drawn in the frame buffer, and on its line.
LEMMA ScreenIsInFrame ==
  ASSUME fb \in FrameBuffers, NEW c, c.x \in 0 .. (width - 1),
         c.y \in 0 .. (height - 1)
  PROVE  InFrame(c, 0) /\ c.x * 8 + border + 8 <= fb.width
<1>1. PICK w \in Nat : w = fb.width
  BY SizeFacts
<1>2. PICK h \in Nat : h = fb.height
  BY SizeFacts
<1>3. PICK b \in 0 .. 7 : b = border
  BY SizeFacts
<1>4. PICK x \in Nat : x = c.x /\ x * 8 + b + 8 <= w
  <2>1. width \in Nat /\ width * 8 + b <= w
    BY <1>1, <1>3, SizeFacts
  <2> QED
    BY <2>1
<1>5. PICK y \in Nat : y = c.y /\ y * 16 + 15 + b <= h - 1
  <2>1. height \in Nat /\ height * 16 + b <= h
    BY <1>2, <1>3, SizeFacts
  <2> QED
    BY <2>1
<1>6. Pixel(c, 0, 0) = (y * 16 + 0 + b) * w + x * 8 + b + 0
  BY <1>1, <1>3, <1>4, <1>5 DEF Pixel
<1>7. Pixel(c, 15, 7) = (y * 16 + 15 + b) * w + x * 8 + b + 7
  BY <1>1, <1>3, <1>4, <1>5 DEF Pixel
<1>8. (y * 16 + 0 + b) * w \in Nat
  <2>1. y * 16 + 0 + b \in Nat
    OBVIOUS
  <2> QED
    BY <2>1
<1>9. Pixel(c, 0, 0) >= 0
  BY <1>6, <1>8
<1>10. Pixel(c, 15, 7) < w * h
  <2>1. PICK line \in Int : line = y * 16 + 15 + b
    OBVIOUS
  <2>2. line * w <= (h - 1) * w
    BY <1>5, <2>1, Monotone
  <2>3. (h - 1) * w = w * h - w /\ w * h \in Int
    OBVIOUS
  <2>4. PICK product \in Int : product = w * h
    BY <2>3
  <2>5. PICK lines \in Int : lines = line * w
    OBVIOUS
  <2>6. lines <= product - w
    BY <2>2, <2>3, <2>4, <2>5
  <2>7. Pixel(c, 15, 7) = lines + x * 8 + b + 7
    BY <1>7, <2>1, <2>5
  <2>8. lines + x * 8 + b + 7 < product
    BY <1>4, <2>6
  <2> QED
    BY <2>4, <2>7, <2>8
<1> QED
  BY <1>1, <1>2, <1>3, <1>4, <1>9, <1>10 DEF InFrame

\* And what is drawn in the frame buffer is on the screen.
LEMMA FrameIsOnScreen ==
  ASSUME fb \in FrameBuffers, NEW c, c.x \in 0 .. width, c.y \in Int,
         InFrame(c, 0)
  PROVE  c.y \in 0 .. (height - 1)
<1>1. PICK w \in Nat : w = fb.width /\ w >= 16
  BY FrameBufferFacts
<1>2. PICK h \in Nat : h = fb.height
  BY SizeFacts
<1>3. PICK b \in 0 .. 7 : b = border
  BY SizeFacts
<1>4. PICK x \in Nat : x = c.x /\ x * 8 + b <= w
  <2>1. width \in Nat /\ width * 8 + b <= w
    BY <1>1, <1>3, SizeFacts
  <2> QED
    BY <2>1
<1>5. PICK y \in Int : y = c.y
  OBVIOUS
<1>6. Pixel(c, 0, 0) = (y * 16 + 0 + b) * w + x * 8 + b + 0
  BY <1>1, <1>3, <1>4, <1>5 DEF Pixel
<1>7. Pixel(c, 15, 7) = (y * 16 + 15 + b) * w + x * 8 + b + 7
  BY <1>1, <1>3, <1>4, <1>5 DEF Pixel
<1>8. Pixel(c, 0, 0) >= 0 /\ Pixel(c, 15, 7) < w * h
  BY <1>1, <1>2 DEF InFrame
<1>9. y >= 0
  <2> SUFFICES ASSUME y < 0
               PROVE  FALSE
    OBVIOUS
  <2>1. PICK line \in Int : line = y * 16 + 0 + b
    OBVIOUS
  <2>2. line <= -2
    BY <2>1
  <2>3. PICK lines \in Int : lines = line * w
    OBVIOUS
  <2>4. line * w <= (-2) * w
    BY <2>2, Monotone
  <2>5. lines <= (-2) * w
    BY <2>3, <2>4
  <2>6. lines + x * 8 + b + 0 >= 0
    BY <1>6, <1>8, <2>1, <2>3
  <2> QED
    BY <1>1, <1>4, <2>5, <2>6
<1>10. y * 16 + 15 + b < h
  <2> SUFFICES ASSUME y * 16 + 15 + b >= h
               PROVE  FALSE
    OBVIOUS
  <2>1. PICK line \in Int : line = y * 16 + 15 + b
    OBVIOUS
  <2>2. h <= line
    BY <2>1
  <2>3. h * w <= line * w
    BY <2>2, Monotone
  <2>4. PICK product \in Int : product = w * h
    OBVIOUS
  <2>5. PICK lines \in Int : lines = line * w
    OBVIOUS
  <2>6. product <= lines
    <3>1. h * w = w * h
      OBVIOUS
    <3> QED
      BY <2>3, <2>4, <2>5, <3>1
  <2>7. lines + x * 8 + b + 7 < product
    BY <1>7, <1>8, <2>1, <2>4, <2>5
  <2> QED
    BY <2>6, <2>7
<1>11. height \in Nat /\ h < height * 16 + 16
  BY <1>2, SizeFacts
<1> QED
  BY <1>3, <1>5, <1>9, <1>10, <1>11

-----------------------------------------------------------------------------
(***************************************************************************)
(* The cursor of graphics mode, lost or not, and wherever it is above.     *)
(***************************************************************************)
Shape ==
  [x : Int, y : Int, foreground : Codes, background : Codes, lost : BOOLEAN]

Place(c) ==
  /\ c \in Shape
  /\ c.x \in 0 .. width
  /\ c.y <= height
  /\ c.lost \/ c.y \in 0 .. (height - 1)

LEMMA ShapeFacts ==
  ASSUME NEW c \in Shape
  PROVE  /\ c = [x |-> c.x, y |-> c.y, foreground |-> c.foreground,
                 background |-> c.background, lost |-> c.lost]
         /\ c.x \in Int /\ c.y \in Int /\ c.lost \in BOOLEAN
         /\ c.foreground \in Codes /\ c.background \in Codes
BY DEF Shape

LEMMA LostFacts ==
  ASSUME NEW c \in Shape, NEW lost \in BOOLEAN
  PROVE  /\ [c EXCEPT !.lost = lost] \in Shape
         /\ [c EXCEPT !.lost = lost].x = c.x
         /\ [c EXCEPT !.lost = lost].y = c.y
         /\ [c EXCEPT !.lost = lost].lost = lost
BY DEF Shape

LEMMA NextLineFacts ==
  ASSUME NEW c \in Shape
  PROVE  /\ NextLine(c) \in Shape
         /\ NextLine(c).x = 0 /\ NextLine(c).y = c.y + 1
         /\ NextLine(c).lost = c.lost
<1>1. PICK x \in Int, y \in Int : x = 0 /\ y = c.y + 1
  BY ShapeFacts
<1>2. NextLine(c) = [c EXCEPT !.x = x, !.y = y]
  BY <1>1 DEF NextLine
<1>3. /\ [c EXCEPT !.x = x, !.y = y] \in Shape
      /\ [c EXCEPT !.x = x, !.y = y].x = x
      /\ [c EXCEPT !.x = x, !.y = y].y = y
      /\ [c EXCEPT !.x = x, !.y = y].lost = c.lost
  BY DEF Shape
<1> QED
  BY <1>1, <1>2, <1>3

LEMMA ConsoleStateFacts ==
  ASSUME ConsoleState
  PROVE  Place(console) /\ console.y >= -BACK /\ BACK >= 1 /\ BACK \in Nat
<1>1. /\ width \in Nat /\ height \in Nat /\ BACK \in Nat /\ BACK >= 1
      /\ fb \in FrameBuffers
  BY SizeFacts, FrameBuffersAssumption DEF ConsoleState
<1>2. /\ console.x \in 0 .. width /\ console.y \in (-BACK) .. height
      /\ console \in Shape
  <2>1. 0 .. width \subseteq Int /\ (-BACK) .. height \subseteq Int
    BY <1>1
  <2> QED
    BY <2>1 DEF ConsoleState, Shape
<1>3. console.lost \/ console.y \in 0 .. (height - 1)
  BY DEF ConsoleState
<1> QED
  BY <1>1, <1>2, <1>3 DEF Place

LEMMA ConsoleStateTypes ==
  ASSUME ConsoleState
  PROVE  ConsoleTypeOK
<1>1. \A code \in Codes : ansi_to_rgb(code) \in 0 .. 15
  BY DEF Codes, ansi_to_rgb
<1> QED
  BY <1>1 DEF ConsoleState, ConsoleTypeOK

LEMMA ConsoleMovedFacts ==
  ASSUME fb \in FrameBuffers, NEW c, Place(c), NEW char
  PROVE  \E x \in 0 .. (width + 1), y \in Int, lost \in BOOLEAN :
           /\ Moved(c, char) = [x |-> x, y |-> y, foreground |-> c.foreground,
                                background |-> c.background, lost |-> lost]
           /\ y \in {c.y, c.y - 1}
           /\ lost \/ y \in 0 .. (height - 1)
           /\ c.x < width \/ char = "BS" => x <= width
           /\ char = "BS" => x < width
           /\ x >= width => y = c.y /\ lost = c.lost
<1>1. /\ c = [x |-> c.x, y |-> c.y, foreground |-> c.foreground,
              background |-> c.background, lost |-> c.lost]
      /\ c.x \in 0 .. width /\ c.y \in Int /\ c.lost \in BOOLEAN
      /\ width \in Nat /\ width >= 1 /\ height \in Nat
      /\ c.lost \/ c.y \in 0 .. (height - 1)
  BY SizeFacts, ShapeFacts DEF Place
<1>2. CASE char = "NL"
  <2>1. Moved(c, char) = [x |-> width, y |-> c.y, foreground |-> c.foreground,
                          background |-> c.background, lost |-> c.lost]
    BY <1>1, <1>2 DEF Moved
  <2> QED
    BY <1>1, <1>2, <2>1
<1>3. CASE char = "BS" /\ c.x # 0
  <2>1. Moved(c, char) = [x |-> c.x - 1, y |-> c.y, foreground |-> c.foreground,
                          background |-> c.background, lost |-> c.lost]
    BY <1>1, <1>3 DEF Moved
  <2>2. c.x - 1 \in 0 .. (width + 1) /\ c.x - 1 < width
    BY <1>1, <1>3
  <2> QED
    BY <1>1, <2>1, <2>2
<1>4. CASE char = "BS" /\ c.x = 0
  <2>1. PICK lost \in BOOLEAN : lost = (c.lost \/ c.y = 0)
    OBVIOUS
  <2>2. Moved(c, char) = [x |-> width - 1, y |-> c.y - 1, foreground |-> c.foreground,
                          background |-> c.background, lost |-> lost]
    BY <1>1, <1>4, <2>1 DEF Moved
  <2>3. lost \/ c.y - 1 \in 0 .. (height - 1)
    <3>1. CASE c.lost \/ c.y = 0
      BY <2>1, <3>1
    <3>2. CASE ~c.lost /\ c.y # 0
      BY <1>1, <3>2
    <3> QED
      BY <3>1, <3>2
  <2>4. width - 1 \in 0 .. (width + 1) /\ width - 1 < width /\ ~(width - 1 >= width)
    BY <1>1
  <2>5. PICK x \in 0 .. (width + 1) : x = width - 1 /\ x < width /\ ~(x >= width)
    BY <2>4
  <2>6. PICK y \in Int : y = c.y - 1
    BY <1>1
  <2>7. Moved(c, char) = [x |-> x, y |-> y, foreground |-> c.foreground,
                          background |-> c.background, lost |-> lost]
    BY <2>2, <2>5, <2>6
  <2>8. x <= width /\ y \in {c.y, c.y - 1} /\ (lost \/ y \in 0 .. (height - 1))
    BY <1>1, <2>3, <2>5, <2>6
  <2> QED
    BY <2>5, <2>7, <2>8
<1>5. CASE char # "NL" /\ char # "BS"
  <2>1. Moved(c, char) = [x |-> c.x + 1, y |-> c.y, foreground |-> c.foreground,
                          background |-> c.background, lost |-> c.lost]
    BY <1>1, <1>5 DEF Moved
  <2>2. c.x + 1 \in 0 .. (width + 1) /\ (c.x < width => c.x + 1 <= width)
    BY <1>1
  <2> QED
    BY <1>1, <1>5, <2>1, <2>2
<1> QED
  BY <1>2, <1>3, <1>4, <1>5

LEMMA WrappedFacts ==
  ASSUME fb \in FrameBuffers, NEW c \in Shape, c.x \in 0 .. (width + 1),
         c.lost \/ c.y \in 0 .. (height - 1)
  PROVE  /\ Wrapped(c) \in Shape
         /\ Wrapped(c).x \in 0 .. (width - 1)
         /\ c.y <= height => Wrapped(c).y <= height
         /\ c.y < height => Wrapped(c).y < height
         /\ Wrapped(c).lost \/ Wrapped(c).y \in 0 .. (height - 1)
<1>1. /\ width \in Nat /\ width >= 1 /\ height \in Nat /\ height >= 1
      /\ c.y \in Int /\ c.lost \in BOOLEAN
  BY SizeFacts, ShapeFacts
<1>2. PICK line \in Shape :
        /\ line = (IF Wide(c) THEN NextLine(c) ELSE c)
        /\ line.x \in 0 .. (width - 1)
        /\ line.lost = c.lost
        /\ c.x >= width => line.y = c.y + 1
        /\ ~(c.x >= width) => line.y = c.y
  <2>1. CASE c.x >= width
    <3>1. /\ NextLine(c) \in Shape /\ NextLine(c).x = 0
          /\ NextLine(c).y = c.y + 1 /\ NextLine(c).lost = c.lost
      BY NextLineFacts
    <3>2. (IF Wide(c) THEN NextLine(c) ELSE c) = NextLine(c)
      BY <2>1 DEF Wide
    <3>3. 0 \in 0 .. (width - 1)
      BY <1>1
    <3> QED
      BY <2>1, <3>1, <3>2, <3>3
  <2>2. CASE ~(c.x >= width)
    <3>1. (IF Wide(c) THEN NextLine(c) ELSE c) = c
      BY <2>2 DEF Wide
    <3>2. c.x \in 0 .. (width - 1)
      BY <1>1, <2>2
    <3> QED
      BY <2>2, <3>1, <3>2
  <2> QED
    BY <2>1, <2>2
<1>3. PICK up \in Shape :
        /\ up = (IF Scrolls(c) THEN [line EXCEPT !.y = @ - 1] ELSE line)
        /\ up.x = line.x /\ up.lost = c.lost
        /\ c.x >= width /\ c.y + 1 >= height => up.y = c.y
        /\ ~(c.x >= width /\ c.y + 1 >= height) => up.y = line.y
  <2>1. CASE c.x >= width /\ c.y + 1 >= height
    <3>1. Scrolls(c) /\ line.y - 1 = c.y
      BY <1>1, <1>2, <2>1 DEF Scrolls, Wide
    <3>2. PICK y \in Int : y = line.y - 1
      BY ShapeFacts
    <3>3. /\ [line EXCEPT !.y = @ - 1] = [line EXCEPT !.y = y]
          /\ [line EXCEPT !.y = y] \in Shape
          /\ [line EXCEPT !.y = y].x = line.x
          /\ [line EXCEPT !.y = y].y = y
          /\ [line EXCEPT !.y = y].lost = line.lost
      BY <3>2 DEF Shape
    <3> QED
      BY <1>2, <2>1, <3>1, <3>2, <3>3
  <2>2. CASE ~(c.x >= width /\ c.y + 1 >= height)
    <3>1. ~Scrolls(c)
      BY <2>2 DEF Scrolls, Wide
    <3> QED
      BY <1>2, <2>2, <3>1
  <2> QED
    BY <2>1, <2>2
<1>4. PICK lost \in BOOLEAN : lost = (up.lost /\ up.y \notin 0 .. (height - 1))
  OBVIOUS
<1>5. PICK settled \in Shape :
        /\ settled = [up EXCEPT !.lost = lost]
        /\ settled.x = up.x /\ settled.y = up.y /\ settled.lost = lost
  BY LostFacts
<1>6. Wrapped(c) = settled
  BY <1>2, <1>3, <1>4, <1>5 DEF Wrapped
<1>7. /\ c.y <= height => up.y <= height
      /\ c.y < height => up.y < height
      /\ c.y \in 0 .. (height - 1) => up.y \in 0 .. (height - 1)
  BY <1>1, <1>2, <1>3
<1>8. lost \/ up.y \in 0 .. (height - 1)
  BY <1>3, <1>4, <1>7
<1> QED
  BY <1>2, <1>3, <1>5, <1>6, <1>7, <1>8

\* What a character leaves of the cursor that has been moved.
LEMMA ConsolePutFacts ==
  ASSUME fb \in FrameBuffers, NEW c, Place(c), NEW char
  PROVE  /\ Place(console_putchar(c, char))
         /\ console_putchar(c, char).x < width
         /\ c.y < height => console_putchar(c, char).y < height
<1>1. PICK x \in 0 .. (width + 1), y \in Int, lost \in BOOLEAN :
        /\ Moved(c, char) = [x |-> x, y |-> y, foreground |-> c.foreground,
                             background |-> c.background, lost |-> lost]
        /\ y \in {c.y, c.y - 1}
        /\ lost \/ y \in 0 .. (height - 1)
  BY ConsoleMovedFacts
<1>2. /\ c.y \in Int /\ c.y <= height /\ height \in Nat /\ width \in Nat
      /\ c.foreground \in Codes /\ c.background \in Codes
  BY SizeFacts, ShapeFacts DEF Place
<1>3. y <= height /\ (c.y < height => y < height) /\ x \in Int
  BY <1>1, <1>2
<1>4. PICK moved \in Shape :
        moved = Moved(c, char) /\ moved.x = x /\ moved.y = y /\ moved.lost = lost
  BY <1>1, <1>2, <1>3 DEF Shape
<1>5. PICK put : put = Wrapped(moved)
  OBVIOUS
<1>6. /\ put \in Shape /\ put.x \in 0 .. (width - 1)
      /\ y <= height => put.y <= height
      /\ y < height => put.y < height
      /\ put.lost \/ put.y \in 0 .. (height - 1)
  BY <1>1, <1>4, <1>5, WrappedFacts
<1>7. put = console_putchar(c, char)
  BY <1>4, <1>5 DEF console_putchar
<1>8. put.x \in 0 .. width /\ put.x < width
  BY <1>2, <1>6
<1> QED
  BY <1>3, <1>6, <1>7, <1>8 DEF Place

\* Where it faults it has not moved, has moved back or is below the screen.
LEMMA LeftFacts ==
  ASSUME ConsoleState, NEW char, NEW c, c = Left(console, char),
         Faults(console, char) \/ Outside(console, char)
  PROVE  /\ Place(c) /\ c.y >= -BACK
         /\ console.x < width => c.x < width
         /\ c.lost \/ c.x < width
<1>1. /\ fb \in FrameBuffers /\ Place(console) /\ console.y >= -BACK
      /\ BACK \in Nat /\ BACK >= 1 /\ width \in Nat /\ width >= 1 /\ height \in Nat
      /\ console.x \in 0 .. width /\ console.y \in Int
      /\ console.lost \/ console.x < width
  BY ConsoleStateFacts, SizeFacts, ShapeFacts DEF ConsoleState, Place
<1>2. CASE paging = "on" \/ ~InFrame(console, 0)
  <2>1. c = console
    BY <1>2 DEF Left
  <2> QED
    BY <1>1, <2>1
<1>3. CASE paging # "on" /\ InFrame(console, 0)
  <2>1. console.y \in 0 .. (height - 1)
    BY <1>1, <1>3, FrameIsOnScreen
  <2>2. CASE Outside(console, char)
    <3>1. c = Moved(console, char) /\ char = "BS"
      BY <1>3, <2>2 DEF Left, Outside
    <3>2. PICK x \in 0 .. (width + 1), y \in Int, lost \in BOOLEAN :
            /\ c = [x |-> x, y |-> y, foreground |-> console.foreground,
                    background |-> console.background, lost |-> lost]
            /\ y \in {console.y, console.y - 1}
            /\ lost \/ y \in 0 .. (height - 1)
            /\ x < width
      BY <1>1, <3>1, ConsoleMovedFacts
    <3>3. y >= -BACK /\ y <= height /\ x \in 0 .. width /\ x \in Int
      BY <1>1, <2>1, <3>2
    <3>4. console.foreground \in Codes /\ console.background \in Codes
      BY <1>1, ShapeFacts DEF Place
    <3> QED
      BY <3>2, <3>3, <3>4 DEF Place, Shape
  <2>3. CASE ~Outside(console, char)
    <3>1. c = [NextLine(console) EXCEPT !.lost = TRUE]
      BY <1>3, <2>3 DEF Left
    <3>2. c = [x |-> 0, y |-> console.y + 1, foreground |-> console.foreground,
               background |-> console.background, lost |-> TRUE]
      BY <1>1, <3>1, ShapeFacts DEF NextLine, Place
    <3>3. PICK y \in Int : y = console.y + 1
      BY <1>1
    <3>4. y >= -BACK /\ y <= height /\ 0 \in 0 .. width /\ 0 < width
      BY <1>1, <2>1, <3>3
    <3>5. console.foreground \in Codes /\ console.background \in Codes
      BY <1>1, ShapeFacts DEF Place
    <3> QED
      BY <3>2, <3>3, <3>4, <3>5 DEF Place, Shape
  <2> QED
    BY <2>2, <2>3
<1> QED
  BY <1>2, <1>3

LEMMA ConsoleHalfwayFacts ==
  ASSUME ConsoleState, console.x < width, console.y < height, NEW char,
         NEW c \in Halfway(console, char)
  PROVE  Place(c) /\ c.y >= -BACK /\ c.lost
<1>1. /\ fb \in FrameBuffers /\ Place(console) /\ console.y >= -BACK
      /\ BACK \in Nat /\ width \in Nat /\ height \in Nat
      /\ console.y \in Int
      /\ console.foreground \in Codes /\ console.background \in Codes
  BY ConsoleStateFacts, SizeFacts, ShapeFacts DEF ConsoleState, Place
<1>2. PICK x \in 0 .. (width + 1), y \in Int, lost \in BOOLEAN :
        /\ Moved(console, char) =
             [x |-> x, y |-> y, foreground |-> console.foreground,
              background |-> console.background, lost |-> lost]
        /\ console.x < width \/ char = "BS" => x <= width
        /\ x >= width => y = console.y /\ lost = console.lost
  BY <1>1, ConsoleMovedFacts
<1>3. PICK moved \in Shape : moved = Moved(console, char) /\ moved.x = x /\ moved.y = y
  <2>1. x \in Int
    BY <1>1
  <2> QED
    BY <1>1, <1>2, <2>1 DEF Shape
<1>4. /\ Wide(moved)
      /\ \/ c = [moved EXCEPT !.lost = TRUE]
         \/ c = [NextLine(moved) EXCEPT !.lost = TRUE]
  BY <1>3 DEF Halfway, Scrolls
<1>5. x <= width /\ y = console.y
  BY <1>2, <1>3, <1>4 DEF Wide
<1>6. /\ x \in 0 .. width /\ y + 1 \in Int /\ y + 1 <= height /\ y <= height
      /\ 0 \in 0 .. width /\ y >= -BACK /\ y + 1 >= -BACK
  BY <1>1, <1>5
<1>7. CASE c = [moved EXCEPT !.lost = TRUE]
  <2>1. c \in Shape /\ c.x = x /\ c.y = y /\ c.lost
    BY <1>3, <1>7, LostFacts
  <2> QED
    BY <1>6, <2>1 DEF Place
<1>8. CASE c = [NextLine(moved) EXCEPT !.lost = TRUE]
  <2>1. NextLine(moved) \in Shape /\ NextLine(moved).x = 0 /\ NextLine(moved).y = y + 1
    BY <1>3, NextLineFacts
  <2>2. PICK next \in Shape : next = NextLine(moved) /\ next.x = 0 /\ next.y = y + 1
    BY <2>1
  <2>3. c \in Shape /\ c.x = 0 /\ c.y = y + 1 /\ c.lost
    BY <1>8, <2>2, LostFacts
  <2> QED
    BY <1>6, <2>3 DEF Place
<1> QED
  BY <1>4, <1>7, <1>8

LEMMA ColouredFacts ==
  ASSUME ConsoleState, NEW code
  PROVE  /\ Place(Coloured(console, code))
         /\ Coloured(console, code).x = console.x
         /\ Coloured(console, code).y = console.y
         /\ Coloured(console, code).lost = console.lost
<1>1. /\ Place(console) /\ console \in Shape
      /\ console = [x |-> console.x, y |-> console.y,
                    foreground |-> console.foreground,
                    background |-> console.background, lost |-> console.lost]
      /\ console.foreground \in Codes /\ console.background \in Codes
  BY ConsoleStateFacts, ShapeFacts DEF Place
<1>2. PICK foreground \in Codes :
        foreground = IF code = 0 THEN 37
                     ELSE IF OfForeground(code) THEN code ELSE console.foreground
  <2>1. 37 \in Codes /\ (OfForeground(code) => code \in Codes)
    BY DEF Codes, OfForeground
  <2> QED
    BY <1>1, <2>1
<1>3. PICK background \in Codes :
        background = IF code = 0 THEN 40
                     ELSE IF OfBackground(code) THEN code ELSE console.background
  <2>1. 40 \in Codes /\ (OfBackground(code) => code \in Codes)
    BY DEF Codes, OfBackground
  <2> QED
    BY <1>1, <2>1
<1>4. PICK x, y, f, b, lost :
        /\ console = [x |-> x, y |-> y, foreground |-> f, background |-> b,
                      lost |-> lost]
        /\ f = console.foreground /\ b = console.background /\ lost = console.lost
  BY <1>1
<1>5. Coloured(console, code) =
        [console EXCEPT !.foreground = foreground, !.background = background]
  <2>1. [console EXCEPT !.foreground = IF code = 0 THEN 37
                                       ELSE IF OfForeground(code) THEN code ELSE @,
                        !.background = IF code = 0 THEN 40
                                       ELSE IF OfBackground(code) THEN code ELSE @] =
        [console EXCEPT !.foreground = foreground, !.background = background]
    BY <1>2, <1>3, <1>4
  <2> QED
    BY <2>1 DEF Coloured
<1>6. Coloured(console, code) =
        [x |-> x, y |-> y, foreground |-> foreground, background |-> background,
         lost |-> lost]
  BY <1>4, <1>5
<1> QED
  BY <1>1, <1>4, <1>6 DEF Place, Shape

\* What keeps the cursor in its place keeps the state of the console.
LEMMA PlaceKeepsConsole ==
  ASSUME ConsoleState, UNCHANGED <<fb, paging>>, NEW c, console' = c,
         Place(c), c.y >= -BACK, c.lost \/ c.x < width
  PROVE  ConsoleState'
<1>1. width \in Nat /\ height \in Nat /\ BACK \in Nat
  BY SizeFacts, ConsoleStateFacts DEF ConsoleState
<1>2. c \in Shape /\ c.y \in (-BACK) .. height /\ c.x \in 0 .. width
  BY <1>1, ShapeFacts DEF Place
<1>3. c \in [x : 0 .. width, y : (-BACK) .. height,
             foreground : Codes, background : Codes, lost : BOOLEAN]
  BY <1>2 DEF Shape
<1>4. width' = width /\ height' = height
  BY DEF width, height, border
<1>5. c.lost \/ (c.x < width /\ c.y \in 0 .. (height - 1))
  BY DEF Place
<1>6. fb' \in FrameBuffers /\ paging' \in {"off", "on", "mapped"}
  BY DEF ConsoleState
<1> QED
  BY <1>3, <1>4, <1>5, <1>6 DEF ConsoleState

LEMMA ConsoleWriteKeeps ==
  ASSUME ConsoleState, console_write
  PROVE  /\ ConsoleState'
         /\ console.x < width => console'.x < width'
         /\ fate = "up" /\ (fate' = "up" /\ console.y < height => console'.y < height')
<1>1. /\ fb \in FrameBuffers /\ Place(console) /\ console.y >= -BACK
      /\ console.lost \/ console.x < width
  BY ConsoleStateFacts DEF ConsoleState
<1>2. UNCHANGED <<fb, paging>> /\ fate = "up"
  BY DEF console_write, ConsoleOverruns, ConsoleColours, ConsolePuts, ConsoleFaults,
         ConsoleEndFaults, ConsoleWraps, ConsoleStops, ConsoleReading
<1>3. width' = width /\ height' = height
  BY <1>2 DEF width, height, border
<1>4. CASE ConsoleOverruns
  <2>1. console' = console
    BY <1>4 DEF ConsoleOverruns, ConsoleStops
  <2> QED
    BY <1>1, <1>2, <1>3, <2>1, PlaceKeepsConsole
<1>5. CASE ConsoleColours \/ ConsoleEndFaults
  <2>1. PICK code : code = atoi(Parameter(rest))
    OBVIOUS
  <2>2. PICK c : c = Coloured(console, code)
    OBVIOUS
  <2>3. console' = c
    BY <1>5, <2>1, <2>2 DEF ConsoleColours, ConsoleEndFaults, ConsoleStops
  <2>4. Place(c) /\ c.x = console.x /\ c.y = console.y /\ c.lost = console.lost
    BY <2>2, ColouredFacts
  <2> QED
    BY <1>1, <1>2, <1>3, <2>3, <2>4, PlaceKeepsConsole
<1>6. CASE ConsolePuts
  <2>1. PICK char : char = Head(rest)
    OBVIOUS
  <2>2. PICK c : c = console_putchar(console, char)
    OBVIOUS
  <2>3. console' = c /\ c.y >= -BACK
    BY <1>6, <2>1, <2>2 DEF ConsolePuts
  <2>4. Place(c) /\ c.x < width /\ (console.y < height => c.y < height)
    BY <1>1, <2>2, ConsolePutFacts
  <2> QED
    BY <1>1, <1>2, <1>3, <2>3, <2>4, PlaceKeepsConsole
<1>7. CASE ConsoleFaults \/ ConsoleWraps
  <2>1. PICK char : char = Head(rest)
    OBVIOUS
  <2>2. PICK c : c = Left(console, char)
    OBVIOUS
  <2>3. /\ console' = c /\ fate' # "up"
        /\ Faults(console, char) \/ Outside(console, char)
    BY <1>7, <2>1, <2>2 DEF ConsoleFaults, ConsoleWraps, ConsoleStops
  <2>4. Place(c) /\ c.y >= -BACK /\ (console.x < width => c.x < width)
    BY <2>2, <2>3, LeftFacts
  <2>5. c.lost \/ c.x < width
    BY <2>2, <2>3, LeftFacts
  <2> QED
    BY <1>1, <1>2, <1>3, <2>3, <2>4, <2>5, PlaceKeepsConsole
<1> QED
  BY <1>4, <1>5, <1>6, <1>7 DEF console_write

-----------------------------------------------------------------------------
(***************************************************************************)
(* The steps of the kernel.                                                *)
(***************************************************************************)
LEMMA SizesStay ==
  ASSUME UNCHANGED fb
  PROVE  width' = width /\ height' = height /\ border' = border
BY DEF width, height, border

\* What leaves both screens alone, and does not go on where the first stop is.
LEMMA ScreensKept ==
  ASSUME IInv, UNCHANGED <<vga_vars, fb, console>>,
         paging' \in {"off", "on", "mapped"},
         stops' \in Seq(Kinds), stops' = <<>> => stops = <<>>,
         stops' = <<>> /\ fate' = "up" => fate = "up"
  PROVE  IInv'
<1>1. UNCHANGED <<vga, vga_color, fb, console>>
  BY DEF vga_vars
<1>2. width' = width /\ height' = height
  BY <1>1, SizesStay
<1>3. VgaState'
  BY <1>1 DEF IInv, VgaState, VgaTypeOK
<1>4. ConsoleState'
  BY <1>1, <1>2 DEF IInv, ConsoleState
<1>5. NothingHalfway'
  BY <1>1, <1>2 DEF IInv, NothingHalfway
<1> QED
  BY <1>3, <1>4, <1>5 DEF IInv

LEMMA StopAppends ==
  ASSUME IInv, NEW kind \in Kinds, Reporting(kind)
  PROVE  stops' \in Seq(Kinds) /\ stops' # <<>>
<1>1. stops \in Seq(Kinds) /\ stops' = Append(stops, kind)
  BY DEF IInv, Reporting
<1> QED
  BY <1>1

LEMMA StopKeeps ==
  ASSUME IInv, NEW kind \in Kinds, Stop(kind)
  PROVE  IInv'
<1>1. stops' \in Seq(Kinds) /\ stops' # <<>>
  BY StopAppends DEF Stop
<1>2. UNCHANGED <<vga_vars, fb, console>> /\ paging' = paging
  BY DEF Stop, console_vars
<1>3. paging \in {"off", "on", "mapped"}
  BY DEF IInv, ConsoleState
<1> QED
  BY <1>1, <1>2, <1>3, ScreensKept

LEMMA WithinCharacterKeeps ==
  ASSUME IInv, WithinCharacter
  PROVE  IInv'
<1>1. /\ fate = "up" /\ stops = <<>>
      /\ VgaState /\ ConsoleState
      /\ vga.x < COLS /\ console.x < width /\ console.y < height
  BY DEF IInv, WithinCharacter, NothingHalfway
<1>2. stops' \in Seq(Kinds) /\ stops' # <<>>
  <2>1. "exception" \in Kinds /\ Reporting("exception")
    BY DEF Kinds, WithinCharacter
  <2> QED
    BY <2>1, StopAppends
<1>3. NothingHalfway'
  BY <1>2 DEF NothingHalfway
<1>4. CASE use_framebuffer
  <2>1. /\ console' \in Halfway(console, Head(rest))
        /\ UNCHANGED <<vga, vga_color, fb, paging>>
    BY <1>4 DEF WithinCharacter, vga_vars
  <2>2. PICK c \in Halfway(console, Head(rest)) : console' = c
    BY <2>1
  <2>3. PICK char : char = Head(rest)
    OBVIOUS
  <2>4. Place(c) /\ c.y >= -BACK /\ c.lost
    BY <1>1, <2>2, <2>3, ConsoleHalfwayFacts
  <2>5. ConsoleState'
    BY <1>1, <2>1, <2>2, <2>4, PlaceKeepsConsole
  <2>6. VgaState'
    BY <1>1, <2>1 DEF VgaState, VgaTypeOK
  <2> QED
    BY <1>2, <1>3, <2>5, <2>6 DEF IInv
<1>5. CASE ~use_framebuffer
  <2>1. /\ vga' \in VgaHalfway(vga, Head(rest))
        /\ UNCHANGED <<vga_color, fb, paging, console>>
    BY <1>5 DEF WithinCharacter, console_vars
  <2>2. PICK char : char = Head(rest)
    OBVIOUS
  <2>3. PICK w \in VgaHalfway(vga, char) : vga' = w
    BY <2>1, <2>2
  <2>4. vga \in Cursor /\ (vga.lost \/ vga.y < ROWS) /\ vga_color \in 0 .. 15
    BY <1>1 DEF VgaState, VgaTypeOK
  <2>5. w \in Cursor /\ w.x <= COLS /\ (w.lost \/ (w.x < COLS /\ w.y < ROWS))
    BY <1>1, <2>3, <2>4, HalfwayFacts
  <2>6. VgaState'
    BY <2>1, <2>3, <2>4, <2>5 DEF VgaState, VgaTypeOK
  <2>7. width' = width /\ height' = height
    BY <2>1, SizesStay
  <2>8. ConsoleState'
    BY <1>1, <2>1, <2>7 DEF ConsoleState
  <2> QED
    BY <1>2, <1>3, <2>6, <2>8 DEF IInv
<1> QED
  BY <1>4, <1>5

LEMMA WritesKeeps ==
  ASSUME IInv, Writes, UNCHANGED stop_vars
  PROVE  IInv'
<1>1. /\ VgaState /\ ConsoleState /\ stops \in Seq(Kinds)
      /\ stops = <<>> => /\ vga.x < COLS /\ console.x < width
                         /\ fate = "up" => console.y < height
      /\ stops' = stops
  BY DEF IInv, NothingHalfway, stop_vars
<1>2. CASE use_framebuffer
  <2>1. console_write /\ UNCHANGED <<vga, vga_color>>
    BY <1>2 DEF Writes, vga_vars
  <2>2. /\ ConsoleState'
        /\ console.x < width => console'.x < width'
        /\ fate = "up" /\ (fate' = "up" /\ console.y < height => console'.y < height')
    BY <1>1, <2>1, ConsoleWriteKeeps
  <2>3. VgaState'
    BY <1>1, <2>1 DEF VgaState, VgaTypeOK
  <2>4. NothingHalfway'
    BY <1>1, <2>1, <2>2 DEF NothingHalfway
  <2> QED
    BY <1>1, <2>2, <2>3, <2>4 DEF IInv
<1>3. CASE ~use_framebuffer
  <2>1. vga_puts /\ UNCHANGED <<fb, paging, console>>
    BY <1>3 DEF Writes, console_vars
  <2>2. VgaState' /\ (vga.x < COLS => vga'.x < COLS)
    BY <1>1, <2>1, VgaPutsKeeps
  <2>3. fate = "up"
    BY <2>1 DEF vga_puts, VgaClears, VgaHomes, VgaOverruns, VgaColours, VgaPuts,
                IsColour, Reading
  <2>4. width' = width /\ height' = height
    BY <2>1, SizesStay
  <2>5. ConsoleState'
    BY <1>1, <2>1, <2>4 DEF ConsoleState
  <2>6. NothingHalfway'
    BY <1>1, <2>1, <2>2, <2>3, <2>4 DEF NothingHalfway
  <2> QED
    BY <1>1, <2>2, <2>5, <2>6 DEF IInv
<1> QED
  BY <1>2, <1>3

LEMMA InitEstablishes ==
  ASSUME Init
  PROVE  IInv
<1>1. /\ VgaInit /\ ConsoleInit /\ stops = <<>> /\ fate = "up"
      /\ fb \in FrameBuffers
  BY DEF Init, PrintfInit, ConsoleInit
<1>2. VgaState /\ vga.x < COLS
  BY <1>1, VgaAssumption DEF VgaInit, VgaState, VgaTypeOK, Cursor
<1>3. /\ width \in Nat /\ width >= 1 /\ height \in Nat /\ height >= 1 /\ BACK \in Nat
  BY <1>1, SizeFacts, FrameBuffersAssumption
<1>4. PICK none \in 0 .. width : none = 0 /\ none < width
  BY <1>3
<1>5. none \in (-BACK) .. height /\ none < height /\ none \in 0 .. (height - 1)
  BY <1>3, <1>4
<1>6. PICK fore \in Codes, back \in Codes : fore = 37 /\ back = 40
  BY DEF Codes
<1>7. console = [x |-> none, y |-> none, foreground |-> fore, background |-> back,
                 lost |-> FALSE]
  BY <1>1, <1>4, <1>6 DEF ConsoleInit
<1>8. ConsoleState /\ console.x < width /\ console.y < height
  BY <1>1, <1>4, <1>5, <1>7 DEF ConsoleState, ConsoleInit
<1>9. stops \in Seq(Kinds)
  BY <1>1
<1> QED
  BY <1>2, <1>8, <1>9 DEF IInv, NothingHalfway

LEMMA NextKeeps ==
  ASSUME IInv, [Next]_vars
  PROVE  IInv'
<1>1. paging \in {"off", "on", "mapped"} /\ stops \in Seq(Kinds)
  BY DEF IInv, ConsoleState
<1>2. ASSUME NEW fmt, printf(fmt), UNCHANGED stops
      PROVE  IInv'
  <2>1. UNCHANGED <<vga_vars, fb, console>> /\ paging' = paging /\ fate' = fate
    BY <1>2 DEF printf, console_vars
  <2> QED
    BY <1>1, <1>2, <2>1, ScreensKept
<1>3. CASE stops = <<>> /\ Runs /\ UNCHANGED stop_vars
  <2>1. stops' = stops
    BY <1>3 DEF stop_vars
  <2>2. CASE \E fmt \in Formats : printf(fmt)
    BY <1>2, <2>1, <2>2
  <2>3. CASE EnablesPaging
    <3>1. /\ UNCHANGED <<vga_vars, fb, console>> /\ fate' = fate
          /\ paging' \in {"off", "on", "mapped"}
      BY <2>3 DEF EnablesPaging
    <3> QED
      BY <1>1, <2>1, <3>1, ScreensKept
  <2> QED
    BY <1>3, <2>2, <2>3 DEF Runs
<1>4. CASE \E kind \in Kinds : Raises(kind)
  BY <1>4, StopKeeps DEF Raises
<1>5. CASE BetweenCharacters
  <2>1. "exception" \in Kinds /\ Stop("exception")
    BY <1>5 DEF BetweenCharacters, Kinds
  <2> QED
    BY <2>1, StopKeeps
<1>6. CASE WithinCharacter
  BY <1>6, WithinCharacterKeeps
<1>7. CASE Writes /\ UNCHANGED stop_vars
  BY <1>7, WritesKeeps
<1>8. CASE Returns /\ UNCHANGED stop_vars
  <2>1. /\ UNCHANGED <<vga_vars, fb, console>> /\ fate' = fate /\ stops' = stops
        /\ paging' = paging
    BY <1>8 DEF Returns, console_vars, stop_vars
  <2> QED
    BY <1>1, <2>1, ScreensKept
<1>9. CASE PrintingStops
  <2>1. fate \in Kinds /\ Stop(fate)
    BY <1>9 DEF PrintingStops, Kinds
  <2> QED
    BY <2>1, StopKeeps
<1>10. CASE StackOverflows \/ ReportHalts
  <2>1. /\ UNCHANGED <<vga_vars, fb, console>> /\ stops' = stops /\ paging' = paging
        /\ fate' # "up"
    BY <1>10 DEF StackOverflows, ReportHalts, console_vars, stop_vars
  <2> QED
    BY <1>1, <2>1, ScreensKept
<1>11. CASE ReportPrints
  BY <1>2, <1>11 DEF ReportPrints
<1>12. CASE UNCHANGED vars
  <2>1. /\ UNCHANGED <<vga_vars, fb, console>> /\ fate' = fate /\ stops' = stops
        /\ paging' = paging
    BY <1>12 DEF vars, printf_vars, stop_vars, console_vars
  <2> QED
    BY <1>1, <2>1, ScreensKept
<1> QED
  BY <1>3, <1>4, <1>5, <1>6, <1>7, <1>8, <1>9, <1>10, <1>11, <1>12 DEF Next, Executes

LEMMA IInvHolds == Spec => []IInv
<1>1. Init => IInv
  BY InitEstablishes
<1>2. IInv /\ [Next]_vars => IInv'
  BY NextKeeps
<1> QED
  BY <1>1, <1>2, PTL DEF Spec

-----------------------------------------------------------------------------
(***************************************************************************)
(* The text, and the reports.                                              *)
(***************************************************************************)
Texts ==
  UNION {{report[j] : j \in DOMAIN report} : report \in UNION {Reports(kind) : kind \in Kinds}}

TextState ==
  /\ rest \in Seq(Characters)
  /\ shown \in Seq(Characters)
  /\ fate \in {"up", "ubsan", "fault", "halted", "wild"}
  /\ use_framebuffer \in BOOLEAN
  /\ format = <<>> => rest = <<>>

ReportState ==
  /\ stops \in Seq(Kinds) /\ Len(stops) <= NESTED
  /\ messages \in Seq(Texts) /\ Len(messages) <= 3
  /\ fate = "halted" => rest = <<>> /\ messages = <<>> /\ stops # <<>>

LEMMA AfterFacts ==
  ASSUME NEW s \in Seq(Characters), NEW n \in Nat
  PROVE  After(s, n) \in Seq(Characters)
<1>1. n + 1 \in Int /\ Len(s) \in Int /\ \A j \in (n + 1) .. Len(s) : s[j] \in Characters
  OBVIOUS
<1> QED
  BY <1>1, SubSeqProperties DEF After

LEMMA LeastFacts ==
  ASSUME NEW S \in SUBSET Nat, S # {}
  PROVE  \E n \in S : \A o \in S : n <= o
<1>1. PICK n \in S : \A o \in S : <<o, n>> \notin OpToRel(<, Nat)
  BY NatLessThanWellFounded, WFMin
<1>2. \A o \in S : ~(o < n)
  BY <1>1 DEF OpToRel
<1> QED
  BY <1>2

\* The sequence ends at its first "m".
LEMMA EndFacts ==
  ASSUME NEW s \in Seq(Characters), ~Overruns(s)
  PROVE  /\ EndOfSequence(s) \in Nat
         /\ EndOfSequence(s) \in Ms(s)
         /\ \A j \in Ms(s) : EndOfSequence(s) <= j
<1>1. Ms(s) \in SUBSET Nat
  BY DEF Ms
<1>2. Ms(s) # {}
  BY DEF Ms, Overruns
<1>3. PICK n \in Ms(s) : \A o \in Ms(s) : n <= o
  BY <1>1, <1>2, LeastFacts
<1>4. /\ EndOfSequence(s) \in Ms(s)
      /\ \A j \in Ms(s) : EndOfSequence(s) <= j
  BY <1>3 DEF EndOfSequence
<1> QED
  BY <1>1, <1>4

LEMMA DrawsFacts ==
  ASSUME shown \in Seq(Characters), NEW c \in Characters, Draws(c)
  PROVE  shown' \in Seq(Characters)
<1>1. CASE c \in Controls \ {"ESC"}
  BY <1>1 DEF Draws
<1>2. CASE c \notin Controls \ {"ESC"}
  <2>1. shown' = Append(shown, c)
    BY <1>2 DEF Draws
  <2> QED
    BY <2>1
<1> QED
  BY <1>1, <1>2

LEMMA FirstFacts ==
  ASSUME NEW s \in Seq(Characters)
  PROVE  First(s) \in Characters /\ Behind(s) \in Seq(Characters)
<1>1. "NUL" \in Characters
  BY Zenon DEF Characters
<1>2. CASE s = <<>>
  BY <1>1, <1>2 DEF First, Behind
<1>3. CASE s # <<>>
  BY <1>3 DEF First, Behind
<1> QED
  BY <1>2, <1>3

LEMMA VgaReads ==
  ASSUME TextState, vga_puts
  PROVE  /\ rest' \in Seq(Characters) /\ shown' \in Seq(Characters)
         /\ fate = "up" /\ fate' \in {"up", "ubsan"} /\ rest # <<>>
<1>1. rest \in Seq(Characters) /\ shown \in Seq(Characters)
  BY DEF TextState
<1>2. fate = "up" /\ fate' \in {"up", "ubsan"} /\ rest # <<>>
  BY DEF vga_puts, VgaClears, VgaHomes, VgaOverruns, VgaColours, VgaPuts, IsColour, Reading
<1>3. CASE VgaClears \/ VgaHomes
  <2>1. PICK n \in Nat : rest' = After(rest, n)
    BY <1>3 DEF VgaClears, VgaHomes
  <2> QED
    BY <1>1, <1>2, <1>3, <2>1, AfterFacts DEF VgaClears, VgaHomes
<1>4. CASE VgaOverruns
  BY <1>1, <1>2, <1>4 DEF VgaOverruns
<1>5. CASE VgaColours
  <2>1. PICK behind \in Seq(Characters) : behind = After(rest, EndOfSequence(rest))
    <3>1. EndOfSequence(rest) \in Nat
      BY <1>1, <1>5, EndFacts DEF VgaColours
    <3> QED
      BY <1>1, <3>1, AfterFacts
  <2>2. Draws(First(behind)) /\ rest' = Behind(behind)
    BY <1>5, <2>1 DEF VgaColours
  <2>3. PICK c \in Characters : c = First(behind)
    BY FirstFacts
  <2>4. shown' \in Seq(Characters)
    BY <1>1, <2>2, <2>3, DrawsFacts
  <2> QED
    BY <1>2, <2>2, <2>4, FirstFacts
<1>6. CASE VgaPuts
  <2>1. PICK c \in Characters : c = Head(rest)
    BY <1>1, <1>2
  <2>2. shown' \in Seq(Characters)
    BY <1>1, <1>6, <2>1, DrawsFacts DEF VgaPuts
  <2>3. rest' \in Seq(Characters)
    BY <1>1, <1>2, <1>6 DEF VgaPuts
  <2> QED
    BY <1>2, <2>2, <2>3
<1> QED
  BY <1>3, <1>4, <1>5, <1>6 DEF vga_puts

LEMMA ConsoleReads ==
  ASSUME TextState, console_write
  PROVE  /\ rest' \in Seq(Characters) /\ shown' \in Seq(Characters)
         /\ fate = "up" /\ fate' \in {"up", "ubsan", "fault"} /\ rest # <<>>
<1>1. rest \in Seq(Characters) /\ shown \in Seq(Characters)
  BY DEF TextState
<1>2. fate = "up" /\ fate' \in {"up", "ubsan", "fault"} /\ rest # <<>>
  BY DEF console_write, ConsoleOverruns, ConsoleColours, ConsolePuts, ConsoleFaults,
         ConsoleEndFaults, ConsoleWraps, ConsoleStops, ConsoleReading
<1>3. CASE ConsoleOverruns \/ ConsoleFaults \/ ConsoleEndFaults \/ ConsoleWraps
  <2>1. UNCHANGED <<shown, rest>>
    BY <1>3 DEF ConsoleOverruns, ConsoleFaults, ConsoleEndFaults, ConsoleWraps,
                ConsoleStops
  <2> QED
    BY <1>1, <1>2, <2>1
<1>4. CASE ConsoleColours
  <2>1. EndOfSequence(rest) \in Nat
    BY <1>1, <1>4, EndFacts DEF ConsoleColours
  <2>2. rest' = After(rest, EndOfSequence(rest)) /\ shown' = shown
    BY <1>4 DEF ConsoleColours
  <2> QED
    BY <1>1, <1>2, <2>1, <2>2, AfterFacts
<1>5. CASE ConsolePuts
  <2>1. PICK c \in Characters : c = Head(rest)
    BY <1>1, <1>2
  <2>2. shown' \in Seq(Characters)
    BY <1>1, <1>5, <2>1, DrawsFacts DEF ConsolePuts
  <2>3. rest' \in Seq(Characters)
    BY <1>1, <1>2, <1>5 DEF ConsolePuts
  <2> QED
    BY <1>2, <2>2, <2>3
<1> QED
  BY <1>3, <1>4, <1>5 DEF console_write

LEMMA PairFacts ==
  ASSUME NEW a, NEW b, NEW S, NEW pair, pair = <<a>> \o <<b>>,
         \A j \in DOMAIN pair : pair[j] \in S
  PROVE  pair \in Seq(S) /\ Len(pair) <= 3
<1>1. <<a>> \in Seq({a, b}) /\ <<b>> \in Seq({a, b})
  OBVIOUS
<1>2. pair \in Seq({a, b}) /\ Len(pair) = 2
  BY <1>1, ConcatProperties
<1>3. pair \in Seq(S)
  BY <1>2
<1> QED
  BY <1>2, <1>3

\* What a stop leaves to print.
LEMMA ReportFacts ==
  ASSUME NEW kind \in Kinds, NEW report \in Reports(kind)
  PROVE  report \in Seq(Texts) /\ Len(report) <= 3
<1>1. \A j \in DOMAIN report : report[j] \in Texts
  BY DEF Texts
<1>2. CASE kind = "panic"
  <2>1. PICK a, b, c : report = <<a, b, c>>
    BY <1>2 DEF Reports, panic
  <2> QED
    BY <1>1, <2>1
<1>3. CASE kind = "ubsan"
  <2>1. PICK a, b : report = <<a, b>>
    BY <1>3 DEF Reports, mubsan_log
  <2> QED
    BY <1>1, <2>1
<1>4. CASE kind = "exception"
  <2>1. PICK a : report = <<a>>
    BY <1>4 DEF Reports, isr_handler
  <2> QED
    BY <1>1, <2>1
<1>5. CASE kind = "fault"
  <2>1. PICK a, b : report = <<a>> \o <<b>>
    BY <1>5, Zenon DEF Reports, isr_handler
  <2> QED
    BY <1>1, <2>1, PairFacts
<1> QED
  BY <1>2, <1>3, <1>4, <1>5 DEF Kinds

LEMMA TextsArePrintable ==
  ASSUME NEW fmt \in Texts
  PROVE  Printable(fmt)
BY ReportsAssumption DEF Texts

TextInv == TextState /\ ReportState

LEMMA ReportingKeeps ==
  ASSUME TextInv, NEW kind \in Kinds, Reporting(kind), Len(stops) < NESTED
  PROVE  TextInv'
<1>1. stops \in Seq(Kinds) /\ stops' = Append(stops, kind) /\ NESTED \in Nat
  BY StopsAssumption DEF TextInv, ReportState, Reporting
<1>2. stops' \in Seq(Kinds) /\ Len(stops') <= NESTED
  BY <1>1
<1>3. messages' \in Seq(Texts) /\ Len(messages') <= 3
  BY ReportFacts DEF Reporting
<1>4. rest' = <<>> /\ shown' = <<>> /\ fate' = "up" /\ use_framebuffer' = use_framebuffer
  BY DEF Reporting
<1>5. <<>> \in Seq(Characters) /\ use_framebuffer \in BOOLEAN
  BY DEF TextInv, TextState
<1>6. TextState'
  BY <1>4, <1>5 DEF TextState
<1>7. ReportState'
  BY <1>2, <1>3, <1>4 DEF ReportState
<1> QED
  BY <1>6, <1>7 DEF TextInv

LEMMA PrintKeeps ==
  ASSUME TextInv, NEW fmt, Printable(fmt), printf(fmt), stops' = stops,
         messages' \in Seq(Texts), Len(messages') <= 3
  PROVE  TextInv'
<1>1. /\ fate = "up" /\ fate' = fate /\ shown' = <<>> /\ rest' = sprintf(fmt)
      /\ format' = fmt /\ use_framebuffer' = use_framebuffer
  BY DEF printf, Idle
<1>2. rest' \in Seq(Characters) /\ format' # <<>>
  BY <1>1 DEF Printable
<1>3. TextState'
  BY <1>1, <1>2 DEF TextInv, TextState
<1>4. ReportState'
  BY <1>1 DEF TextInv, ReportState
<1> QED
  BY <1>3, <1>4 DEF TextInv

LEMMA TextInitially ==
  ASSUME Init
  PROVE  TextInv
<1>1. TextState
  BY DEF Init, PrintfInit, TextState
<1>2. ReportState
  <2>1. NESTED \in Nat
    BY StopsAssumption
  <2> QED
    BY <2>1 DEF Init, PrintfInit, ReportState
<1> QED
  BY <1>1, <1>2 DEF TextInv

LEMMA TextNext ==
  ASSUME TextInv, [Next]_vars
  PROVE  TextInv'
<1>1. /\ TextState /\ ReportState /\ NESTED \in Nat /\ NESTED >= 1
      /\ messages \in Seq(Texts) /\ Len(messages) <= 3 /\ stops \in Seq(Kinds)
  BY StopsAssumption DEF TextInv, ReportState
<1>2. CASE stops = <<>> /\ Runs /\ UNCHANGED stop_vars
  <2>1. stops' = stops /\ messages' = messages
    BY <1>2 DEF stop_vars
  <2>2. CASE \E fmt \in Formats : printf(fmt)
    BY <1>1, <2>1, <2>2, PrintKeeps, FormatsAssumption
  <2>3. CASE EnablesPaging
    BY <1>1, <2>1, <2>3 DEF EnablesPaging, TextInv, TextState, ReportState
  <2> QED
    BY <1>2, <2>2, <2>3 DEF Runs
<1>3. ASSUME NEW kind \in Kinds, Reporting(kind), stops = <<>>
      PROVE  TextInv'
  <2>1. Len(stops) < NESTED
    BY <1>1, <1>3
  <2> QED
    BY <1>3, <2>1, ReportingKeeps
<1>4. CASE \E kind \in Kinds : Raises(kind)
  BY <1>3, <1>4 DEF Raises, Stop
<1>5. CASE BetweenCharacters \/ WithinCharacter
  <2>1. "exception" \in Kinds /\ Reporting("exception") /\ stops = <<>>
    BY <1>5 DEF BetweenCharacters, WithinCharacter, Stop, Kinds
  <2> QED
    BY <1>3, <2>1
<1>6. CASE Writes /\ UNCHANGED stop_vars
  <2>1. /\ rest' \in Seq(Characters) /\ shown' \in Seq(Characters)
        /\ fate = "up" /\ fate' \in {"up", "ubsan", "fault"} /\ rest # <<>>
    BY <1>1, <1>6, VgaReads, ConsoleReads DEF Writes
  <2>2. /\ UNCHANGED <<stops, messages, use_framebuffer, format>>
    BY <1>6 DEF Writes, stop_vars
  <2>3. TextState'
    BY <1>1, <2>1, <2>2 DEF TextState
  <2>4. ReportState'
    BY <1>1, <2>1, <2>2 DEF ReportState
  <2> QED
    BY <2>3, <2>4 DEF TextInv
<1>7. CASE Returns /\ UNCHANGED stop_vars
  <2>1. /\ fate = "up" /\ rest = <<>> /\ shown' = <<>>
        /\ UNCHANGED <<rest, fate, stops, messages, use_framebuffer>>
    BY <1>7 DEF Returns, stop_vars
  <2>2. TextState'
    BY <1>1, <2>1 DEF TextState
  <2>3. ReportState'
    BY <1>1, <2>1 DEF ReportState
  <2> QED
    BY <2>2, <2>3 DEF TextInv
<1>8. CASE PrintingStops
  <2>1. fate \in Kinds /\ Reporting(fate) /\ Len(stops) < NESTED
    BY <1>8 DEF PrintingStops, Stop, Kinds
  <2> QED
    BY <2>1, ReportingKeeps
<1>9. CASE StackOverflows
  <2>1. /\ fate' = "wild"
        /\ UNCHANGED <<rest, shown, use_framebuffer, format, stops, messages>>
    BY <1>9 DEF StackOverflows, stop_vars
  <2>2. TextState'
    BY <1>1, <2>1 DEF TextState
  <2>3. ReportState'
    BY <1>1, <2>1 DEF ReportState
  <2> QED
    BY <2>2, <2>3 DEF TextInv
<1>10. CASE ReportPrints
  <2>1. Head(messages) \in Texts /\ Tail(messages) \in Seq(Texts)
        /\ Len(Tail(messages)) <= 3
    BY <1>1, <1>10 DEF ReportPrints
  <2>2. PICK fmt \in Texts : fmt = Head(messages)
    BY <2>1
  <2>3. /\ printf(fmt) /\ stops' = stops /\ messages' \in Seq(Texts)
        /\ Len(messages') <= 3
    BY <1>10, <2>1, <2>2 DEF ReportPrints
  <2>4. Printable(fmt)
    BY TextsArePrintable
  <2> QED
    BY <2>3, <2>4, PrintKeeps
<1>11. CASE ReportHalts
  <2>1. /\ fate' = "halted" /\ format = <<>> /\ stops # <<>> /\ messages = <<>>
        /\ UNCHANGED <<rest, shown, use_framebuffer, format, stops, messages>>
    BY <1>11 DEF ReportHalts, Idle, stop_vars
  <2>2. TextState'
    BY <1>1, <2>1 DEF TextState
  <2>3. ReportState'
    BY <1>1, <2>1 DEF ReportState, TextState
  <2> QED
    BY <2>2, <2>3 DEF TextInv
<1>12. CASE UNCHANGED vars
  BY <1>1, <1>12 DEF vars, printf_vars, stop_vars, TextInv, TextState, ReportState
<1> QED
  BY <1>2, <1>4, <1>5, <1>6, <1>7, <1>8, <1>9, <1>10, <1>11, <1>12 DEF Next, Executes

-----------------------------------------------------------------------------
(***************************************************************************)
(* What loops compute.  The functions that are defined by recursion exist: *)
(* the least position up to which they did not would have one before it.   *)
(***************************************************************************)
\* The values of a loop that begins with base, after each of n turns.
IsRun(run, X, base, step, n) ==
  /\ run \in [0 .. n -> X]
  /\ run[0] = base
  /\ \A j \in 1 .. n : run[j] = step[j][run[j - 1]]

LEMMA RunExists ==
  ASSUME NEW X, NEW base \in X, NEW n \in Nat, NEW step \in [1 .. n -> [X -> X]]
  PROVE  \E run : IsRun(run, X, base, step, n)
<1> DEFINE wrong == {m \in 0 .. n : ~\E run : IsRun(run, X, base, step, m)}
<1>1. SUFFICES ASSUME wrong # {}
               PROVE  FALSE
  OBVIOUS
<1>2. PICK m \in wrong : \A o \in wrong : m <= o
  <2>1. wrong \in SUBSET Nat
    OBVIOUS
  <2> HIDE DEF wrong
  <2> QED
    BY <1>1, <2>1, LeastFacts
<1>3. m # 0
  <2>1. [j \in 0 .. 0 |-> base] \in [0 .. 0 -> X]
    OBVIOUS
  <2>2. IsRun([j \in 0 .. 0 |-> base], X, base, step, 0)
    BY <2>1 DEF IsRun
  <2> QED
    BY <1>2, <2>2
<1>4. m \in 1 .. n /\ m - 1 \in 0 .. n /\ ~(m <= m - 1)
  BY <1>2, <1>3
<1>5. m - 1 \notin wrong
  BY <1>2, <1>4
<1>6. PICK run : IsRun(run, X, base, step, m - 1)
  BY <1>4, <1>5
<1> DEFINE more == [j \in 0 .. m |-> IF j = m THEN step[m][run[m - 1]] ELSE run[j]]
<1>7. more \in [0 .. m -> X]
  <2>1. step[m] \in [X -> X] /\ run[m - 1] \in X
    BY <1>4, <1>6 DEF IsRun
  <2>2. step[m][run[m - 1]] \in X
    BY <2>1
  <2>3. \A j \in 0 .. m : j # m => j \in 0 .. (m - 1)
    BY <1>4
  <2> QED
    BY <1>4, <1>6, <2>2, <2>3 DEF IsRun
<1>8. IsRun(more, X, base, step, m)
  <2>1. more[0] = base
    BY <1>4, <1>6 DEF IsRun
  <2>2. ASSUME NEW j \in 1 .. m
        PROVE  more[j] = step[j][more[j - 1]]
    <3>1. j \in 0 .. m /\ j - 1 \in 0 .. m /\ j - 1 # m
      BY <1>4
    <3>2. more[j - 1] = run[j - 1]
      BY <3>1
    <3>3. CASE j = m
      BY <3>1, <3>2, <3>3
    <3>4. CASE j # m
      <4>1. j \in 1 .. (m - 1)
        BY <1>4, <3>4
      <4> QED
        BY <1>6, <3>1, <3>2, <3>4, <4>1 DEF IsRun
    <3> QED
      BY <3>3, <3>4
  <2> QED
    BY <1>7, <2>1, <2>2 DEF IsRun
<1> QED
  BY <1>2, <1>8

\* Nothing else begins and goes on like it.
Follows(other, X, base, step, m) ==
  /\ other[0] = base
  /\ \A j \in 1 .. m : other[j - 1] \in X => other[j] = step[j][other[j - 1]]

LEMMA RunIsUnique ==
  ASSUME NEW X, NEW base, NEW n, NEW step, base \in X, n \in Nat,
         NEW run, IsRun(run, X, base, step, n),
         NEW m, m \in 0 .. n, NEW other, Follows(other, X, base, step, m)
  PROVE  other[m] = run[m]
<1> DEFINE wrong == {j \in 0 .. m : other[j] # run[j]}
<1>1. SUFFICES ASSUME wrong # {}
               PROVE  FALSE
  OBVIOUS
<1>2. PICK j \in wrong : \A o \in wrong : j <= o
  <2>1. wrong \in SUBSET Nat
    OBVIOUS
  <2> HIDE DEF wrong
  <2> QED
    BY <1>1, <2>1, LeastFacts
<1>3. j # 0
  BY <1>2 DEF IsRun, Follows
<1>4. j \in 1 .. m /\ j \in 1 .. n /\ j - 1 \in 0 .. m /\ j - 1 \in 0 .. n
      /\ ~(j <= j - 1)
  BY <1>2, <1>3
<1>5. other[j - 1] = run[j - 1]
  BY <1>2, <1>4
<1>6. run[j - 1] \in X
  BY <1>4 DEF IsRun
<1> QED
  BY <1>2, <1>4, <1>5, <1>6 DEF IsRun, Follows

-----------------------------------------------------------------------------
LEMMA DigitFacts ==
  /\ DOMAIN Digit = {"0", "1", "2", "3", "4", "5", "6", "7", "8", "9"}
  /\ \A d \in 0 .. 9 : Numerals[d + 1] \in DOMAIN Digit /\ Digit[Numerals[d + 1]] = d
  /\ \A c \in DOMAIN Digit : Digit[c] \in 0 .. 9
  /\ \A d \in 1 .. 9 : Numerals[d + 1] # "0"
  /\ Numerals[1] = "0"
<1>1. DOMAIN Digit = Range(Numerals)
  BY DEF Digit
<1>2. /\ Numerals[1] = "0" /\ Numerals[2] = "1" /\ Numerals[3] = "2" /\ Numerals[4] = "3"
      /\ Numerals[5] = "4" /\ Numerals[6] = "5" /\ Numerals[7] = "6" /\ Numerals[8] = "7"
      /\ Numerals[9] = "8" /\ Numerals[10] = "9" /\ DOMAIN Numerals = 1 .. 10
  BY DEF Numerals
<1>3. Range(Numerals) = {"0", "1", "2", "3", "4", "5", "6", "7", "8", "9"}
  <2>1. Range(Numerals) = {Numerals[x] : x \in 1 .. 10}
    BY <1>2 DEF Range
  <2>2. \A x \in 1 .. 10 : x = 1 \/ x = 2 \/ x = 3 \/ x = 4 \/ x = 5 \/ x = 6 \/ x = 7
                           \/ x = 8 \/ x = 9 \/ x = 10
    OBVIOUS
  <2> QED
    BY <1>2, <2>1, <2>2
<1>4. \A d, e \in 0 .. 9 : Numerals[d + 1] = Numerals[e + 1] => d = e
  <2>1. \A x \in 0 .. 9 : x = 0 \/ x = 1 \/ x = 2 \/ x = 3 \/ x = 4 \/ x = 5 \/ x = 6
                          \/ x = 7 \/ x = 8 \/ x = 9
    OBVIOUS
  <2> QED
    BY <1>2, <2>1
<1>5. \A c \in Range(Numerals) : \E d \in 0 .. 9 : c = Numerals[d + 1]
  <2>1. Range(Numerals) = {Numerals[x] : x \in 1 .. 10}
    BY <1>2 DEF Range
  <2>2. \A x \in 1 .. 10 : x - 1 \in 0 .. 9 /\ (x - 1) + 1 = x
    OBVIOUS
  <2> QED
    BY <2>1, <2>2
<1>6. \A d \in 0 .. 9 : Numerals[d + 1] \in Range(Numerals)
  <2>1. Range(Numerals) = {Numerals[x] : x \in 1 .. 10}
    BY <1>2 DEF Range
  <2>2. \A d \in 0 .. 9 : d + 1 \in 1 .. 10
    OBVIOUS
  <2> QED
    BY <2>1, <2>2
<1>7. \A c \in Range(Numerals) : Digit[c] \in 0 .. 9 /\ Numerals[Digit[c] + 1] = c
  <2>1. \A c \in Range(Numerals) : Digit[c] = CHOOSE d \in 0 .. 9 : Numerals[d + 1] = c
    BY DEF Digit
  <2> QED
    BY <1>5, <2>1
<1>8. \A d \in 1 .. 9 : Numerals[d + 1] # "0"
  <2>1. \A d \in 1 .. 9 : d \in 0 .. 9 /\ d # 0 /\ 0 \in 0 .. 9 /\ 0 + 1 = 1
    OBVIOUS
  <2> QED
    BY <1>2, <1>4, <2>1
<1> QED
  BY <1>1, <1>2, <1>3, <1>4, <1>6, <1>7, <1>8

\* The loop of atoi.
LEMMA ValueFacts ==
  ASSUME NEW s, NEW n \in Nat, \A j \in 1 .. n : s[j] \in DOMAIN Digit
  PROVE  /\ Value(s, 0) = 0
         /\ \A m \in 0 .. n : Value(s, m) \in Nat
         /\ \A m \in 1 .. n : Value(s, m) = Value(s, m - 1) * 10 + Digit[s[m]]
<1> DEFINE step == [j \in 1 .. n |-> [acum \in Nat |-> acum * 10 + Digit[s[j]]]]
<1>1. step \in [1 .. n -> [Nat -> Nat]]
  <2>1. \A j \in 1 .. n : Digit[s[j]] \in Nat
    BY DigitFacts
  <2> QED
    BY <2>1
<1>2. PICK run : IsRun(run, Nat, 0, step, n)
  BY <1>1, RunExists
<1>3. ASSUME NEW m \in 0 .. n
      PROVE  Value(s, m) = run[m]
  <2> DEFINE Is(a) ==
        a = [j \in 0 .. m |-> IF j = 0 THEN 0 ELSE a[j - 1] * 10 + Digit[s[j]]]
             acum == CHOOSE a : Is(a)
             part == [j \in 0 .. m |-> run[j]]
  <2>1. Is(part)
    <3>1. ASSUME NEW j \in 0 .. m
          PROVE  run[j] = IF j = 0 THEN 0 ELSE part[j - 1] * 10 + Digit[s[j]]
      <4>1. CASE j = 0
        BY <1>2, <4>1 DEF IsRun
      <4>2. CASE j # 0
        <5>1. j \in 1 .. n /\ j - 1 \in 0 .. m /\ j - 1 \in 0 .. n
          BY <4>2
        <5>2. run[j - 1] \in Nat /\ part[j - 1] = run[j - 1]
          BY <1>2, <5>1 DEF IsRun
        <5>3. run[j] = step[j][run[j - 1]]
          BY <1>2, <5>1 DEF IsRun
        <5> QED
          BY <4>2, <5>1, <5>2, <5>3
      <4> QED
        BY <4>1, <4>2
    <3> QED
      BY <3>1
  <2>2. Is(acum)
    BY <2>1
  <2>3. acum[0] = 0
    <3> HIDE DEF acum
    <3>1. 0 \in 0 .. m
      OBVIOUS
    <3> QED
      BY <2>2, <3>1
  <2>4. ASSUME NEW j \in 1 .. m, acum[j - 1] \in Nat
        PROVE  acum[j] = step[j][acum[j - 1]]
    <3>1. j \in 0 .. m /\ j # 0 /\ j \in 1 .. n
      OBVIOUS
    <3>2. acum[j] = acum[j - 1] * 10 + Digit[s[j]]
      BY <2>2, <3>1
    <3> QED
      BY <2>4, <3>1, <3>2
  <2>5. Value(s, m) = acum[m]
    BY DEF Value
  <2> HIDE DEF acum, step
  <2>6. Follows(acum, Nat, 0, step, m)
    BY <2>3, <2>4 DEF Follows
  <2>7. 0 \in Nat
    OBVIOUS
  <2>8. acum[m] = run[m]
    BY <1>2, <2>6, <2>7, RunIsUnique
  <2> QED
    BY <2>5, <2>8
<1>4. ASSUME NEW m \in 1 .. n
      PROVE  run[m] = run[m - 1] * 10 + Digit[s[m]]
  <2>1. run[m - 1] \in Nat
    BY <1>2 DEF IsRun
  <2> QED
    BY <1>2, <2>1 DEF IsRun
<1>5. run[0] = 0 /\ run \in [0 .. n -> Nat]
  BY <1>2 DEF IsRun
<1> HIDE DEF step
<1>6. \A m \in 1 .. n : m \in 0 .. n /\ m - 1 \in 0 .. n
  OBVIOUS
<1> QED
  BY <1>3, <1>4, <1>5, <1>6

\* It looks at nothing but the characters it is at.
LEMMA ValueOfPrefix ==
  ASSUME NEW s, NEW t, NEW n \in Nat,
         \A j \in 1 .. n : s[j] \in DOMAIN Digit /\ t[j] = s[j]
  PROVE  Value(t, n) = Value(s, n)
<1> DEFINE wrong == {m \in 0 .. n : Value(t, m) # Value(s, m)}
<1>1. SUFFICES ASSUME wrong # {}
               PROVE  FALSE
  OBVIOUS
<1>2. PICK m \in wrong : \A o \in wrong : m <= o
  <2>1. wrong \in SUBSET Nat
    OBVIOUS
  <2> HIDE DEF wrong
  <2> QED
    BY <1>1, <2>1, LeastFacts
<1>3. m # 0
  BY <1>2, ValueFacts
<1>4. m \in 1 .. n /\ m - 1 \in 0 .. n /\ ~(m <= m - 1)
  BY <1>2, <1>3
<1>5. Value(t, m - 1) = Value(s, m - 1)
  BY <1>2, <1>4
<1>6. Value(s, m) = Value(s, m - 1) * 10 + Digit[s[m]]
  BY <1>4, ValueFacts
<1>7. Value(t, m) = Value(t, m - 1) * 10 + Digit[t[m]]
  BY <1>4, ValueFacts
<1> QED
  BY <1>2, <1>4, <1>5, <1>6, <1>7

LEMMA AtoiFacts ==
  ASSUME NEW s \in Seq(DOMAIN Digit)
  PROVE  atoi(s) = Value(s, Len(s))
<1> DEFINE ends == {n \in 0 .. Len(s) : \A j \in 1 .. n : s[j] \in DOMAIN Digit}
<1>1. ends = 0 .. Len(s)
  OBVIOUS
<1>2. (CHOOSE n \in ends : \A j \in ends : j <= n) = Len(s)
  <2>1. Len(s) \in ends /\ \A j \in ends : j <= Len(s)
    BY <1>1
  <2>2. \A n \in ends : (\A j \in ends : j <= n) => n = Len(s)
    BY <1>1, <2>1
  <2> QED
    BY <2>1, <2>2
<1> QED
  BY <1>2 DEF atoi

-----------------------------------------------------------------------------
(***************************************************************************)
(* The digits of a number.                                                 *)
(***************************************************************************)
Written10 == Seq(DOMAIN Digit)

LastDigit(val) == Numerals[1 + (val % 10)]

IsDigits(d, n) ==
  /\ d \in [0 .. n -> Written10]
  /\ \A val \in 0 .. n :
       d[val] = IF val = 0 THEN <<>> ELSE Append(d[val \div 10], LastDigit(val))

LEMMA LastDigitFacts ==
  ASSUME NEW val \in Nat
  PROVE  /\ LastDigit(val) \in DOMAIN Digit
         /\ Digit[LastDigit(val)] = val % 10
         /\ val % 10 # 0 => LastDigit(val) # "0"
         /\ val \div 10 \in Nat
         /\ val = (val \div 10) * 10 + (val % 10)
         /\ val # 0 => val \div 10 <= val - 1
<1>1. val % 10 \in 0 .. 9 /\ 1 + (val % 10) = (val % 10) + 1
  OBVIOUS
<1>2. PICK d \in 0 .. 9 : d = val % 10
  BY <1>1
<1>3. LastDigit(val) = Numerals[d + 1]
  BY <1>1, <1>2 DEF LastDigit
<1>4. d # 0 => d \in 1 .. 9
  OBVIOUS
<1>5. /\ LastDigit(val) \in DOMAIN Digit /\ Digit[LastDigit(val)] = d
      /\ d # 0 => LastDigit(val) # "0"
  BY <1>3, <1>4, DigitFacts
<1>6. val \div 10 \in Nat /\ val % 10 \in 0 .. 9
  OBVIOUS
<1>7. val = 10 * (val \div 10) + (val % 10)
  OBVIOUS
<1>8. PICK q \in Nat : q = val \div 10
  BY <1>6
<1>9. val = q * 10 + d /\ (val # 0 => q <= val - 1)
  BY <1>2, <1>7, <1>8
<1> QED
  BY <1>2, <1>5, <1>6, <1>8, <1>9

LEMMA AppendsDigit ==
  ASSUME NEW s \in Written10, NEW val \in Nat
  PROVE  Append(s, LastDigit(val)) \in Written10
BY LastDigitFacts DEF Written10

LEMMA DigitsExist ==
  ASSUME NEW n \in Nat
  PROVE  \E d : IsDigits(d, n)
<1> DEFINE wrong == {m \in 0 .. n : ~\E d : IsDigits(d, m)}
<1>1. SUFFICES ASSUME wrong # {}
               PROVE  FALSE
  OBVIOUS
<1>2. PICK m \in wrong : \A o \in wrong : m <= o
  <2>1. wrong \in SUBSET Nat
    OBVIOUS
  <2> HIDE DEF wrong
  <2> QED
    BY <1>1, <2>1, LeastFacts
<1>3. m # 0
  <2>1. <<>> \in Written10
    BY DEF Written10
  <2>2. IsDigits([j \in 0 .. 0 |-> <<>>], 0)
    BY <2>1 DEF IsDigits
  <2> QED
    BY <1>2, <2>2
<1>4. m \in 1 .. n /\ m - 1 \in 0 .. n /\ ~(m <= m - 1)
  BY <1>2, <1>3
<1>5. m - 1 \notin wrong
  BY <1>2, <1>4
<1>6. PICK d : IsDigits(d, m - 1)
  BY <1>4, <1>5
<1> DEFINE more == [j \in 0 .. m |->
                      IF j = m THEN Append(d[m \div 10], LastDigit(m)) ELSE d[j]]
<1>7. \A j \in 1 .. m : j \div 10 \in 0 .. (m - 1) /\ j \div 10 \in 0 .. m /\ j \div 10 # m
  BY <1>4, LastDigitFacts
<1>8. \A j \in 0 .. m : j # m => j \in 0 .. (m - 1)
  BY <1>4
<1>9. more \in [0 .. m -> Written10]
  <2>1. d[m \div 10] \in Written10
    BY <1>4, <1>6, <1>7 DEF IsDigits
  <2>2. Append(d[m \div 10], LastDigit(m)) \in Written10
    BY <1>4, <2>1, AppendsDigit
  <2> QED
    BY <1>6, <1>8, <2>2 DEF IsDigits
<1>10. ASSUME NEW val \in 0 .. m
       PROVE  more[val] = IF val = 0 THEN <<>> ELSE Append(more[val \div 10], LastDigit(val))
  <2>1. CASE val = 0
    <3>1. 0 \in 0 .. m /\ 0 \in 0 .. (m - 1) /\ 0 # m
      BY <1>4
    <3> QED
      BY <1>6, <2>1, <3>1 DEF IsDigits
  <2>2. CASE val # 0
    <3>1. val \in 1 .. m
      BY <2>2
    <3>2. more[val \div 10] = d[val \div 10]
      BY <1>7, <3>1
    <3>3. CASE val = m
      BY <2>2, <3>2, <3>3
    <3>4. CASE val # m
      <4>1. val \in 0 .. (m - 1) /\ more[val] = d[val]
        BY <1>8, <3>4
      <4> QED
        BY <1>6, <2>2, <3>2, <4>1 DEF IsDigits
    <3> QED
      BY <3>3, <3>4
  <2> QED
    BY <2>1, <2>2
<1>11. IsDigits(more, m)
  BY <1>9, <1>10 DEF IsDigits
<1> QED
  BY <1>2, <1>11

LEMMA DigitsAgree ==
  ASSUME NEW d, NEW e, NEW n \in Nat, NEW m \in Nat, IsDigits(d, n), IsDigits(e, m),
         NEW val \in Nat, val <= n, val <= m
  PROVE  d[val] = e[val]
<1> DEFINE wrong == {v \in 0 .. val : d[v] # e[v]}
<1>1. SUFFICES ASSUME wrong # {}
               PROVE  FALSE
  OBVIOUS
<1>2. PICK v \in wrong : \A o \in wrong : v <= o
  <2>1. wrong \in SUBSET Nat
    OBVIOUS
  <2> HIDE DEF wrong
  <2> QED
    BY <1>1, <2>1, LeastFacts
<1>3. v \in 0 .. n /\ v \in 0 .. m
  BY <1>2
<1>4. v # 0
  BY <1>2, <1>3 DEF IsDigits
<1>5. v \div 10 \in 0 .. val /\ ~(v <= v \div 10)
  BY <1>2, <1>4, LastDigitFacts
<1>6. d[v \div 10] = e[v \div 10]
  BY <1>2, <1>5
<1> QED
  BY <1>2, <1>3, <1>4, <1>6 DEF IsDigits

LEMMA DigitsFacts ==
  /\ \A val \in Nat : digits[val] \in Written10
  /\ digits[0] = <<>>
  /\ \A val \in Nat \ {0} : digits[val] = Append(digits[val \div 10], LastDigit(val))
<1> DEFINE all == [val \in Nat |-> (CHOOSE d : IsDigits(d, val))[val]]
           Is(f) == f = [val \in Nat |-> IF val = 0 THEN <<>>
                                         ELSE Append(f[val \div 10], Numerals[1 + (val % 10)])]
<1>1. ASSUME NEW val \in Nat
      PROVE  /\ all[val] \in Written10
             /\ all[val] = IF val = 0 THEN <<>>
                           ELSE Append(all[val \div 10], LastDigit(val))
  <2>1. PICK d : d = CHOOSE c : IsDigits(c, val)
    OBVIOUS
  <2>2. IsDigits(d, val) /\ all[val] = d[val]
    BY <2>1, DigitsExist
  <2>3. val \in 0 .. val /\ val \div 10 \in Nat /\ (val # 0 => val \div 10 <= val)
    BY LastDigitFacts
  <2>4. ASSUME val # 0
        PROVE  all[val \div 10] = d[val \div 10]
    <3>1. PICK e : e = CHOOSE c : IsDigits(c, val \div 10)
      OBVIOUS
    <3>2. IsDigits(e, val \div 10) /\ all[val \div 10] = e[val \div 10]
      BY <2>3, <3>1, DigitsExist
    <3>3. PICK v \in Nat : v = val \div 10
      BY <2>3
    <3>4. v <= v /\ v <= val
      BY <2>3, <2>4, <3>3
    <3> HIDE DEF all
    <3>5. d[v] = e[v]
      BY <2>2, <3>2, <3>3, <3>4, DigitsAgree
    <3> QED
      BY <3>2, <3>3, <3>5
  <2> HIDE DEF all
  <2> QED
    BY <2>2, <2>3, <2>4 DEF IsDigits
<1>2. Is(all)
  <2>1. all = [val \in Nat |-> all[val]]
    OBVIOUS
  <2>2. \A val \in Nat : all[val] = IF val = 0 THEN <<>>
                                    ELSE Append(all[val \div 10], Numerals[1 + (val % 10)])
    BY <1>1 DEF LastDigit
  <2> HIDE DEF all
  <2> QED
    BY <2>1, <2>2
<1>3. Is(digits)
  <2> HIDE DEF all
  <2>1. \E f : Is(f)
    BY <1>2
  <2>2. digits = CHOOSE f : Is(f)
    BY DEF digits
  <2> QED
    BY <2>1, <2>2
<1>4. \A val \in Nat : digits[val] = IF val = 0 THEN <<>>
                                     ELSE Append(digits[val \div 10], LastDigit(val))
  <2> HIDE DEF all
  <2> QED
    BY <1>3 DEF LastDigit
<1>5. \A val \in Nat : digits[val] \in Written10
  <2> DEFINE wrong == {val \in Nat : digits[val] \notin Written10}
  <2>1. SUFFICES ASSUME wrong # {}
                 PROVE  FALSE
    OBVIOUS
  <2>2. PICK val \in wrong : \A o \in wrong : val <= o
    <3>1. wrong \in SUBSET Nat
      OBVIOUS
    <3> HIDE DEF wrong
    <3> QED
      BY <2>1, <3>1, LeastFacts
  <2>3. val # 0
    <3>1. <<>> \in Written10
      BY DEF Written10
    <3> QED
      BY <1>4, <2>2, <3>1
  <2>4. val \div 10 \in Nat /\ ~(val <= val \div 10)
    BY <2>2, <2>3, LastDigitFacts
  <2>5. digits[val \div 10] \in Written10
    BY <2>2, <2>4
  <2> QED
    BY <1>4, <2>2, <2>3, <2>5, AppendsDigit
<1> QED
  BY <1>4, <1>5

\* No zero in front, and atoi is its inverse.
LEMMA NumberFacts ==
  ASSUME NEW val \in Nat \ {0}
  PROVE  /\ digits[val] \in Written10
         /\ Len(digits[val]) >= 1
         /\ digits[val][1] # "0"
         /\ Value(digits[val], Len(digits[val])) = val
<1> DEFINE Right(v) == /\ Len(digits[v]) >= 1
                       /\ digits[v][1] # "0"
                       /\ Value(digits[v], Len(digits[v])) = v
           wrong == {v \in Nat \ {0} : ~Right(v)}
<1>1. SUFFICES ASSUME wrong # {}
               PROVE  FALSE
  BY DigitsFacts
<1>2. PICK v \in wrong : \A o \in wrong : v <= o
  <2>1. wrong \in SUBSET Nat
    OBVIOUS
  <2> HIDE DEF wrong
  <2> QED
    BY <1>1, <2>1, LeastFacts
<1>3. v \in Nat /\ v # 0 /\ ~Right(v)
  BY <1>2
<1>4. PICK q \in Nat : q = v \div 10
  BY <1>3, LastDigitFacts
<1>5. PICK s \in Written10 : s = digits[q]
  BY DigitsFacts
<1>6. PICK c : c = LastDigit(v)
  OBVIOUS
<1>7. c \in DOMAIN Digit /\ Digit[c] = v % 10 /\ v = q * 10 + (v % 10) /\ q <= v - 1
      /\ (v % 10 # 0 => c # "0") /\ v % 10 \in Nat
  BY <1>3, <1>4, <1>6, LastDigitFacts
<1>8. PICK t \in Written10 : t = digits[v]
  BY <1>3, DigitsFacts
<1>9. t = Append(s, c)
  BY <1>3, <1>4, <1>5, <1>6, <1>8, DigitsFacts
<1>10. PICK n \in Nat : n = Len(s)
  BY DEF Written10
<1>11. /\ Len(t) = n + 1 /\ t[n + 1] = c
       /\ \A j \in 1 .. n : t[j] = s[j] /\ s[j] \in DOMAIN Digit
       /\ \A j \in 1 .. (n + 1) : t[j] \in DOMAIN Digit
  BY <1>7, <1>8, <1>9, <1>10 DEF Written10
<1>12. Value(t, n) = Value(s, n)
  BY <1>11, ValueOfPrefix
<1>13. Value(t, n + 1) = Value(t, n) * 10 + Digit[c]
  <2>1. n + 1 \in Nat /\ n + 1 \in 1 .. (n + 1) /\ (n + 1) - 1 = n
    OBVIOUS
  <2> QED
    BY <1>11, <2>1, ValueFacts
<1>14. Value(s, n) = q
  <2>1. CASE q = 0
    <3>1. n = 0
      BY <1>5, <1>10, <2>1, DigitsFacts
    <3>2. Value(s, 0) = 0
      BY <1>11, ValueFacts
    <3> QED
      BY <2>1, <3>1, <3>2
  <2>2. CASE q # 0
    <3>1. q \notin wrong /\ q \in Nat \ {0}
      BY <1>2, <1>3, <1>7, <2>2
    <3>2. Right(q)
      BY <3>1
    <3> QED
      BY <1>5, <1>10, <3>2
  <2> QED
    BY <2>1, <2>2
<1>15. t[1] # "0"
  <2>1. CASE q = 0
    <3>1. n = 0 /\ v % 10 # 0
      BY <1>3, <1>5, <1>7, <1>10, <2>1, DigitsFacts
    <3> QED
      BY <1>7, <1>11, <3>1
  <2>2. CASE q # 0
    <3>1. q \notin wrong /\ q \in Nat \ {0}
      BY <1>2, <1>3, <1>7, <2>2
    <3>2. n >= 1 /\ s[1] # "0"
      BY <1>5, <1>10, <3>1
    <3> QED
      BY <1>11, <3>2
  <2> QED
    BY <2>1, <2>2
<1>16. Right(v)
  <2>1. Value(t, n + 1) = v
    <3>1. PICK r \in Nat : r = v % 10
      BY <1>7
    <3> QED
      BY <1>3, <1>7, <1>12, <1>13, <1>14, <3>1
  <2> QED
    BY <1>8, <1>11, <1>15, <2>1
<1> QED
  BY <1>3, <1>16

\* With padding in front.
Padded(s, c, n, number) == s = Repeat(c, n) \o number

Parts(s, c, n, number) ==
  /\ Len(s) = n + Len(number)
  /\ n \in 0 .. (Len(s) - 1)
  /\ \A j \in 1 .. n : s[j] = c
  /\ After(s, n) = number

LEMMA PaddedFacts ==
  ASSUME NEW c, NEW n, n \in Nat, NEW number, number \in Written10, number # <<>>,
         NEW s, Padded(s, c, n, number)
  PROVE  Parts(s, c, n, number)
<1>1. /\ Repeat(c, n) \in Seq({c}) /\ Len(Repeat(c, n)) = n
      /\ \A j \in 1 .. n : Repeat(c, n)[j] = c
  BY DEF Repeat
<1>2. PICK blanks \in Seq({c}) : blanks = Repeat(c, n)
  BY <1>1
<1>3. PICK S : S = {c} \union DOMAIN Digit
  OBVIOUS
<1>4. blanks \in Seq(S) /\ number \in Seq(S) /\ number \in Seq(DOMAIN Digit)
  BY <1>3 DEF Written10
<1>5. /\ s \in Seq(S) /\ Len(s) = Len(blanks) + Len(number)
      /\ \A j \in 1 .. (Len(blanks) + Len(number)) :
           s[j] = IF j <= Len(blanks) THEN blanks[j] ELSE number[j - Len(blanks)]
  BY <1>2, <1>4, ConcatProperties DEF Padded
<1>6. Len(blanks) = n /\ Len(number) \in Nat /\ Len(number) >= 1
  BY <1>1, <1>2, <1>4
<1>7. /\ Len(s) = n + Len(number) /\ n \in 0 .. (Len(s) - 1)
      /\ \A j \in 1 .. n : s[j] = c
      /\ \A j \in 1 .. Len(number) : s[n + j] = number[j]
  BY <1>1, <1>2, <1>5, <1>6
<1>8. After(s, n) = number
  <2>1. /\ After(s, n) \in Seq(S) /\ Len(After(s, n)) = Len(number)
        /\ \A j \in 1 .. Len(number) : After(s, n)[j] = s[n + j]
    <3>1. n + 1 \in 1 .. Len(s) + 1 /\ Len(s) \in Nat
          /\ \A j \in (n + 1) .. Len(s) : s[j] \in S
      BY <1>5, <1>6, <1>7
    <3>2. /\ SubSeq(s, n + 1, Len(s)) \in Seq(S)
          /\ Len(SubSeq(s, n + 1, Len(s))) =
               IF n + 1 <= Len(s) THEN Len(s) - (n + 1) + 1 ELSE 0
          /\ \A j \in 1 .. Len(s) - (n + 1) + 1 :
               SubSeq(s, n + 1, Len(s))[j] = s[n + 1 + j - 1]
      BY <1>5, <3>1, SubSeqProperties
    <3> QED
      BY <1>6, <1>7, <3>2 DEF After
  <2> QED
    BY <1>4, <1>7, <2>1, SeqEqual
<1> QED
  BY <1>7, <1>8 DEF Parts

\* The number that is read back is the one that is behind it.
IsNumber(number, val) ==
  /\ number \in Written10 /\ number # <<>>
  /\ Len(number) > 1 => number[1] # "0"
  /\ Value(number, Len(number)) = val

Blank(piece) == IF piece.zero THEN "0" ELSE " "

LEMMA PaddedReadsBack ==
  ASSUME NEW piece, piece.width \in Nat, NEW number, IsNumber(number, piece.val),
         NEW n, n \in Nat, n = Atleast0(piece.width - Len(number)),
         NEW s, Padded(s, Blank(piece), n, number)
  PROVE  ReadsBack(s, piece)
<1>1. PICK c : c = Blank(piece)
  OBVIOUS
<1>2. number \in Written10 /\ number # <<>> /\ Padded(s, c, n, number)
  BY <1>1 DEF IsNumber
<1>13. Parts(s, c, n, number)
  BY <1>2, PaddedFacts
<1>3. /\ Len(s) = n + Len(number) /\ n \in 0 .. (Len(s) - 1)
      /\ \A j \in 1 .. n : s[j] = c
      /\ After(s, n) = number
  BY <1>13 DEF Parts
<1>4. PICK l \in Nat : l = Len(number)
  BY <1>2 DEF Written10
<1>5. PICK w \in Nat : w = piece.width
  OBVIOUS
<1>6. PICK total \in Nat : total = Len(s)
  BY <1>3, <1>4
<1>7. n = IF w - l > 0 THEN w - l ELSE 0
  BY <1>4, <1>5 DEF Atleast0
<1>8. total = n + l /\ (n > 0 => total = w) /\ total >= w
  BY <1>3, <1>4, <1>6, <1>7
<1>9. (n > 0 => Len(s) = piece.width) /\ Len(s) >= piece.width
  BY <1>5, <1>6, <1>8
<1>10. \A j \in DOMAIN number : number[j] \in DOMAIN Digit
  BY <1>2 DEF Written10
<1>11. (Len(number) > 1 => number[1] # "0") /\ atoi(number) = piece.val
  BY <1>2, AtoiFacts DEF IsNumber, Written10
<1>12. \A j \in 1 .. n : s[j] = IF piece.zero THEN "0" ELSE " "
  BY <1>1, <1>3, Zenon DEF Blank
<1> QED
  BY <1>3, <1>9, <1>10, <1>11, <1>12, Zenon DEF ReadsBack

LEMMA PrintedNumberReadsBack ==
  ASSUME NEW piece, piece.val \in Nat, piece.width \in Nat
  PROVE  ReadsBack(parse_num(piece.val, piece.width, piece.zero), piece)
<1>1. PICK s : s = parse_num(piece.val, piece.width, piece.zero)
  OBVIOUS
<1>2. PICK c : c = Blank(piece)
  OBVIOUS
<1>3. PICK val \in Nat : val = piece.val
  OBVIOUS
<1>4. ASSUME NEW number, IsNumber(number, val),
             Padded(s, c, Atleast0(piece.width - Len(number)), number)
      PROVE  ReadsBack(s, piece)
  <2>1. PICK n \in Nat : n = Atleast0(piece.width - Len(number))
    BY <1>4 DEF IsNumber, Written10, Atleast0
  <2> QED
    BY <1>2, <1>3, <1>4, <2>1, PaddedReadsBack
<1>5. CASE val = 0
  <2>1. PICK zero : zero = <<"0">>
    OBVIOUS
  <2>2. zero \in Written10 /\ zero # <<>> /\ Len(zero) = 1 /\ zero[1] = "0"
    BY <2>1, DigitFacts DEF Written10
  <2>3. Value(zero, 1) = 0
    <3>1. 1 \in Nat /\ 1 \in 1 .. 1 /\ 1 - 1 = 0 /\ \A j \in 1 .. 1 : j = 1
      OBVIOUS
    <3>2. \A j \in 1 .. 1 : zero[j] \in DOMAIN Digit
      BY <2>2, <3>1, DigitFacts
    <3>5. PICK n \in Nat : n = 1
      OBVIOUS
    <3>6. /\ Value(zero, 0) = 0
          /\ \A m \in 1 .. n : Value(zero, m) = Value(zero, m - 1) * 10 + Digit[zero[m]]
      BY <3>2, <3>5, ValueFacts
    <3>3. Value(zero, 1) = Value(zero, 0) * 10 + Digit["0"] /\ Value(zero, 0) = 0
      BY <2>2, <3>1, <3>5, <3>6
    <3>4. Digit["0"] = 0
      BY DigitFacts
    <3> QED
      BY <3>3, <3>4
  <2>4. IsNumber(zero, val)
    BY <1>5, <2>2, <2>3 DEF IsNumber
  <2>5. PICK n \in Nat : n = Atleast0(piece.width - 1)
    BY DEF Atleast0
  <2>6. s = Append(Repeat(c, n), "0")
    BY <1>1, <1>2, <1>3, <1>5, <2>5, Zenon DEF parse_num, Blank
  <2>7. Repeat(c, n) \in Seq({c, "0"})
    BY DEF Repeat
  <2>8. Padded(s, c, n, zero)
    BY <2>1, <2>6, <2>7, AppendIsConcat DEF Padded
  <2>9. Padded(s, c, Atleast0(piece.width - Len(zero)), zero)
    BY <2>2, <2>5, <2>8
  <2> QED
    BY <1>1, <1>4, <2>4, <2>9
<1>6. CASE val # 0
  <2>1. PICK number \in Written10 : number = digits[val]
    BY DigitsFacts
  <2>2. Len(number) >= 1 /\ number[1] # "0" /\ Value(number, Len(number)) = val
    BY <1>6, <2>1, NumberFacts
  <2>3. IsNumber(number, val)
    BY <2>2 DEF IsNumber
  <2>4. Padded(s, c, Atleast0(piece.width - Len(number)), number)
    BY <1>1, <1>2, <1>3, <1>6, <2>1, Zenon DEF parse_num, Padded, Blank
  <2> QED
    BY <1>1, <1>4, <2>3, <2>4
<1> QED
  BY <1>1, <1>5, <1>6

-----------------------------------------------------------------------------
(***************************************************************************)
(* What is seen of a text.                                                 *)
(***************************************************************************)
SeenStates == [in : {"text", "ESC", "sequence"}, out : Seq(Characters)]

Of(in, out) == [in |-> in, out |-> out]

Unseen == Of("text", <<>>)

LEMMA SeesFacts ==
  ASSUME NEW o, NEW c
  PROVE  /\ Sees(Of("text", o), "ESC") = Of("ESC", o)
         /\ c \notin Controls => Sees(Of("text", o), c) = Of("text", Append(o, c))
         /\ c \in Controls \ {"ESC"} => Sees(Of("text", o), c) = Of("text", o)
         /\ Sees(Of("ESC", o), c) = Of("sequence", o)
         /\ c \in {"m", "H", "J"} => Sees(Of("sequence", o), c) = Of("text", o)
         /\ c \notin {"m", "H", "J"} => Sees(Of("sequence", o), c) = Of("sequence", o)
<1>1. "ESC" \in Controls
  BY DEF Controls
<1>2. Sees(Of("text", o), "ESC") = Of("ESC", o)
  BY <1>1 DEF Sees, Of
<1>3. ASSUME c \notin Controls
      PROVE  Sees(Of("text", o), c) = Of("text", Append(o, c))
  <2>1. c # "ESC"
    BY <1>1, <1>3
  <2> QED
    BY <1>3, <2>1 DEF Sees, Of
<1>4. c \in Controls \ {"ESC"} => Sees(Of("text", o), c) = Of("text", o)
  BY DEF Sees, Of
<1>5. Sees(Of("ESC", o), c) = Of("sequence", o)
  BY DEF Sees, Of
<1>6. c \in {"m", "H", "J"} => Sees(Of("sequence", o), c) = Of("text", o)
  BY DEF Sees, Of
<1>7. c \notin {"m", "H", "J"} => Sees(Of("sequence", o), c) = Of("sequence", o)
  BY DEF Sees, Of
<1> QED
  BY <1>2, <1>3, <1>4, <1>5, <1>6, <1>7

LEMMA SeesTypes ==
  ASSUME NEW state \in SeenStates, NEW c \in Characters
  PROVE  Sees(state, c) \in SeenStates
<1>1. PICK in \in {"text", "ESC", "sequence"}, o \in Seq(Characters) : state = Of(in, o)
  BY DEF SeenStates, Of
<1>2. \A next \in {"text", "ESC", "sequence"}, out \in Seq(Characters) :
        Of(next, out) \in SeenStates
  BY DEF SeenStates, Of
<1>3. Append(o, c) \in Seq(Characters)
  OBVIOUS
<1>4. CASE in = "text"
  <2>1. c = "ESC" \/ c \notin Controls \/ c \in Controls \ {"ESC"}
    OBVIOUS
  <2> QED
    BY <1>1, <1>2, <1>3, <1>4, <2>1, SeesFacts
<1>5. CASE in = "ESC"
  BY <1>1, <1>2, <1>5, SeesFacts
<1>6. CASE in = "sequence"
  BY <1>1, <1>2, <1>6, SeesFacts
<1> QED
  BY <1>1, <1>4, <1>5, <1>6

\* The loop of a reader.
Reads(t) ==
  /\ Seen(t, 0) = Unseen
  /\ \A m \in 0 .. Len(t) : Seen(t, m) \in SeenStates
  /\ \A m \in 1 .. Len(t) : Seen(t, m) = Sees(Seen(t, m - 1), t[m])

LEMMA SeenFacts ==
  ASSUME NEW t, t \in Seq(Characters)
  PROVE  Reads(t)
<1> DEFINE step == [j \in 1 .. Len(t) |-> [state \in SeenStates |-> Sees(state, t[j])]]
<1>1. PICK n \in Nat : n = Len(t)
  OBVIOUS
<1>2. step \in [1 .. n -> [SeenStates -> SeenStates]]
  <2>1. \A j \in 1 .. n : t[j] \in Characters
    BY <1>1
  <2>2. \A j \in 1 .. n : [state \in SeenStates |-> Sees(state, t[j])]
                            \in [SeenStates -> SeenStates]
    BY <2>1, SeesTypes
  <2> QED
    BY <1>1, <2>2
<1>3. Unseen \in SeenStates
  BY DEF Unseen, Of, SeenStates
<1>4. PICK run : IsRun(run, SeenStates, Unseen, step, n)
  <2> HIDE DEF step
  <2> QED
    BY <1>2, <1>3, RunExists
<1>5. run \in [0 .. n -> SeenStates] /\ run[0] = Unseen
  BY <1>4 DEF IsRun
<1>6. ASSUME NEW m \in 1 .. n
      PROVE  run[m] = Sees(run[m - 1], t[m])
  <2>1. m - 1 \in 0 .. n
    OBVIOUS
  <2>2. run[m - 1] \in SeenStates
    BY <1>5, <2>1
  <2> QED
    BY <1>1, <1>4, <2>2 DEF IsRun
<1>7. ASSUME NEW m \in 0 .. n
      PROVE  Seen(t, m) = run[m]
  <2> DEFINE Is(a) ==
        a = [j \in 0 .. m |-> IF j = 0 THEN [in |-> "text", out |-> <<>>]
                              ELSE Sees(a[j - 1], t[j])]
             state == CHOOSE a : Is(a)
             part == [j \in 0 .. m |-> run[j]]
  <2>1. Is(part)
    <3>1. ASSUME NEW j \in 0 .. m
          PROVE  run[j] = IF j = 0 THEN [in |-> "text", out |-> <<>>]
                          ELSE Sees(part[j - 1], t[j])
      <4>1. CASE j = 0
        BY <1>5, <4>1 DEF Unseen, Of
      <4>2. CASE j # 0
        <5>1. j \in 1 .. n /\ j - 1 \in 0 .. m
          BY <4>2
        <5>2. part[j - 1] = run[j - 1]
          BY <5>1
        <5>3. run[j] = Sees(run[j - 1], t[j])
          BY <1>6, <5>1
        <5> HIDE DEF part
        <5> QED
          BY <4>2, <5>2, <5>3
      <4> QED
        BY <4>1, <4>2
    <3> QED
      BY <3>1
  <2>2. Is(state)
    BY <2>1
  <2>3. state[0] = Unseen
    <3> HIDE DEF state
    <3>1. 0 \in 0 .. m
      OBVIOUS
    <3> QED
      BY <2>2, <3>1 DEF Unseen, Of
  <2>4. ASSUME NEW j \in 1 .. m, state[j - 1] \in SeenStates
        PROVE  state[j] = step[j][state[j - 1]]
    <3>1. j \in 0 .. m /\ j # 0 /\ j \in 1 .. n
      OBVIOUS
    <3> HIDE DEF state
    <3>2. state[j] = Sees(state[j - 1], t[j])
      BY <2>2, <3>1
    <3> QED
      BY <1>1, <2>4, <3>1, <3>2
  <2>5. Seen(t, m) = state[m]
    BY DEF Seen
  <2> HIDE DEF state, step
  <2>6. Follows(state, SeenStates, Unseen, step, m)
    BY <2>3, <2>4 DEF Follows
  <2>7. state[m] = run[m]
    BY <1>3, <1>4, <2>6, RunIsUnique
  <2> QED
    BY <2>5, <2>7
<1> HIDE DEF step
<1>8. \A m \in 1 .. n : m \in 0 .. n /\ m - 1 \in 0 .. n
  OBVIOUS
<1>9. 0 \in 0 .. n
  OBVIOUS
<1> QED
  BY <1>1, <1>5, <1>6, <1>7, <1>8, <1>9 DEF Reads

\* After k characters none is in a sequence, and o has been seen.
Shows(t, k, o) == k \in 0 .. Len(t) /\ Seen(t, k) = Of("text", o)

LEMMA ShowsNext ==
  ASSUME NEW t, t \in Seq(Characters), NEW k, NEW o, Shows(t, k, o),
         k < Len(t), t[k + 1] # "ESC"
  PROVE  Shows(t, k + 1, IF t[k + 1] \in Controls THEN o ELSE Append(o, t[k + 1]))
<1>1. k \in 0 .. Len(t) /\ Seen(t, k) = Of("text", o)
  BY DEF Shows
<1>2. k + 1 \in 1 .. Len(t) /\ (k + 1) - 1 = k /\ k + 1 \in 0 .. Len(t)
  BY <1>1
<1>3. PICK c : c = t[k + 1]
  OBVIOUS
<1>4. Seen(t, k + 1) = Sees(Of("text", o), c)
  BY <1>1, <1>2, <1>3, SeenFacts DEF Reads
<1>5. c # "ESC"
  BY <1>3
<1>6. Sees(Of("text", o), c) = Of("text", IF c \in Controls THEN o ELSE Append(o, c))
  BY <1>5, SeesFacts
<1> QED
  BY <1>2, <1>3, <1>4, <1>6 DEF Shows

\* A sequence behind k, that ends at n.
Spans(t, k, n) ==
  /\ n >= k + 3 /\ n <= Len(t)
  /\ t[k + 1] = "ESC"
  /\ \A l \in (k + 3) .. (n - 1) : t[l] \notin {"m", "H", "J"}
  /\ t[n] \in {"m", "H", "J"}

LEMMA ShowsBehind ==
  ASSUME NEW t, t \in Seq(Characters), NEW k, NEW o, Shows(t, k, o),
         NEW n, n \in Nat, Spans(t, k, n)
  PROVE  Shows(t, n, o)
<1>1. k \in Nat /\ Seen(t, k) = Of("text", o) /\ Len(t) \in Nat
  BY DEF Shows
<1>2. n >= k + 3 /\ n <= Len(t)
  BY DEF Spans
<1>3. \A m \in 1 .. Len(t) : Seen(t, m) = Sees(Seen(t, m - 1), t[m])
  BY SeenFacts DEF Reads
<1>4. Seen(t, k + 1) = Of("ESC", o)
  <2>1. k + 1 \in 1 .. Len(t) /\ (k + 1) - 1 = k
    BY <1>1, <1>2
  <2>2. Seen(t, k + 1) = Sees(Of("text", o), "ESC")
    BY <1>1, <1>3, <2>1 DEF Spans
  <2> QED
    BY <2>2, SeesFacts
<1>5. Seen(t, k + 2) = Of("sequence", o)
  <2>1. k + 2 \in 1 .. Len(t) /\ (k + 2) - 1 = k + 1
    BY <1>1, <1>2
  <2>2. Seen(t, k + 2) = Sees(Of("ESC", o), t[k + 2])
    BY <1>3, <1>4, <2>1
  <2> QED
    BY <2>2, SeesFacts
<1> DEFINE wrong == {l \in Nat : /\ k + 2 <= l /\ l <= n - 1
                                 /\ Seen(t, l) # Of("sequence", o)}
<1>6. ASSUME wrong # {}
      PROVE  FALSE
  <2>1. PICK l \in wrong : \A j \in wrong : l <= j
    <3>1. wrong \in SUBSET Nat
      OBVIOUS
    <3> HIDE DEF wrong
    <3> QED
      BY <1>6, <3>1, LeastFacts
  <2>2. l # k + 2
    BY <1>5, <2>1
  <2>3. /\ l \in 1 .. Len(t) /\ l \in (k + 3) .. (n - 1) /\ l - 1 \in Nat
        /\ k + 2 <= l - 1 /\ l - 1 <= n - 1 /\ ~(l <= l - 1)
    BY <1>1, <1>2, <2>1, <2>2
  <2>4. Seen(t, l - 1) = Of("sequence", o)
    BY <2>1, <2>3
  <2>5. t[l] \notin {"m", "H", "J"}
    BY <2>3 DEF Spans
  <2>6. Seen(t, l) = Of("sequence", o)
    BY <1>3, <2>3, <2>4, <2>5, SeesFacts
  <2> QED
    BY <2>1, <2>6
<1>7. Seen(t, n) = Of("text", o)
  <2>1. n \in 1 .. Len(t) /\ n - 1 \in Nat /\ k + 2 <= n - 1 /\ n - 1 <= n - 1
    BY <1>1, <1>2
  <2>2. Seen(t, n - 1) = Of("sequence", o)
    BY <1>6, <2>1
  <2>3. t[n] \in {"m", "H", "J"}
    BY DEF Spans
  <2> QED
    BY <1>3, <2>1, <2>2, <2>3, SeesFacts
<1> QED
  BY <1>2, <1>7 DEF Shows

-----------------------------------------------------------------------------
(***************************************************************************)
(* What is read of a text.                                                 *)
(***************************************************************************)
\* What is behind k characters.
RestOf(r, t, k) ==
  /\ r \in Seq(Characters)
  /\ Len(r) = Len(t) - k
  /\ \A j \in 1 .. Len(r) : r[j] = t[k + j]

LEMMA RestFacts ==
  ASSUME NEW t, t \in Seq(Characters), NEW k, k \in 0 .. Len(t)
  PROVE  RestOf(After(t, k), t, k)
<1>1. PICK n \in Nat : n = Len(t)
  OBVIOUS
<1>2. k + 1 \in Int /\ n \in Int /\ \A j \in (k + 1) .. n : t[j] \in Characters
  BY <1>1
<1>3. /\ SubSeq(t, k + 1, n) \in Seq(Characters)
      /\ Len(SubSeq(t, k + 1, n)) = IF k + 1 <= n THEN n - (k + 1) + 1 ELSE 0
      /\ \A j \in 1 .. n - (k + 1) + 1 : SubSeq(t, k + 1, n)[j] = t[k + 1 + j - 1]
  BY <1>2, SubSeqProperties
<1>4. Len(SubSeq(t, k + 1, n)) = n - k
  BY <1>1, <1>3
<1>5. \A j \in 1 .. (n - k) : SubSeq(t, k + 1, n)[j] = t[k + j]
  <2>1. \A j \in 1 .. (n - k) : j \in 1 .. n - (k + 1) + 1 /\ k + 1 + j - 1 = k + j
    BY <1>1
  <2> QED
    BY <1>3, <2>1
<1> QED
  BY <1>1, <1>3, <1>4, <1>5 DEF RestOf, After

LEMMA RestIsAfter ==
  ASSUME NEW t, t \in Seq(Characters), NEW k, k \in 0 .. Len(t), NEW r, RestOf(r, t, k)
  PROVE  r = After(t, k)
<1>1. RestOf(After(t, k), t, k)
  BY RestFacts
<1>2. /\ r \in Seq(Characters) /\ After(t, k) \in Seq(Characters)
      /\ Len(r) = Len(After(t, k))
      /\ \A j \in 1 .. Len(r) : r[j] = After(t, k)[j]
  BY <1>1 DEF RestOf
<1> QED
  BY <1>2, SeqEqual

LEMMA AfterAfter ==
  ASSUME NEW t, t \in Seq(Characters), NEW k, k \in 0 .. Len(t),
         NEW r, r = After(t, k), NEW n, n \in 0 .. Len(r)
  PROVE  k + n \in 0 .. Len(t) /\ After(r, n) = After(t, k + n)
<1>1. RestOf(r, t, k)
  BY RestFacts
<1>2. PICK s : s = After(r, n)
  OBVIOUS
<1>3. r \in Seq(Characters) /\ RestOf(s, r, n)
  <2>1. r \in Seq(Characters)
    BY <1>1 DEF RestOf
  <2> QED
    BY <1>2, <2>1, RestFacts
<1>4. PICK l \in Nat : l = Len(t)
  OBVIOUS
<1>5. Len(r) = l - k /\ Len(s) = Len(r) - n /\ s \in Seq(Characters)
  BY <1>1, <1>3, <1>4 DEF RestOf
<1>6. k + n \in 0 .. l
  BY <1>4, <1>5
<1>7. \A j \in 1 .. Len(s) : s[j] = t[(k + n) + j]
  <2>1. \A j \in 1 .. Len(s) : s[j] = r[n + j]
    BY <1>3 DEF RestOf
  <2>2. \A j \in 1 .. Len(s) : n + j \in 1 .. Len(r) /\ k + (n + j) = (k + n) + j
    BY <1>4, <1>5
  <2>3. \A j \in 1 .. Len(r) : r[j] = t[k + j]
    BY <1>1 DEF RestOf
  <2> QED
    BY <2>1, <2>2, <2>3
<1>8. RestOf(s, t, k + n)
  BY <1>4, <1>5, <1>6, <1>7 DEF RestOf
<1> QED
  BY <1>2, <1>4, <1>6, <1>8, RestIsAfter

LEMMA HeadFacts ==
  ASSUME NEW t, t \in Seq(Characters), NEW k, k \in 0 .. Len(t),
         NEW r, r = After(t, k), r # <<>>
  PROVE  k < Len(t) /\ Head(r) = t[k + 1] /\ Tail(r) = After(t, k + 1)
<1>1. RestOf(r, t, k)
  BY RestFacts
<1>2. PICK n \in Nat : n = Len(t)
  OBVIOUS
<1>3. r \in Seq(Characters) /\ Len(r) = n - k /\ 1 \in 1 .. Len(r)
  BY <1>1, <1>2 DEF RestOf
<1>4. Head(r) = t[k + 1]
  BY <1>1, <1>3 DEF RestOf
<1>5. PICK s : s = Tail(r)
  OBVIOUS
<1>6. /\ s \in Seq(Characters) /\ Len(s) = Len(r) - 1
      /\ \A j \in 1 .. Len(s) : s[j] = r[j + 1]
  BY <1>3, <1>5, HeadTailProperties
<1>7. \A j \in 1 .. Len(s) : s[j] = t[(k + 1) + j]
  <2>1. \A j \in 1 .. Len(s) : j + 1 \in 1 .. Len(r) /\ k + (j + 1) = (k + 1) + j
    BY <1>2, <1>3, <1>6
  <2>2. \A j \in 1 .. Len(r) : r[j] = t[k + j]
    BY <1>1 DEF RestOf
  <2> QED
    BY <1>6, <2>1, <2>2
<1>8. k < n /\ k + 1 \in 0 .. n /\ Len(s) = n - (k + 1)
  BY <1>2, <1>3, <1>6
<1>9. RestOf(s, t, k + 1)
  BY <1>2, <1>6, <1>7, <1>8 DEF RestOf
<1> QED
  BY <1>2, <1>4, <1>5, <1>8, <1>9, RestIsAfter

HasInFront(s, p) == Len(p) <= Len(s) /\ \A j \in 1 .. Len(p) : s[j] = p[j]

LEMMA BeginsFacts ==
  ASSUME NEW s, s \in Seq(Characters), NEW p, p \in Seq(Characters)
  PROVE  Begins(s, p) <=> HasInFront(s, p)
<1>1. PICK n \in Nat : n = Len(p)
  OBVIOUS
<1>2. n <= Len(s) => /\ SubSeq(s, 1, n) \in Seq(Characters)
                     /\ Len(SubSeq(s, 1, n)) = n
                     /\ \A j \in 1 .. n : SubSeq(s, 1, n)[j] = s[j]
  OBVIOUS
<1>3. SubSeq(p, 1, n) = p
  BY <1>1
<1>4. Begins(s, p) <=> n <= Len(s) /\ p = SubSeq(s, 1, n)
  BY <1>1, <1>3 DEF Begins, IsPrefix
<1>5. ASSUME n <= Len(s), \A j \in 1 .. n : s[j] = p[j]
      PROVE  p = SubSeq(s, 1, n)
  <2>1. PICK q : q = SubSeq(s, 1, n)
    OBVIOUS
  <2>2. q \in Seq(Characters) /\ Len(q) = Len(p) /\ \A j \in 1 .. Len(p) : p[j] = q[j]
    BY <1>1, <1>2, <1>5, <2>1
  <2> QED
    BY <2>1, <2>2, SeqEqual
<1> QED
  BY <1>1, <1>2, <1>4, <1>5 DEF HasInFront

\* The three that are looked for.
LEMMA SequenceFacts ==
  ASSUME NEW s, s \in Seq(Characters)
  PROVE  /\ IsSequence(s) <=> Len(s) >= 2 /\ s[1] = "ESC" /\ s[2] = "["
         /\ Begins(s, <<"ESC", "[", "H">>) <=>
              Len(s) >= 3 /\ s[1] = "ESC" /\ s[2] = "[" /\ s[3] = "H"
         /\ Begins(s, <<"ESC", "[", "2", "J">>) <=>
              Len(s) >= 4 /\ s[1] = "ESC" /\ s[2] = "[" /\ s[3] = "2" /\ s[4] = "J"
<1>1. {"ESC", "[", "2", "J", "H"} \subseteq Characters
  BY DigitFacts DEF Characters, Controls
<1>2. PICK n \in Nat : n = Len(s)
  OBVIOUS
<1>3. IsSequence(s) <=> Len(s) >= 2 /\ s[1] = "ESC" /\ s[2] = "["
  <2>1. PICK p : p = <<"ESC", "[">>
    OBVIOUS
  <2>2. p \in Seq(Characters) /\ Len(p) = 2 /\ p[1] = "ESC" /\ p[2] = "["
    BY <1>1, <2>1
  <2>3. IsSequence(s) <=> HasInFront(s, p)
    BY <2>1, <2>2, BeginsFacts DEF IsSequence
  <2>4. \A j \in 1 .. 2 : j = 1 \/ j = 2
    OBVIOUS
  <2> QED
    BY <1>2, <2>2, <2>3, <2>4 DEF HasInFront
<1>4. Begins(s, <<"ESC", "[", "H">>) <=>
        Len(s) >= 3 /\ s[1] = "ESC" /\ s[2] = "[" /\ s[3] = "H"
  <2>1. PICK p : p = <<"ESC", "[", "H">>
    OBVIOUS
  <2>2. p \in Seq(Characters) /\ Len(p) = 3 /\ p[1] = "ESC" /\ p[2] = "[" /\ p[3] = "H"
    BY <1>1, <2>1
  <2>3. Begins(s, p) <=> HasInFront(s, p)
    BY <2>2, BeginsFacts
  <2>4. \A j \in 1 .. 3 : j = 1 \/ j = 2 \/ j = 3
    OBVIOUS
  <2> QED
    BY <1>2, <2>1, <2>2, <2>3, <2>4 DEF HasInFront
<1>5. Begins(s, <<"ESC", "[", "2", "J">>) <=>
        Len(s) >= 4 /\ s[1] = "ESC" /\ s[2] = "[" /\ s[3] = "2" /\ s[4] = "J"
  <2>1. PICK p : p = <<"ESC", "[", "2", "J">>
    OBVIOUS
  <2>2. /\ p \in Seq(Characters) /\ Len(p) = 4
        /\ p[1] = "ESC" /\ p[2] = "[" /\ p[3] = "2" /\ p[4] = "J"
    BY <1>1, <2>1
  <2>3. Begins(s, p) <=> HasInFront(s, p)
    BY <2>2, BeginsFacts
  <2>4. \A j \in 1 .. 4 : j = 1 \/ j = 2 \/ j = 3 \/ j = 4
    OBVIOUS
  <2> QED
    BY <1>2, <2>1, <2>2, <2>3, <2>4 DEF HasInFront
<1> QED
  BY <1>3, <1>4, <1>5

\* A character that is read is drawn as it is seen.
Draw(o, c) == IF c \in Controls \ {"ESC"} THEN o ELSE Append(o, c)

LEMMA ShowsDrawn ==
  ASSUME NEW t, t \in Seq(Characters), NEW k, NEW o, Shows(t, k, o),
         k < Len(t), t[k + 1] # "ESC"
  PROVE  Shows(t, k + 1, Draw(o, t[k + 1]))
<1>1. Draw(o, t[k + 1]) = IF t[k + 1] \in Controls THEN o ELSE Append(o, t[k + 1])
  BY DEF Draw
<1> QED
  BY <1>1, ShowsNext

\* The invariant: where the text is that has been read.
At(t, k) == k \in 0 .. Len(t) /\ rest = After(t, k) /\ Seen(t, k) = Of("text", shown)

\* In a text that can be read, a sequence begins where ESC is.
LEMMA EscBegins ==
  ASSUME NEW t, t \in Seq(Characters), Readable(t), NEW k, At(t, k),
         k < Len(t), t[k + 1] = "ESC"
  PROVE  /\ IsSequence(rest)
         /\ \E n \in 1 .. Len(t) : IsRead(t, k + 1, n) /\ n >= k + 3
<1>1. k \in 0 .. Len(t) /\ RestOf(rest, t, k)
  BY RestFacts DEF At
<1>2. k + 1 \in 1 .. Len(t) /\ (k + 1) + 2 = k + 3 /\ (k + 1) + 1 = k + 2
  BY <1>1
<1>3. PICK n \in 1 .. Len(t) : IsRead(t, k + 1, n)
  BY <1>2 DEF Readable
<1>4. n >= k + 3 /\ t[k + 2] = "["
  BY <1>2, <1>3 DEF IsRead
<1>8. rest \in Seq(Characters)
  BY <1>1 DEF RestOf
<1>5. PICK l \in Nat : l = Len(rest)
  BY <1>8
<1>6. l >= 2 /\ 1 \in 1 .. l /\ 2 \in 1 .. l
  <2>1. l = Len(t) - k
    BY <1>1, <1>5 DEF RestOf
  <2> QED
    BY <1>1, <1>4, <2>1
<1>7. rest[1] = "ESC" /\ rest[2] = "["
  BY <1>1, <1>4, <1>5, <1>6 DEF RestOf
<1>9. IsSequence(rest)
  BY <1>5, <1>6, <1>7, <1>8, SequenceFacts
<1> QED
  BY <1>3, <1>4, <1>9

\* A turn of either loop, at a character.
LEMMA PutsKeep ==
  ASSUME NEW t, t \in Seq(Characters), Readable(t), NEW k, At(t, k),
         rest # <<>>, ~IsSequence(rest), Draws(Head(rest)), rest' = Tail(rest)
  PROVE  \E n : At(t, n)'
<1>1. k \in 0 .. Len(t) /\ Shows(t, k, shown)
  BY DEF At, Shows
<1>2. k < Len(t) /\ Head(rest) = t[k + 1] /\ Tail(rest) = After(t, k + 1)
  BY HeadFacts DEF At
<1>3. t[k + 1] # "ESC"
  BY <1>2, EscBegins
<1>4. shown' = Draw(shown, t[k + 1])
  BY <1>2 DEF Draws, Draw
<1>5. Shows(t, k + 1, shown')
  BY <1>1, <1>2, <1>3, <1>4, ShowsDrawn
<1> QED
  BY <1>2, <1>5 DEF At, Shows

\* Of a sequence, n being where it ends.
LEMMA SkipKeeps ==
  ASSUME NEW t, t \in Seq(Characters), NEW k, At(t, k), NEW n, n \in Nat, Spans(t, k, n)
  PROVE  /\ Shows(t, n, shown)
         /\ n - k \in 0 .. Len(rest)
         /\ After(rest, n - k) = After(t, n)
<1>1. k \in 0 .. Len(t) /\ Shows(t, k, shown) /\ rest = After(t, k)
  BY DEF At, Shows
<1>2. Shows(t, n, shown)
  BY <1>1, ShowsBehind
<1>3. n >= k + 3 /\ n <= Len(t) /\ Len(t) \in Nat
  BY DEF Spans
<1>4. RestOf(rest, t, k)
  BY <1>1, RestFacts
<1>5. Len(rest) = Len(t) - k
  BY <1>4 DEF RestOf
<1>6. PICK m \in 0 .. Len(rest) : m = n - k /\ k + m = n
  BY <1>1, <1>3, <1>5
<1>7. After(rest, m) = After(t, k + m)
  BY <1>1, <1>6, AfterAfter
<1> QED
  BY <1>2, <1>6, <1>7

LEMMA ClearsKeeps ==
  ASSUME NEW t, t \in Seq(Characters), NEW k, At(t, k), VgaClears
  PROVE  \E n : At(t, n)'
<1>1. /\ Begins(rest, <<"ESC", "[", "2", "J">>)
      /\ rest' = After(rest, 4) /\ shown' = shown
  BY DEF VgaClears
<1>2. k \in 0 .. Len(t) /\ RestOf(rest, t, k)
  BY RestFacts DEF At
<1>3. rest \in Seq(Characters) /\ Len(rest) = Len(t) - k /\ Len(t) \in Nat
  BY <1>2 DEF RestOf
<1>4. Len(rest) >= 4 /\ rest[1] = "ESC" /\ rest[2] = "[" /\ rest[3] = "2" /\ rest[4] = "J"
  BY <1>1, <1>3, SequenceFacts
<1>5. 1 \in 1 .. Len(rest) /\ 3 \in 1 .. Len(rest) /\ 4 \in 1 .. Len(rest)
  BY <1>3, <1>4
<1>6. t[k + 1] = "ESC" /\ t[k + 3] = "2" /\ t[k + 4] = "J"
  BY <1>2, <1>4, <1>5 DEF RestOf
<1>7. PICK n \in Nat : n = k + 4
  BY <1>2
<1>8. Spans(t, k, n)
  <2>1. n >= k + 3 /\ n <= Len(t) /\ \A l \in (k + 3) .. (n - 1) : l = k + 3
    BY <1>2, <1>3, <1>4, <1>7
  <2> QED
    BY <1>6, <1>7, <2>1 DEF Spans
<1>9. n - k = 4
  BY <1>2, <1>7
<1>10. Shows(t, n, shown) /\ After(rest, n - k) = After(t, n)
  BY <1>8, SkipKeeps
<1> QED
  BY <1>1, <1>9, <1>10 DEF At, Shows

LEMMA HomesKeeps ==
  ASSUME NEW t, t \in Seq(Characters), NEW k, At(t, k), VgaHomes
  PROVE  \E n : At(t, n)'
<1>1. /\ Begins(rest, <<"ESC", "[", "H">>)
      /\ rest' = After(rest, 3) /\ shown' = shown
  BY DEF VgaHomes
<1>2. k \in 0 .. Len(t) /\ RestOf(rest, t, k)
  BY RestFacts DEF At
<1>3. rest \in Seq(Characters) /\ Len(rest) = Len(t) - k /\ Len(t) \in Nat
  BY <1>2 DEF RestOf
<1>4. Len(rest) >= 3 /\ rest[1] = "ESC" /\ rest[2] = "[" /\ rest[3] = "H"
  BY <1>1, <1>3, SequenceFacts
<1>5. 1 \in 1 .. Len(rest) /\ 3 \in 1 .. Len(rest)
  BY <1>3, <1>4
<1>6. t[k + 1] = "ESC" /\ t[k + 3] = "H"
  BY <1>2, <1>4, <1>5 DEF RestOf
<1>7. PICK n \in Nat : n = k + 3
  BY <1>2
<1>8. Spans(t, k, n)
  <2>1. n >= k + 3 /\ n <= Len(t) /\ \A l \in (k + 3) .. (n - 1) : FALSE
    BY <1>2, <1>3, <1>4, <1>7
  <2> QED
    BY <1>6, <1>7, <2>1 DEF Spans
<1>9. n - k = 3
  BY <1>2, <1>7
<1>10. Shows(t, n, shown) /\ After(rest, n - k) = After(t, n)
  BY <1>8, SkipKeeps
<1> QED
  BY <1>1, <1>9, <1>10 DEF At, Shows

\* The first "m" is the end of the sequence: of one that has another, it is too
\* far for the buffer.
LEMMA ColourSpans ==
  ASSUME NEW t, t \in Seq(Characters), Readable(t), NEW k, At(t, k),
         IsSequence(rest), ~Overruns(rest)
  PROVE  \E n \in 1 .. Len(t) : Spans(t, k, n) /\ t[n] = "m" /\ n - k = EndOfSequence(rest)
<1>1. k \in 0 .. Len(t) /\ RestOf(rest, t, k)
  BY RestFacts DEF At
<1>2. rest \in Seq(Characters) /\ Len(rest) = Len(t) - k /\ Len(t) \in Nat
  BY <1>1 DEF RestOf
<1>3. \A j \in 1 .. Len(rest) : rest[j] = t[k + j]
  BY <1>1 DEF RestOf
<1>4. k < Len(t) /\ t[k + 1] = "ESC"
  <2>1. Len(rest) >= 2 /\ rest[1] = "ESC"
    BY <1>2, SequenceFacts
  <2>2. 1 \in 1 .. Len(rest)
    BY <1>2, <2>1
  <2> QED
    BY <1>1, <1>2, <1>3, <2>1, <2>2
<1>5. PICK n \in 1 .. Len(t) : IsRead(t, k + 1, n) /\ n >= k + 3
  BY <1>4, EscBegins
<1>6. /\ t[k + 2] = "[" /\ t[n] \in {"m", "H", "J"}
      /\ \A l \in (k + 3) .. (n - 1) : t[l] \notin {"ESC", "m", "H", "J"}
  <2>1. (k + 1) + 1 = k + 2 /\ (k + 1) + 2 = k + 3
    BY <1>1
  <2> QED
    BY <1>5, <2>1 DEF IsRead
<1>7. Spans(t, k, n)
  BY <1>4, <1>5, <1>6 DEF Spans
<1>8. ASSUME NEW j \in Ms(rest)
      PROVE  j \in 1 .. Len(rest) /\ k + j \in Ms(t) /\ k + j >= n
  <2>1. j \in 1 .. Len(rest) /\ rest[j] = "m"
    BY DEF Ms
  <2>2. t[k + j] = "m" /\ k + j \in 1 .. Len(t)
    BY <1>1, <1>2, <1>3, <2>1
  <2>3. k + j # k + 1 /\ k + j # k + 2
    BY <1>4, <1>6, <2>2
  <2>4. k + j \notin (k + 3) .. (n - 1)
    BY <1>6, <2>2
  <2>5. k + j >= n
    BY <1>1, <1>5, <2>1, <2>3, <2>4
  <2> QED
    BY <2>1, <2>2, <2>5 DEF Ms
<1>9. /\ EndOfSequence(rest) \in Ms(rest)
      /\ \A j \in Ms(rest) : EndOfSequence(rest) <= j
  BY <1>2, EndFacts
<1>10. t[n] = "m"
  <2>1. SUFFICES ASSUME t[n] # "m"
                 PROVE  Overruns(rest)
    OBVIOUS
  <2>2. \A l \in Ms(t) : l > n => l > (k + 1) + BUF + 2
    BY <1>5, <2>1 DEF IsRead
  <2>3. ASSUME NEW j \in Ms(rest)
        PROVE  j > BUF + 3
    <3>1. j \in 1 .. Len(rest) /\ k + j \in Ms(t) /\ k + j >= n
      BY <1>8
    <3>2. t[k + j] = "m"
      BY <3>1 DEF Ms
    <3>3. k + j # n
      BY <2>1, <3>2
    <3>4. k + j > n
      BY <1>1, <3>1, <3>3
    <3>5. k + j > (k + 1) + BUF + 2
      BY <2>2, <3>1, <3>4
    <3> QED
      BY <1>1, <3>1, <3>5 DEF BUF
  <2> QED
    BY <2>3 DEF Overruns
<1>11. n - k \in Ms(rest)
  <2>1. n - k \in 1 .. Len(rest) /\ k + (n - k) = n
    BY <1>1, <1>2, <1>5
  <2> QED
    BY <1>3, <1>10, <2>1 DEF Ms
<1>12. n - k = EndOfSequence(rest)
  <2>1. PICK e \in Nat : e = EndOfSequence(rest) /\ k + e >= n /\ e <= n - k
    BY <1>8, <1>9, <1>11
  <2> QED
    BY <1>1, <1>5, <2>1
<1> QED
  BY <1>7, <1>10, <1>12

LEMMA ConsoleColoursKeeps ==
  ASSUME NEW t, t \in Seq(Characters), Readable(t), NEW k, At(t, k), ConsoleColours
  PROVE  \E n : At(t, n)'
<1>1. /\ IsSequence(rest) /\ ~Overruns(rest)
      /\ rest' = After(rest, EndOfSequence(rest)) /\ shown' = shown
  BY DEF ConsoleColours
<1>2. PICK n \in 1 .. Len(t) :
        Spans(t, k, n) /\ t[n] = "m" /\ n - k = EndOfSequence(rest)
  BY <1>1, ColourSpans
<1>3. Shows(t, n, shown) /\ After(rest, n - k) = After(t, n)
  BY <1>2, SkipKeeps
<1> QED
  BY <1>1, <1>2, <1>3 DEF At, Shows

LEMMA VgaColoursKeeps ==
  ASSUME NEW t, t \in Seq(Characters), Readable(t), Followed(t), NEW k, At(t, k),
         VgaColours
  PROVE  \E n : At(t, n)'
<1>1. IsSequence(rest) /\ ~Overruns(rest)
  BY DEF VgaColours, IsColour
<1>2. PICK n \in 1 .. Len(t) :
        Spans(t, k, n) /\ t[n] = "m" /\ n - k = EndOfSequence(rest)
  BY <1>1, ColourSpans
<1>3. Shows(t, n, shown) /\ After(rest, n - k) = After(t, n)
  BY <1>2, SkipKeeps
<1>4. PICK behind : behind = After(t, n)
  OBVIOUS
<1>5. Draws(First(behind)) /\ rest' = Behind(behind)
  BY <1>2, <1>3, <1>4 DEF VgaColours
<1>6. n < Len(t) /\ t[n + 1] # "ESC"
  <2>1. n \in Ms(t)
    BY <1>2 DEF Ms
  <2> QED
    BY <2>1 DEF Followed
<1>7. n \in 0 .. Len(t) /\ behind # <<>>
  <2>1. RestOf(behind, t, n)
    BY <1>4, RestFacts
  <2>2. Len(behind) = Len(t) - n
    BY <2>1 DEF RestOf
  <2> QED
    BY <1>6, <2>2
<1>8. Head(behind) = t[n + 1] /\ Tail(behind) = After(t, n + 1)
  BY <1>4, <1>7, HeadFacts
<1>9. Draws(t[n + 1]) /\ rest' = After(t, n + 1)
  BY <1>5, <1>7, <1>8 DEF First, Behind
<1>10. shown' = Draw(shown, t[n + 1])
  BY <1>9 DEF Draws, Draw
<1>11. Shows(t, n + 1, shown')
  BY <1>3, <1>6, <1>10, ShowsDrawn
<1> QED
  BY <1>9, <1>11 DEF At, Shows

-----------------------------------------------------------------------------
(***************************************************************************)
(* The invariant: of the format whose printing is in progress, what has    *)
(* been drawn is what is seen of the part that has been read, which ends   *)
(* in no sequence.                                                         *)
(***************************************************************************)
ReadsOn(t, framebuffer) == Readable(t) /\ (framebuffer \/ Followed(t))

ShownInv ==
  /\ format = <<>> => rest = <<>> /\ shown = <<>>
  /\ format # <<>> => Printable(format)
  /\ ReadsOn(sprintf(format), use_framebuffer) => \E k : At(sprintf(format), k)

LEMMA NothingPrinted == sprintf(<<>>) = <<>>
<1> DEFINE Is(a) == a = [n \in 0 .. Len(<<>>) |-> IF n = 0 THEN <<>>
                                                 ELSE a[n - 1] \o Put(<<>>[n])]
           s == CHOOSE a : Is(a)
           none == [n \in 0 .. 0 |-> <<>>]
<1>1. Len(<<>>) = 0 /\ 0 \in 0 .. 0 /\ \A n \in 0 .. 0 : n = 0
  OBVIOUS
<1>2. Is(none)
  BY <1>1
<1>3. Is(s)
  BY <1>2
<1>4. sprintf(<<>>) = s[Len(<<>>)]
  BY DEF sprintf
<1> HIDE DEF s
<1>5. s[0] = <<>>
  BY <1>1, <1>3
<1> QED
  BY <1>1, <1>4, <1>5

LEMMA EmptyFacts ==
  /\ <<>> \in Seq(Characters)
  /\ Readable(<<>>)
  /\ Followed(<<>>)
  /\ Visible(<<>>) = <<>>
<1>1. PICK t : t = <<>>
  OBVIOUS
<1>2. t \in Seq(Characters) /\ Len(t) = 0 /\ DOMAIN t = {} /\ Ms(t) = {}
  BY <1>1 DEF Ms
<1>3. Seen(t, 0) = Of("text", <<>>)
  BY <1>2, SeenFacts DEF Reads, Unseen
<1>4. Visible(t) = <<>>
  BY <1>2, <1>3 DEF Visible, Of
<1>5. Readable(t) /\ Followed(t)
  BY <1>2 DEF Readable, Followed
<1> QED
  BY <1>1, <1>2, <1>4, <1>5

LEMMA StartFacts ==
  ASSUME NEW t, t \in Seq(Characters)
  PROVE  0 \in 0 .. Len(t) /\ Seen(t, 0) = Of("text", <<>>) /\ t = After(t, 0)
<1>1. 0 \in 0 .. Len(t) /\ Seen(t, 0) = Of("text", <<>>)
  BY SeenFacts DEF Reads, Unseen
<1>2. RestOf(t, t, 0)
  BY DEF RestOf
<1> QED
  BY <1>1, <1>2, RestIsAfter

LEMMA BeginsAtStart ==
  ASSUME NEW t, t \in Seq(Characters), rest' = t, shown' = <<>>
  PROVE  \E k : At(t, k)'
BY StartFacts DEF At

LEMMA ResetShows ==
  ASSUME rest' = <<>>, shown' = <<>>, format' = <<>>
  PROVE  ShownInv'
<1>1. sprintf(format') = <<>>
  BY NothingPrinted
<1>2. PICK t : t = <<>> /\ t \in Seq(Characters)
  BY EmptyFacts
<1>3. \E k : At(t, k)'
  BY <1>2, BeginsAtStart
<1>4. PICK k : At(t, k)'
  BY <1>3
<1>5. At(sprintf(format), k)'
  BY <1>1, <1>2, <1>4 DEF At
<1> QED
  BY <1>5 DEF ShownInv

LEMMA SameShows ==
  ASSUME ShownInv, UNCHANGED <<rest, shown, format, use_framebuffer>>
  PROVE  ShownInv'
BY DEF ShownInv, At

LEMMA PrintShows ==
  ASSUME NEW fmt, Printable(fmt), printf(fmt)
  PROVE  ShownInv'
<1>1. rest' = sprintf(fmt) /\ shown' = <<>> /\ format' = fmt
  BY DEF printf
<1>2. PICK t : t = sprintf(fmt)
  OBVIOUS
<1>3. t \in Seq(Characters) /\ fmt # <<>>
  BY <1>2 DEF Printable
<1>4. PICK k : At(t, k)'
  BY <1>1, <1>2, <1>3, BeginsAtStart
<1>5. At(sprintf(format), k)'
  BY <1>1, <1>2, <1>4 DEF At
<1>6. Printable(format')
  BY <1>1
<1> QED
  BY <1>1, <1>3, <1>5, <1>6 DEF ShownInv

LEMMA WritesShows ==
  ASSUME ShownInv, Writes
  PROVE  ShownInv'
<1>1. format' = format /\ use_framebuffer' = use_framebuffer
  BY DEF Writes
<1>2. IF use_framebuffer THEN console_write ELSE vga_puts
  BY DEF Writes
<1>3. rest # <<>>
  BY <1>2 DEF console_write, ConsoleOverruns, ConsoleColours, ConsolePuts, ConsoleFaults,
              ConsoleEndFaults, ConsoleWraps, ConsoleReading, vga_puts, VgaClears,
              VgaHomes, VgaOverruns, VgaColours, VgaPuts, IsColour, Reading
<1>4. format # <<>> /\ Printable(format)
  BY <1>3 DEF ShownInv
<1>5. PICK t : t = sprintf(format)
  OBVIOUS
<1>6. t \in Seq(Characters)
  BY <1>4, <1>5 DEF Printable
<1>7. ASSUME ReadsOn(t, use_framebuffer)
      PROVE  \E k : At(t, k)'
  <2>1. Readable(t) /\ (use_framebuffer \/ Followed(t))
    BY <1>7 DEF ReadsOn
  <2>2. PICK k : At(t, k)
    BY <1>5, <1>7 DEF ShownInv
  <2>3. CASE UNCHANGED <<shown, rest>>
    BY <2>2, <2>3 DEF At
  <2>4. CASE use_framebuffer
    <3>1. console_write
      BY <1>2, <2>4
    <3>2. CASE ConsoleOverruns \/ ConsoleFaults \/ ConsoleEndFaults \/ ConsoleWraps
      BY <2>3, <3>2 DEF ConsoleOverruns, ConsoleFaults, ConsoleEndFaults, ConsoleWraps,
                        ConsoleStops
    <3>3. CASE ConsoleColours
      BY <1>6, <2>1, <2>2, <3>3, ConsoleColoursKeeps
    <3>4. CASE ConsolePuts
      <4>1. ~IsSequence(rest) /\ Draws(Head(rest)) /\ rest' = Tail(rest)
        BY <3>4 DEF ConsolePuts
      <4> QED
        BY <1>3, <1>6, <2>1, <2>2, <4>1, PutsKeep
    <3> QED
      BY <3>1, <3>2, <3>3, <3>4 DEF console_write
  <2>5. CASE ~use_framebuffer
    <3>1. vga_puts /\ Followed(t)
      BY <1>2, <2>1, <2>5
    <3>2. CASE VgaOverruns
      BY <2>3, <3>2 DEF VgaOverruns
    <3>3. CASE VgaClears
      BY <1>6, <2>2, <3>3, ClearsKeeps
    <3>4. CASE VgaHomes
      BY <1>6, <2>2, <3>4, HomesKeeps
    <3>5. CASE VgaColours
      BY <1>6, <2>1, <2>2, <3>1, <3>5, VgaColoursKeeps
    <3>6. CASE VgaPuts
      <4>1. ~IsSequence(rest) /\ Draws(Head(rest)) /\ rest' = Tail(rest)
        BY <3>6 DEF VgaPuts
      <4> QED
        BY <1>3, <1>6, <2>1, <2>2, <4>1, PutsKeep
    <3> QED
      BY <3>1, <3>2, <3>3, <3>4, <3>5, <3>6 DEF vga_puts
  <2> QED
    BY <2>4, <2>5
<1>8. ASSUME NEW k, At(t, k)'
      PROVE  At(sprintf(format), k)'
  BY <1>1, <1>5, <1>8 DEF At
<1>9. ReadsOn(sprintf(format'), use_framebuffer') => \E k : At(sprintf(format), k)'
  BY <1>1, <1>5, <1>7, <1>8
<1> QED
  BY <1>1, <1>4, <1>9 DEF ShownInv

LEMMA ShownInitially ==
  ASSUME Init
  PROVE  ShownInv
<1>1. rest = <<>> /\ shown = <<>> /\ format = <<>>
  BY DEF Init, PrintfInit
<1>2. PICK t : t = <<>> /\ t \in Seq(Characters)
  BY EmptyFacts
<1>3. 0 \in 0 .. Len(t) /\ Seen(t, 0) = Of("text", <<>>) /\ t = After(t, 0)
  BY <1>2, StartFacts
<1>4. rest = t /\ shown = <<>>
  BY <1>1, <1>2
<1>5. At(t, 0)
  BY <1>3, <1>4 DEF At
<1>6. sprintf(format) = t
  BY <1>1, <1>2, NothingPrinted
<1> QED
  BY <1>1, <1>5, <1>6 DEF ShownInv

LEMMA ShownNext ==
  ASSUME TextInv, ShownInv, [Next]_vars
  PROVE  ShownInv'
<1>1. CASE stops = <<>> /\ Runs /\ UNCHANGED stop_vars
  <2>1. CASE \E fmt \in Formats : printf(fmt)
    BY <2>1, PrintShows, FormatsAssumption
  <2>2. CASE EnablesPaging
    BY <2>2, SameShows DEF EnablesPaging
  <2> QED
    BY <1>1, <2>1, <2>2 DEF Runs
<1>2. ASSUME NEW kind, Reporting(kind)
      PROVE  ShownInv'
  BY <1>2, ResetShows DEF Reporting
<1>3. CASE \E kind \in Kinds : Raises(kind)
  BY <1>2, <1>3 DEF Raises, Stop
<1>4. CASE BetweenCharacters \/ WithinCharacter \/ PrintingStops
  BY <1>2, <1>4 DEF BetweenCharacters, WithinCharacter, PrintingStops, Stop
<1>5. CASE Writes
  BY <1>5, WritesShows
<1>6. CASE Returns
  BY <1>6, ResetShows DEF Returns
<1>7. CASE StackOverflows \/ ReportHalts
  BY <1>7, SameShows DEF StackOverflows, ReportHalts
<1>8. CASE ReportPrints
  <2>1. messages \in Seq(Texts) /\ messages # <<>> /\ printf(Head(messages))
    BY <1>8 DEF ReportPrints, TextInv, ReportState
  <2>2. PICK fmt \in Texts : fmt = Head(messages)
    BY <2>1
  <2> QED
    BY <2>1, <2>2, TextsArePrintable, PrintShows
<1>9. CASE UNCHANGED vars
  BY <1>9, SameShows DEF vars, printf_vars
<1> QED
  BY <1>1, <1>3, <1>4, <1>5, <1>6, <1>7, <1>8, <1>9 DEF Next, Executes

LEMMA ShownFacts ==
  ASSUME TextInv, ShownInv
  PROVE  TextIsShown
<1>1. PICK t : t = sprintf(format)
  OBVIOUS
<1>2. t \in Seq(Characters)
  BY <1>1, EmptyFacts, NothingPrinted DEF ShownInv, Printable
<1>3. ASSUME rest = <<>>, ReadsOn(t, use_framebuffer)
      PROVE  shown = Visible(t)
  <2>1. PICK k : At(t, k)
    BY <1>1, <1>3 DEF ShownInv
  <2>2. k \in 0 .. Len(t) /\ rest = After(t, k) /\ Seen(t, k) = Of("text", shown)
    BY <2>1 DEF At
  <2>3. RestOf(rest, t, k)
    BY <1>2, <2>2, RestFacts
  <2>4. Len(rest) = 0 /\ Len(rest) = Len(t) - k
    BY <1>3, <2>3 DEF RestOf
  <2>5. k = Len(t)
    BY <1>2, <2>2, <2>4
  <2> QED
    BY <2>2, <2>5 DEF Visible, Of
<1>4. rest = <<>> => SequencesAreSilent
  BY <1>1, <1>3 DEF SequencesAreSilent, ReadsOn
<1>5. NumbersReadBack
  <2>1. ASSUME NEW j \in DOMAIN format, format[j].kind = "d"
        PROVE  ReadsBack(parse_num(format[j].val, format[j].width, format[j].zero), format[j])
    <3>1. format # <<>>
      <4>1. DOMAIN <<>> = {}
        OBVIOUS
      <4> QED
        BY <2>1, <4>1
    <3>2. PICK piece : piece = format[j]
      OBVIOUS
    <3>3. piece.val \in Nat /\ piece.width \in Nat
      BY <2>1, <3>1, <3>2 DEF ShownInv, Printable
    <3> QED
      BY <3>2, <3>3, PrintedNumberReadsBack
  <2> QED
    BY <2>1 DEF NumbersReadBack
<1> QED
  BY <1>4, <1>5 DEF TextIsShown

-----------------------------------------------------------------------------
(***************************************************************************)
(* What is proved.                                                         *)
(***************************************************************************)
(***************************************************************************)
(* The whole state has its type.  The cursor of text mode stays in its two *)
(* bytes, that of graphics mode at most one line below the screen, both    *)
(* are drawn with colours that the tables have (vga.c:11-26, 73-111;       *)
(* console.c:17-38, 57-88); what is read is text to its end, wherever a    *)
(* sequence in it ends; no more reports are begun than the stack has room  *)
(* for; and a stop that has halted has left nothing unsaid (panic.c:5-17,  *)
(* printf.c:123-133).                                                      *)
(***************************************************************************)
THEOREM StopsTypeCorrect == Spec => []TypeOK
<1>1. Init => TextInv
  BY TextInitially
<1>2. TextInv /\ [Next]_vars => TextInv'
  BY TextNext
<1>3. IInv /\ TextInv => TypeOK
  BY ConsoleStateTypes DEF IInv, VgaState, TextInv, TextState, ReportState, TypeOK,
                           PrintfTypeOK
<1> QED
  BY <1>1, <1>2, <1>3, IInvHolds, PTL DEF Spec

(***************************************************************************)
(* Whatever is printed, by whom and in the middle of what, a cursor is     *)
(* where a character can be drawn, in the cells of the one screen and in   *)
(* the pixels of the other, unless a backspace at the origin, a scroll     *)
(* that faults or an exception within a character has lost it              *)
(* (vga.c:76-102, console.c:59-90).                                        *)
(***************************************************************************)
THEOREM CursorStaysOnScreen == Spec => []CursorOnScreen
<1>1. ASSUME IInv
      PROVE  CursorOnScreen
  <2>1. VgaCursorOnScreen
    BY <1>1 DEF IInv, VgaState, VgaCursorOnScreen
  <2>2. ConsoleCursorOnScreen
    <3>1. CASE console.lost
      BY <3>1 DEF ConsoleCursorOnScreen
    <3>2. CASE ~console.lost
      <4>1. /\ fb \in FrameBuffers /\ Place(console)
            /\ console.x < width /\ console.y \in 0 .. (height - 1)
        BY <1>1, <3>2, ConsoleStateFacts DEF IInv, ConsoleState
      <4>2. console.x \in 0 .. (width - 1)
        BY <4>1, SizeFacts DEF Place
      <4> QED
        BY <4>1, <4>2, ScreenIsInFrame DEF ConsoleCursorOnScreen
    <3> QED
      BY <3>1, <3>2
  <2> QED
    BY <2>1, <2>2 DEF CursorOnScreen
<1> QED
  BY <1>1, IInvHolds, PTL

(***************************************************************************)
(* What printf has been given is what is seen, on either screen, of every  *)
(* text whose sequences are ones that it has: the characters that are      *)
(* drawn, up to any turn of its loop, are those outside of the sequences,  *)
(* in their order; in text mode, of every text in which a sequence that    *)
(* sets a colour has a character behind it (vga.c:34-69,                   *)
(* console.c:92-117).  Every unsigned number that parse_num prints, in     *)
(* every width, is read back as itself, with no digit that it does not     *)
(* need (printf.c:19-38).                                                  *)
(***************************************************************************)
THEOREM TextIsAlwaysShown == Spec => []TextIsShown
<1>1. Init => TextInv /\ ShownInv
  BY TextInitially, ShownInitially
<1>2. TextInv /\ ShownInv /\ [Next]_vars => (TextInv /\ ShownInv)'
  BY TextNext, ShownNext
<1>3. TextInv /\ ShownInv => TextIsShown
  BY ShownFacts
<1> QED
  BY <1>1, <1>2, <1>3, PTL DEF Spec
=============================================================================
