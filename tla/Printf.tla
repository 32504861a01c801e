------------------------------- MODULE Printf -------------------------------
(***************************************************************************)
(* printf, kernel/lib/printf.c, on either screen.                          *)
(*                                                                         *)
(* A format is a sequence of pieces: literal text, and the directives that *)
(* are in it, with their arguments.                                        *)
(***************************************************************************)
EXTENDS Vga, Console

CONSTANTS
  Formats,
  NIBBLES   \* 8: the digits of a number in base 16

VARIABLES
  use_framebuffer,
  format           \* ghost: the format of the call in progress

vga_vars     == <<vga, vga_color>>
console_vars == <<fb, paging, console>>
printf_vars ==
  <<rest, shown, fate, vga_vars, console_vars, use_framebuffer, format>>

-----------------------------------------------------------------------------
Repeat(c, n) == [j \in 1 .. n |-> c]

\* The digits in base 10, which are found from the last to the first.
digits[val \in Nat] ==
  IF val = 0 THEN <<>> ELSE Append(digits[val \div 10], Numerals[1 + (val % 10)])

Atleast0(n) == IF n > 0 THEN n ELSE 0

parse_num(val, wide, zero_padding) ==
  LET pad == IF zero_padding THEN "0" ELSE " "
  IN  IF val = 0
      THEN Append(Repeat(pad, Atleast0(wide - 1)), "0")
      ELSE Repeat(pad, Atleast0(wide - Len(digits[val]))) \o digits[val]

Hex == <<"0", "1", "2", "3", "4", "5", "6", "7", "8", "9", "a", "b", "c", "d",
         "e", "f">>

NULL == <<"NUL">>

parse_string(str) == IF str = NULL THEN <<"(", "n", "u", "l", "l", ")">> ELSE str

parse_hex(val) ==
  [j \in 1 .. NIBBLES |-> Hex[1 + ((val \div 16 ^ (NIBBLES - j)) % 16)]]

Put(piece) ==
  CASE piece.kind \in {"text", "c"} -> piece.text
    [] piece.kind = "s" -> parse_string(piece.text)
    [] piece.kind = "d" -> parse_num(piece.val, piece.width, piece.zero)
    [] piece.kind = "x" -> parse_hex(piece.val)

sprintf(fmt) ==
  LET s[n \in 0 .. Len(fmt)] == IF n = 0 THEN <<>> ELSE s[n - 1] \o Put(fmt[n])
  IN  s[Len(fmt)]

\* What printf is called with: text, of the characters that there are, and in
\* base 10 the unsigned numbers that parse_num has.
Printable(fmt) ==
  /\ fmt # <<>>
  /\ sprintf(fmt) \in Seq(Characters)
  /\ \A j \in DOMAIN fmt :
       fmt[j].kind = "d" => fmt[j].val \in Nat /\ fmt[j].width \in Nat

ASSUME FormatsAssumption == \A fmt \in Formats : Printable(fmt)

-----------------------------------------------------------------------------
PrintfTypeOK ==
  /\ VgaTypeOK
  /\ ConsoleTypeOK
  /\ rest \in Seq(Characters)
  /\ shown \in Seq(Characters)
  /\ fate \in {"up", "ubsan", "fault", "halted", "wild"}
  /\ use_framebuffer \in BOOLEAN

PrintfInit ==
  /\ VgaInit
  /\ ConsoleInit
  /\ rest = <<>>
  /\ shown = <<>>
  /\ fate = "up"
  /\ use_framebuffer \in BOOLEAN
  /\ format = <<>>

\* Nothing is being printed.
Idle == fate = "up" /\ format = <<>>

printf(fmt) ==
  /\ Idle
  /\ format' = fmt
  /\ rest' = sprintf(fmt)
  /\ shown' = <<>>
  /\ UNCHANGED <<fate, vga_vars, console_vars, use_framebuffer>>

Writes ==
  /\ IF use_framebuffer
     THEN console_write /\ UNCHANGED vga_vars
     ELSE vga_puts /\ UNCHANGED console_vars
  /\ UNCHANGED <<use_framebuffer, format>>

Returns ==
  /\ fate = "up" /\ rest = <<>>
  /\ format # <<>>
  /\ format' = <<>>
  /\ shown' = <<>>
  /\ UNCHANGED <<rest, fate, vga_vars, console_vars, use_framebuffer>>

\* vmm_install, which prints nothing between the two.
EnablesPaging ==
  /\ Idle
  /\ paging # "mapped"
  /\ paging' = IF paging = "off" THEN "on" ELSE "mapped"
  /\ UNCHANGED <<rest, shown, fate, vga_vars, fb, console, use_framebuffer, format>>

\* What the kernel does while nothing is wrong.
Runs ==
  \/ paging # "on" /\ \E fmt \in Formats : printf(fmt)
  \/ EnablesPaging

-----------------------------------------------------------------------------
(***************************************************************************)
(* Whatever is printed, the cursor is where a character can be drawn, in   *)
(* the cells of the one screen and in the pixels of the other: on every    *)
(* frame buffer, border included.  A backspace at the origin may lose it,  *)
(* until enough has been printed (vga.c:76-102, console.c:59-90).          *)
(***************************************************************************)
CursorOnScreen == VgaCursorOnScreen /\ ConsoleCursorOnScreen

(***************************************************************************)
(* Of a text with escape sequences all characters are drawn but those of   *)
(* the sequences.  In text mode that takes a character behind each that    *)
(* sets a colour, for it is drawn unread; vga_puts also has sequences that *)
(* console_write takes for unterminated (vga.c:34-69, console.c:92-117).   *)
(***************************************************************************)
\* A reader of such a text, with what it has seen of a sequence.
Sees(state, c) ==
  CASE state.in = "text" /\ c = "ESC" -> [state EXCEPT !.in = "ESC"]
    [] state.in = "ESC" -> [state EXCEPT !.in = "sequence"]
    [] state.in = "sequence" /\ c \in {"m", "H", "J"} -> [state EXCEPT !.in = "text"]
    [] state.in = "text" /\ c \notin Controls -> [state EXCEPT !.out = Append(@, c)]
    [] OTHER -> state

\* What it has seen when it has read n characters, and in the end.
Seen(text, n) ==
  LET state[j \in 0 .. n] ==
        IF j = 0 THEN [in |-> "text", out |-> <<>>]
        ELSE Sees(state[j - 1], text[j])
  IN  state[n]

Visible(text) == Seen(text, Len(text)).out

\* From j to n there is a sequence: of a colour, or one that only vga_puts has,
\* and no "m" so soon behind it that console_write takes it for the end.
IsRead(text, j, n) ==
  /\ n >= j + 2 /\ text[j + 1] = "["
  /\ text[n] \in {"m", "H", "J"}
  /\ \A l \in (j + 2) .. (n - 1) : text[l] \notin {"ESC", "m", "H", "J"}
  /\ text[n] # "m" =>
       /\ SubSeq(text, j + 2, n) \in {<<"H">>, <<"2", "J">>}
       /\ \A l \in Ms(text) : l > n => l > j + BUF + 2

Readable(text) ==
  \A j \in DOMAIN text :
    text[j] = "ESC" => \E n \in DOMAIN text : IsRead(text, j, n)

Followed(text) ==
  \A j \in Ms(text) : j < Len(text) /\ text[j + 1] # "ESC"

SequencesAreSilent ==
  LET text == sprintf(format)
  IN  /\ fate \in {"up", "halted"}
      /\ Readable(text)
      /\ use_framebuffer \/ Followed(text)
      => shown = Visible(text)

(***************************************************************************)
(* A number is printed as it is: the digits have its value and are no more *)
(* than it needs, and what is before them is padding, up to the width.     *)
(* Every number, zero included (printf.c:19-38).                           *)
(***************************************************************************)
ReadsBack(s, piece) ==
  \E n \in 0 .. (Len(s) - 1) :
    LET number == After(s, n)
    IN  /\ \A j \in 1 .. n : s[j] = IF piece.zero THEN "0" ELSE " "
        /\ n > 0 => Len(s) = piece.width
        /\ Len(s) >= piece.width
        /\ \A j \in DOMAIN number : number[j] \in DOMAIN Digit
        /\ Len(number) > 1 => number[1] # "0"
        /\ atoi(number) = piece.val

NumbersReadBack ==
  \A j \in DOMAIN format :
    format[j].kind = "d" =>
      ReadsBack(parse_num(format[j].val, format[j].width, format[j].zero), format[j])

\* Both: what printf has been given is what is seen.
TextIsShown == rest = <<>> => SequencesAreSilent /\ NumbersReadBack
=============================================================================
