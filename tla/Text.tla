-------------------------------- MODULE Text --------------------------------
(***************************************************************************)
(* What printf writes on a screen: a sequence of characters, with escape   *)
(* sequences in it.  Vga and Console read it, one turn of their loops at a *)
(* time.  Digits stand for themselves, and other characters for those that *)
(* are treated alike.                                                      *)
(***************************************************************************)
EXTENDS Integers, Sequences, SequencesExt

VARIABLES
  rest,   \* what is still to be read of the text; zeros follow it
  shown,  \* ghost: the characters that have been drawn of it
  fate    \* "up", or what has stopped the kernel

Numerals == <<"0", "1", "2", "3", "4", "5", "6", "7", "8", "9">>

Digit == [c \in Range(Numerals) |-> CHOOSE d \in 0 .. 9 : Numerals[d + 1] = c]

Controls == {"NL", "BS", "TAB", "ESC"}

Characters == Controls \union DOMAIN Digit \union
                {"a", "b", "c", "d", "e", "f", "(", "n", "u", "l", ")", "[", "m", "H",
                 "J", " ", "NUL"}

\* libc.c: the value of n digits, and of those that s begins with.
Value(s, n) ==
  LET acum[j \in 0 .. n] == IF j = 0 THEN 0 ELSE acum[j - 1] * 10 + Digit[s[j]]
  IN  acum[n]

atoi(s) ==
  LET ends == {n \in 0 .. Len(s) : \A j \in 1 .. n : s[j] \in DOMAIN Digit}
  IN  Value(s, CHOOSE n \in ends : \A j \in ends : j <= n)

Begins(s, prefix) == IsPrefix(prefix, s)

After(s, n) == SubSeq(s, n + 1, Len(s))

\* Behind the end of the text.
First(s) == IF s = <<>> THEN "NUL" ELSE Head(s)

\* Mutant: it is drawn unread, and then read.
BehindItself(s) == s

Behind(s) == IF s = <<>> THEN <<>> ELSE Tail(s)

IsSequence(s) == Begins(s, <<"ESC", "[">>)

\* The characters up to "m" are put into a buffer of four, whose bounds the
\* sanitizer checks.
BUF == 4

Ms(s) == {j \in 1 .. Len(s) : s[j] = "m"}

EndOfSequence(s) == CHOOSE j \in Ms(s) : \A l \in Ms(s) : j <= l

Overruns(s) == \A j \in Ms(s) : j > BUF + 3

Parameter(s) == SubSeq(s, 3, EndOfSequence(s) - 1)

Draws(c) == shown' = IF c \in Controls \ {"ESC"} THEN shown ELSE Append(shown, c)

OfForeground(code) == code \in 30 .. 37 \/ code \in 90 .. 97
OfBackground(code) == code \in 40 .. 47 \/ code \in 100 .. 107
=============================================================================
