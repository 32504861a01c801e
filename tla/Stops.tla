------------------------------- MODULE Stops -------------------------------
(***************************************************************************)
(* How the kernel stops: panic, kernel/lib/panic.c; isr_handler, kernel/   *)
(* cpu/tables/idt.c; and the handlers of kernel/lib/mubsan.c, which all    *)
(* end in mubsan_log, kernel/lib/printf.c.  Each prints a report with the  *)
(* printf that everybody uses, on the screen as it is, and halts.          *)
(*                                                                         *)
(* A report that cannot be printed is a stop itself, with a report of its  *)
(* own: the stack of four kilobytes (entry.S:24-26), on which every printf *)
(* has a buffer of one, has room for a few of them.                        *)
(***************************************************************************)
EXTENDS Printf

CONSTANTS
  NESTED,   \* 3: the reports, each in the middle of another, that fit
  Stamp,      \* the format of the time, and where it was
  Messages,   \* the formats of what has happened
  Arguments   \* a piece of a format for each of "s", "d" and "x"

ASSUME StopsAssumption ==
  NESTED \in Nat \ {0} /\ DOMAIN Arguments = {"s", "d", "x"}

VARIABLES
  stops,    \* the kinds of the stops, the first one first
  messages  \* what the report in progress is still to print

stop_vars == <<stops, messages>>
vars == <<printf_vars, stop_vars>>

Kinds == {"panic", "ubsan", "exception", "fault"}

NewLine == <<[kind |-> "text", text |-> <<"NL">>]>>

\* The handlers of the sanitizer, by what they print of what was done wrong:
\* types, values and addresses.  Those of additions, subtractions,
\* multiplications and divisions print the same.
Handlers ==
  [type_mismatch |-> <<"s", "s", "s", "d", "x">>, overflow |-> <<"s", "d", "d">>,
   negate |-> <<"s", "d">>, pointer_overflow |-> <<"x", "x">>,
   out_of_bounds |-> <<"s", "s", "d">>, nonnull_arg |-> <<>>,
   load_invalid_value |-> <<"s", "d">>, shift |-> <<"s", "s", "d", "d">>,
   unreachable |-> <<>>, function_type |-> <<"s", "s", "x">>]

\* Before that, where: the file, the line and the column.
Undefined(handler) ==
  [j \in DOMAIN (<<"s", "d", "d">> \o Handlers[handler]) |->
     Arguments[(<<"s", "d", "d">> \o Handlers[handler])[j]]] \o NewLine

(***************************************************************************)
(* The reports: the calls of printf, vprintf included, that each makes.    *)
(***************************************************************************)
panic == {<<Stamp, message, NewLine>> : message \in Messages}

mubsan_log == {<<Stamp, Undefined(handler)>> : handler \in DOMAIN Handlers}

\* For a page fault the address follows.
isr_handler(exception) ==
  {<<Stamp \o message \o NewLine>> \o
     (IF exception = "fault" THEN <<Stamp \o <<Arguments["x"]>> \o NewLine>> ELSE <<>>) :
   message \in Messages}

Reports(kind) ==
  CASE kind = "panic" -> panic
    [] kind = "ubsan" -> mubsan_log
    [] OTHER          -> isr_handler(kind)

ASSUME ReportsAssumption ==
  \A kind \in Kinds : \A report \in Reports(kind) :
    \A j \in DOMAIN report : Printable(report[j])

TypeOK ==
  /\ PrintfTypeOK
  /\ stops \in Seq(Kinds) /\ Len(stops) <= NESTED
  /\ Len(messages) <= 3
  /\ fate = "halted" => rest = <<>> /\ messages = <<>> /\ stops # <<>>

Init == PrintfInit /\ stops = <<>> /\ messages = <<>>

-----------------------------------------------------------------------------
\* What is on the stack stays there, and what was being written is left.
Reporting(kind) ==
  /\ stops' = Append(stops, kind)
  /\ messages' \in Reports(kind)
  /\ rest' = <<>> /\ shown' = <<>> /\ format' = <<>>
  /\ fate' = "up"
  /\ UNCHANGED use_framebuffer

Stop(kind) == Reporting(kind) /\ UNCHANGED <<vga_vars, console_vars>>

\* Code that is not printing stops.  Without paging nothing is unmapped.
Raises(kind) ==
  /\ Idle
  /\ stops = <<>>
  /\ kind = "fault" => paging # "off"
  /\ Stop(kind)

(***************************************************************************)
(* An exception that comes with no instruction, as the non-maskable        *)
(* interrupt does, comes between two characters or within one.             *)
(***************************************************************************)
BetweenCharacters ==
  /\ fate = "up" /\ rest # <<>>
  /\ stops = <<>>
  /\ Stop("exception")

WithinCharacter ==
  /\ fate = "up" /\ rest # <<>>
  /\ stops = <<>>
  /\ ~IsSequence(rest)
  /\ IF use_framebuffer
     THEN /\ ~DrawingFaults(console, Head(rest))
          /\ console' \in Halfway(console, Head(rest))
          /\ UNCHANGED <<vga_vars, fb, paging>>
     ELSE /\ vga' \in VgaHalfway(vga, Head(rest))
          /\ UNCHANGED <<vga_color, console_vars>>
  /\ Reporting("exception")

\* printf itself stops, in a report or not.
PrintingStops ==
  /\ fate \in {"ubsan", "fault"}
  /\ Len(stops) < NESTED
  /\ Stop(fate)

\* The stack has no end that anything checks: what is below it is written over.
StackOverflows ==
  /\ fate \in {"ubsan", "fault"}
  /\ Len(stops) = NESTED
  /\ fate' = "wild"
  /\ UNCHANGED <<rest, shown, vga_vars, console_vars, use_framebuffer, format,
                 stop_vars>>

ReportPrints ==
  /\ messages # <<>>
  /\ printf(Head(messages))
  /\ messages' = Tail(messages)
  /\ UNCHANGED stops

ReportHalts ==
  /\ Idle
  /\ stops # <<>>
  /\ messages = <<>>
  /\ fate' = "halted"
  /\ UNCHANGED <<rest, shown, vga_vars, console_vars, use_framebuffer, format,
                 stop_vars>>

-----------------------------------------------------------------------------
Executes ==
  \/ (Writes \/ Returns) /\ UNCHANGED stop_vars
  \/ PrintingStops
  \/ StackOverflows
  \/ ReportPrints
  \/ ReportHalts

Next ==
  \/ stops = <<>> /\ Runs /\ UNCHANGED stop_vars
  \/ \E kind \in Kinds : Raises(kind)
  \/ BetweenCharacters
  \/ WithinCharacter
  \/ Executes

\* The processor executes what a stop has begun.
Spec == Init /\ [][Next]_vars /\ WF_vars(stops # <<>> /\ Executes)

-----------------------------------------------------------------------------
(***************************************************************************)
(* A stop is reported to the end, and is the end, as long as the screen    *)
(* can be drawn on: text mode always, a frame buffer that is mapped, whose *)
(* scrolling stays in it, with the cursor where a character can be drawn - *)
(* wherever the kernel has stopped, in the middle of a text or a character *)
(* too (panic.c:5-17, idt.c:83-99, printf.c:123-133, console.c:57-88).     *)
(***************************************************************************)
ScreenWorks ==
  use_framebuffer =>
    /\ InFrame(console, 0)
    /\ paging = "off" \/ (paging = "mapped" /\ ScrollIsMapped)

StopsAreReported == stops # <<>> /\ ScreenWorks ~> fate = "halted"
=============================================================================
