---------------------------- MODULE RoundRobin ----------------------------
(***************************************************************************)
(* What a round robin scheduler promises: tasks take turns in the order in *)
(* which they joined, the last is followed by the first, a task that joins *)
(* is last, and a turn ends with the tick that finds its quantum used up.  *)
(* Nothing is said here of tables, scans or timers; module Scheduler shows *)
(* that kernel/sys/sched.c implements this.                                *)
(***************************************************************************)
EXTENDS Integers, Sequences

CONSTANTS
  Tasks,
  Slots,      \* how many tasks there can be
  Quantum     \* the ticks that a turn survives

VARIABLES
  order,      \* the tasks, in the order in which they joined
  turn,       \* the position of the task whose turn it is, or 0
  left        \* the ticks its turn still survives

vars == <<order, turn, left>>

TypeOK ==
  /\ order \in Seq(Tasks)
  /\ Len(order) <= Slots
  /\ turn \in 0 .. Len(order)
  /\ left \in 0 .. Quantum

Init ==
  /\ order = <<>>
  /\ turn = 0
  /\ left = 0

Join(t) ==
  /\ Len(order) < Slots
  /\ \A i \in 1 .. Len(order) : order[i] # t
  /\ order' = Append(order, t)
  /\ UNCHANGED <<turn, left>>

Tick ==
  /\ left > 0
  /\ left' = left - 1
  /\ UNCHANGED <<order, turn>>

TakeTurn ==
  /\ left = 0
  /\ order # <<>>
  /\ turn' = IF turn = Len(order) THEN 1 ELSE turn + 1
  /\ left' = Quantum
  /\ UNCHANGED order

Next ==
  \/ \E t \in Tasks : Join(t)
  \/ Tick
  \/ TakeTurn

Spec == Init /\ [][Next]_vars
=============================================================================
