---------------------------- MODULE Interrupts ----------------------------
(***************************************************************************)
(* Interrupts once the local APIC is in use: the APIC itself (external),   *)
(* the functions of kernel/dev/lapic.c that write to it, the interrupt     *)
(* gates of kernel/cpu/tables/idt.c and idt.S, and irq_handler.            *)
(*                                                                         *)
(* A handler that has been entered is a frame: which vector it serves,     *)
(* where it is, and what its iret goes back to.  Several frames would be   *)
(* handlers that interrupt each other; the gates are there to prevent it.  *)
(* Handlers are named by the first of their steps.                         *)
(***************************************************************************)
EXTENDS Integers, Sequences

CONSTANTS
  PIT,          \* 0x20, the vector of the interval timer
  SCHED,        \* 0x80, the vector of the scheduler
  LapicTicks,   \* lapic_ticks: what lapic_calibrate_timer has measured
  WORD,         \* 2^32: the number of values of a uint32_t
  Interrupted,  \* for iret: what the interrupt has interrupted
  Contexts      \* for iret: the contexts a handler can put in its place

Vectors == {PIT, SCHED}

\* The local APIC ranks vectors by their upper four bits.
Class(vector) == vector \div 16

OneShotMs == 5

ASSUME VectorsAssumption ==
  /\ Vectors \subseteq 32 .. 255
  /\ Class(PIT) < Class(SCHED)

ASSUME TimerAssumption ==
  /\ WORD \in Nat \ {0}
  /\ LapicTicks \in 0 .. (WORD - 1)
  /\ (LapicTicks * OneShotMs) % WORD # 0

VARIABLES
  irr,             \* the vectors that have been requested
  isr,             \* the vectors that are in service
  timer,           \* the one-shot timer, with SCHED as its vector
  interrupt_flag,  \* the processor's, as in eflags
  irq_handlers,    \* by vector, the handler or "irq_eoi" if it is NULL
  frames           \* the handlers that have been entered, outermost first

apic_vars == <<irr, isr, timer>>
interrupt_vars == <<apic_vars, interrupt_flag, irq_handlers, frames>>

Frame == [vector : Vectors, pc : {"sched_schedule", "switch", "eoi", "arm",
                                  "pit_handler", "irq_eoi", "iret"},
          to : Contexts \union {Interrupted}]

InterruptTypeOK ==
  /\ irr \subseteq Vectors
  /\ isr \subseteq Vectors
  /\ timer \in {"off", "counting"}
  /\ interrupt_flag \in BOOLEAN
  /\ irq_handlers \in
       [Vectors -> {"sched_schedule", "pit_handler", "irq_eoi"}]
  /\ frames \in Seq(Frame)

\* After lapic_calibrate_timer.
InterruptInit ==
  /\ irr = {}
  /\ isr = {}
  /\ timer = "off"
  /\ interrupt_flag = TRUE
  /\ irq_handlers = [v \in Vectors |->
                       IF v = PIT THEN "pit_handler" ELSE "irq_eoi"]
  /\ frames = <<>>

-----------------------------------------------------------------------------
Highest(vectors) == CHOOSE v \in vectors : \A w \in vectors : w <= v

(***************************************************************************)
(* lapic.c.                                                                *)
(***************************************************************************)
lapic_stop_timer == timer' = "off"

\* Mutant: the timer stays masked.
OneshotMasked(ms) == timer' = "off"

\* Writing 0 to the initial count leaves the timer off.
lapic_oneshot(ms) ==
  timer' = IF (LapicTicks * ms) % WORD = 0 THEN "off" ELSE "counting"

lapic_eoi == isr' = IF isr = {} THEN {} ELSE isr \ {Highest(isr)}

lapic_ipi(vector) == irr' = irr \union {vector}

(***************************************************************************)
(* The devices: the timer runs down, the interval timer ticks.             *)
(***************************************************************************)
TimerExpires ==
  /\ timer = "counting"
  /\ timer' = "off"
  /\ irr' = irr \union {SCHED}
  /\ UNCHANGED <<isr, interrupt_flag, irq_handlers, frames>>

PitTicks ==
  /\ irr' = irr \union {PIT}
  /\ UNCHANGED <<isr, timer, interrupt_flag, irq_handlers, frames>>

(***************************************************************************)
(* An interrupt: the APIC delivers the highest request if it outranks all  *)
(* that is in service; the gate, of type 0x8E, clears the flag; the stub   *)
(* calls irq_handler, which calls the handler.                             *)
(***************************************************************************)
\* Mutant: a trap gate, of type 0x8F.
TrapGate(flag) == flag

Gate(flag) == FALSE

Deliver ==
  /\ interrupt_flag
  /\ irr # {}
  /\ LET v == Highest(irr)
     IN  /\ \A w \in isr : Class(v) > Class(w)
         /\ irr' = irr \ {v}
         /\ isr' = isr \union {v}
         /\ frames' = Append(frames, [vector |-> v, pc |-> irq_handlers[v],
                                      to |-> Interrupted])
  /\ interrupt_flag' = Gate(interrupt_flag)
  /\ UNCHANGED <<timer, irq_handlers>>

\* The innermost handler, which is the one that executes.
Innermost == frames[Len(frames)]

At(pc) == frames # <<>> /\ Innermost.pc = pc

Goto(pc) == frames' = [frames EXCEPT ![Len(frames)].pc = pc]

\* Its only effect, on pit_ticks, is not modelled here.
pit_handler ==
  /\ At("pit_handler")
  /\ Goto("irq_eoi")
  /\ UNCHANGED <<apic_vars, interrupt_flag, irq_handlers>>

IrqHandlerEnds ==
  /\ At("irq_eoi")
  /\ lapic_eoi
  /\ Goto("iret")
  /\ UNCHANGED <<irr, timer, interrupt_flag, irq_handlers>>

\* The frame goes, and the flag is what it was when the interrupt came.
ReturnFromInterrupt ==
  /\ At("iret")
  /\ Innermost.to = Interrupted
  /\ frames' = SubSeq(frames, 1, Len(frames) - 1)
  /\ interrupt_flag' = TRUE
  /\ UNCHANGED <<apic_vars, irq_handlers>>
=============================================================================
