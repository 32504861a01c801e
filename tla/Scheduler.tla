----------------------------- MODULE Scheduler -----------------------------
(***************************************************************************)
(* The scheduler, kernel/sys/sched.c, from sched_install at the end of the *)
(* boot on, driven by the interrupts of module Interrupts.                 *)
(*                                                                         *)
(* One thread runs at a time: the boot code, or a task.  sched_new_task is *)
(* split into its steps, for the timer may interrupt it between any two    *)
(* and the interrupt may end the thread's turn.  The interrupted context   *)
(* is not saved: a task that gets its turn again starts from the context   *)
(* it was created with.                                                    *)
(*                                                                         *)
(* The repository calls sched_new_task only from sched_install; that other *)
(* code of the kernel or of a task calls it with other handlers, as its    *)
(* parameter provides for, is an assumption of this module.                *)
(***************************************************************************)
EXTENDS Interrupts

CONSTANTS
  Slots,     \* 256: the length of sched_tasks
  QUANTUM,   \* 20
  Blocks,    \* the blocks that kmalloc has to give
  Boot,      \* the thread that is not a task
  NULL

ASSUME SchedulerAssumption ==
  /\ Slots \in Nat /\ Slots >= 2
  /\ QUANTUM \in Nat
  /\ Contexts = Blocks
  /\ Blocks \subseteq Nat
  /\ Interrupted \notin Blocks
  /\ NULL \notin Blocks
  /\ Boot \notin Blocks

VARIABLES
  sched_tasks,
  current_task,
  sched_quantum,
  sched_pid,
  structs,    \* by block, the struct task_t in it
  cpu,        \* whether the processor still executes the kernel
  thread,     \* what runs when no interrupt is handled
  pc,         \* what it executes of sched.c and main.c
  handler,    \* the argument of sched_new_task
  task,       \* a local of sched_new_task
  slot        \* its loop counter, where the loop has stopped

table      == <<sched_tasks, sched_pid, structs>>
turns      == <<current_task, sched_quantum>>
locals     == <<handler, task, slot>>
sched_vars == <<table, turns, cpu, thread, pc, locals>>
vars       == <<interrupt_vars, sched_vars>>

Indices == 0 .. (Slots - 1)

\* What iret makes of a context whose eip, cs and eflags nobody has set: it
\* may run with or without interrupts, or fault.
CtxKinds == {"runs", "masked", "faults"}

Task == [pid : Nat, quantum : {0, QUANTUM}, esp : BOOLEAN, ctx : CtxKinds]

\* What stands for a block that kmalloc has not handed out.
Unused == [pid |-> 0, quantum |-> 0, esp |-> FALSE, ctx |-> "none"]

TypeOK ==
  /\ InterruptTypeOK
  /\ sched_tasks \in [Indices -> Blocks \union {NULL}]
  /\ current_task \in Blocks \union {NULL}
  /\ sched_quantum \in 0 .. QUANTUM
  /\ sched_pid \in Nat
  /\ structs \in [Blocks -> Task \union {Unused}]
  /\ cpu \in {"up", "panic", "fault", "wild"}
  /\ thread \in Blocks \union {Boot}
  /\ pc \in {"sched_install", "kmalloc", "fields", "pmm_alloc", "scan",
             "store", "panic", "irq_register", "lapic_ipi", "hltLoop", "run"}
  /\ handler \in {"sched_idle", "other"}
  /\ task \in Blocks \union {NULL}
  /\ slot \in Indices \union {Slots}

Init ==
  /\ InterruptInit
  /\ sched_tasks = [i \in Indices |-> NULL]
  /\ current_task = NULL
  /\ sched_quantum = 0
  /\ sched_pid = 0
  /\ structs = [b \in Blocks |-> Unused]
  /\ cpu = "up"
  /\ thread = Boot
  /\ pc = "sched_install"
  /\ handler = "other"
  /\ task = NULL
  /\ slot = 0

-----------------------------------------------------------------------------
(***************************************************************************)
(* What a thread executes, when no interrupt is being handled.             *)
(***************************************************************************)
Executing(where) == cpu = "up" /\ frames = <<>> /\ pc = where

\* The locals of sched_new_task are no more.
LeaveNewTask == handler' = "other" /\ task' = NULL /\ slot' = 0

sched_install ==
  /\ Executing("sched_install")
  /\ sched_tasks' = [i \in Indices |-> NULL]
  /\ handler' = "sched_idle"
  /\ pc' = "kmalloc"
  /\ UNCHANGED <<interrupt_vars, turns, sched_pid, structs, cpu, thread, task,
                 slot>>

\* Another caller, once the scheduler is installed.
sched_new_task ==
  /\ Executing("lapic_ipi") \/ Executing("run")
  /\ handler' = "other"
  /\ pc' = "kmalloc"
  /\ UNCHANGED <<interrupt_vars, table, turns, cpu, thread, task, slot>>

\* A block nobody has (KernelHeap).  Blocks are numbered in the order in which
\* they are handed out.
Fresh(b) ==
  /\ structs[b] = Unused
  /\ \A c \in Blocks : c < b => structs[c] # Unused

\* What is in the block, and so in the context of the task, nobody knows.
NewTaskAllocates(b, ctx) ==
  /\ Executing("kmalloc")
  /\ Fresh(b)
  /\ structs' = [structs EXCEPT ![b] =
       [pid |-> 0, quantum |-> 0, esp |-> FALSE, ctx |-> ctx]]
  /\ task' = b
  /\ pc' = "fields"
  /\ UNCHANGED <<interrupt_vars, sched_tasks, turns, sched_pid, cpu, thread,
                 handler, slot>>

NewTaskPanics ==
  /\ Executing("kmalloc") \/ Executing("pmm_alloc")
  /\ pc' = "panic"
  /\ LeaveNewTask
  /\ UNCHANGED <<interrupt_vars, table, turns, cpu, thread>>

\* A page table is beyond the identity mapping (VMM, KernelHeap), and a page
\* fault disables interrupts; or the search for pages leaves the bitmap (PMM),
\* and the model claims nothing of what follows.
NewTaskStops ==
  /\ Executing("kmalloc") \/ Executing("pmm_alloc")
  /\ cpu' \in {"fault", "wild"}
  /\ interrupt_flag' = (interrupt_flag /\ cpu' = "wild")
  /\ UNCHANGED <<apic_vars, irq_handlers, frames, table, turns, thread, pc, locals>>

\* Mutant: panic halts without cli, and wakes up at every interrupt.
PanicDozes ==
  /\ Executing("panic")
  /\ UNCHANGED vars

\* panic prints with interrupts as they are, and only then turns them off: the
\* timer may take the thread's turn away before, and with it the panic.
PanicHalts ==
  /\ Executing("panic")
  /\ cpu' = "panic"
  /\ interrupt_flag' = FALSE
  /\ UNCHANGED <<apic_vars, irq_handlers, frames, table, turns, thread, pc, locals>>

NewTaskFields ==
  /\ Executing("fields")
  /\ structs' = [structs EXCEPT
       ![task].pid = IF handler = "sched_idle" THEN 0 ELSE sched_pid,
       ![task].quantum = QUANTUM]
  /\ sched_pid' = IF handler = "sched_idle" THEN sched_pid ELSE sched_pid + 1
  /\ pc' = "pmm_alloc"
  /\ UNCHANGED <<interrupt_vars, sched_tasks, turns, cpu, thread, locals>>

NewTaskStack ==
  /\ Executing("pmm_alloc")
  /\ structs' = [structs EXCEPT ![task].esp = TRUE]
  /\ pc' = "scan"
  /\ UNCHANGED <<interrupt_vars, sched_tasks, sched_pid, turns, cpu, thread,
                 locals>>

\* Mutant: the loop begins with the second slot.
FirstFreeButFirst ==
  LET open == {i \in Indices \ {0} : sched_tasks[i] = NULL}
  IN  IF open = {} THEN Slots
                   ELSE CHOOSE i \in open : \A j \in open : i <= j

FirstFreeSlot ==
  LET open == {i \in Indices : sched_tasks[i] = NULL}
  IN  IF open = {} THEN Slots
                   ELSE CHOOSE i \in open : \A j \in open : i <= j

NewTaskScans ==
  /\ Executing("scan")
  /\ slot' = FirstFreeSlot
  /\ pc' = "store"
  /\ UNCHANGED <<interrupt_vars, table, turns, cpu, thread, handler, task>>

\* Without a free slot the task is dropped, and NULL returned.
NewTaskStores ==
  /\ Executing("store")
  /\ sched_tasks' = [i \in Indices |->
                       IF i = slot THEN task ELSE sched_tasks[i]]
  /\ pc' = IF handler = "sched_idle" THEN "irq_register"
           ELSE IF thread = Boot THEN "lapic_ipi" ELSE "run"
  /\ LeaveNewTask
  /\ UNCHANGED <<interrupt_vars, turns, sched_pid, structs, cpu, thread>>

InstallRegisters ==
  /\ Executing("irq_register")
  /\ irq_handlers' = [irq_handlers EXCEPT ![SCHED] = "sched_schedule"]
  /\ pc' = "lapic_ipi"
  /\ UNCHANGED <<apic_vars, interrupt_flag, frames, table, turns, cpu, thread,
                 locals>>

\* The end of _main; the boot code then waits in hltLoop, and calls nothing.
MainStartsScheduler ==
  /\ Executing("lapic_ipi")
  /\ lapic_ipi(SCHED)
  /\ pc' = "hltLoop"
  /\ UNCHANGED <<isr, timer, interrupt_flag, irq_handlers, frames, table,
                 turns, cpu, thread, locals>>

(***************************************************************************)
(* sched_schedule, entered by the first interrupt and by every expiry of   *)
(* the timer it arms.  Interrupts are off, so that nothing but the devices *)
(* acts between its steps.                                                 *)
(***************************************************************************)
\* Mutant: the loop stops one task early.
NextOfAllButTwo ==
  LET followed == {i \in 0 .. (Slots - 3) :
                     /\ sched_tasks[i] = current_task
                     /\ sched_tasks[i + 1] # NULL}
  IN  IF followed = {}
      THEN sched_tasks[0]
      ELSE sched_tasks[1 + CHOOSE i \in followed : \A j \in followed : i <= j]

\* The first entry that is the current task and is followed by a task.
sched_get_next_task ==
  LET followed == {i \in 0 .. (Slots - 2) :
                     /\ sched_tasks[i] = current_task
                     /\ sched_tasks[i + 1] # NULL}
  IN  IF followed = {}
      THEN sched_tasks[0]
      ELSE sched_tasks[1 + CHOOSE i \in followed : \A j \in followed : i <= j]

\* Mutant: the quantum is decremented once too often.
TurnLastsThroughZero == sched_quantum >= 0

TurnLasts == sched_quantum > 0

ScheduleTicks ==
  /\ At("sched_schedule")
  /\ TurnLasts
  /\ lapic_stop_timer
  /\ sched_quantum' = sched_quantum - 1
  /\ Goto("eoi")
  /\ UNCHANGED <<irr, isr, interrupt_flag, irq_handlers, current_task>>

\* The context of the next task takes the place of the interrupted one.
ScheduleSwitches ==
  /\ At("sched_schedule")
  /\ ~TurnLasts
  /\ lapic_stop_timer
  /\ current_task' = sched_get_next_task
  /\ sched_quantum' = structs[current_task'].quantum
  /\ frames' = [frames EXCEPT ![Len(frames)].pc = "eoi",
                              ![Len(frames)].to = current_task']
  /\ UNCHANGED <<irr, isr, interrupt_flag, irq_handlers>>

ScheduleEnds ==
  /\ At("eoi")
  /\ lapic_eoi
  /\ Goto("arm")
  /\ UNCHANGED <<irr, timer, interrupt_flag, irq_handlers, turns>>

ScheduleArms ==
  /\ At("arm")
  /\ lapic_oneshot(OneShotMs)
  /\ Goto("irq_eoi")
  /\ UNCHANGED <<irr, isr, interrupt_flag, irq_handlers, turns>>

sched_schedule ==
  \/ ScheduleTicks
  \/ ScheduleSwitches
  \/ ScheduleEnds
  \/ ScheduleArms

(***************************************************************************)
(* iret into a context that sched_schedule has put in the frame.  Whatever *)
(* the thread was executing is abandoned, and so are frames further out:   *)
(* the stack pointer is that of the interrupted thread, but what is on the *)
(* stack is nobody's any more.                                             *)
(***************************************************************************)
ReturnToTask ==
  /\ At("iret")
  /\ Innermost.to # Interrupted
  /\ thread' = Innermost.to
  /\ pc' = "run"
  /\ LeaveNewTask
  /\ frames' = <<>>
  /\ LET ctx == structs[thread'].ctx
     IN  /\ interrupt_flag' = (ctx = "runs")
         /\ cpu' = IF ctx = "faults" THEN "fault" ELSE "up"
  /\ UNCHANGED <<apic_vars, irq_handlers, table, turns>>

-----------------------------------------------------------------------------
ThreadStep ==
  \/ sched_install
  \/ \E b \in Blocks : \E ctx \in CtxKinds : NewTaskAllocates(b, ctx)
  \/ NewTaskPanics
  \/ NewTaskStops
  \/ PanicHalts
  \/ NewTaskFields
  \/ NewTaskStack
  \/ NewTaskScans
  \/ NewTaskStores
  \/ InstallRegisters
  \/ MainStartsScheduler

HandlerStep ==
  /\ cpu = "up"
  /\ \/ sched_schedule /\ UNCHANGED <<table, cpu, thread, pc, locals>>
     \/ (pit_handler \/ IrqHandlerEnds \/ ReturnFromInterrupt)
          /\ UNCHANGED sched_vars
     \/ ReturnToTask

Device(step) == cpu = "up" /\ step /\ UNCHANGED sched_vars

Next ==
  \/ ThreadStep
  \/ sched_new_task
  \/ HandlerStep
  \/ Device(Deliver)
  \/ Device(TimerExpires)
  \/ Device(PitTicks)

(***************************************************************************)
(* The processor executes handlers and takes the interrupts it is asked to *)
(* take, and the timer runs down.  Interrupts leave a thread the time to   *)
(* go on: they come ten thousand times a second at most.                   *)
(***************************************************************************)
Spec ==
  /\ Init /\ [][Next]_vars
  /\ WF_vars(HandlerStep)
  /\ WF_vars(Device(Deliver))
  /\ WF_vars(Device(TimerExpires))
  /\ SF_vars(ThreadStep)

-----------------------------------------------------------------------------
(***************************************************************************)
(* The table is what the scan of sched_get_next_task takes it for: tasks   *)
(* without a gap, none twice, and each of them complete - the handler that *)
(* may run between any two steps of sched_new_task never finds a task      *)
(* whose quantum or stack is not set (sched.c:24-30).                      *)
(***************************************************************************)
TableIsQueue ==
  /\ \A i, j \in Indices :
       i < j /\ sched_tasks[j] # NULL => sched_tasks[i] \notin {NULL, sched_tasks[j]}
  /\ \A i \in Indices :
       sched_tasks[i] # NULL =>
         /\ structs[sched_tasks[i]] # Unused
         /\ structs[sched_tasks[i]].quantum = QUANTUM
         /\ structs[sched_tasks[i]].esp
  /\ current_task # NULL => \E i \in Indices : sched_tasks[i] = current_task

(***************************************************************************)
(* The ticks of the scheduler neither stop nor multiply: once _main has    *)
(* sent the first, there is always exactly one on its way - in the timer,  *)
(* requested, or in a handler that is still to arm the timer - although    *)
(* each tick arms the next (sched.c:47-63).                                *)
(***************************************************************************)
Started == thread # Boot \/ pc = "hltLoop"

ToArm == {i \in 1 .. Len(frames) :
            frames[i].pc \in {"sched_schedule", "eoi", "arm"}}

OneTickOnItsWay ==
  Started => \/ timer = "counting" /\ SCHED \notin irr /\ ToArm = {}
             \/ timer = "off" /\ SCHED \in irr /\ ToArm = {}
             \/ timer = "off" /\ SCHED \notin irr /\ \E i \in ToArm : ToArm = {i}

(***************************************************************************)
(* A handler ends no interrupt but its own, although sched_schedule's is   *)
(* ended twice, by itself (sched.c:51, 62) and by irq_handler (idt.c:108). *)
(***************************************************************************)
EndsItsOwn ==
  [][\A v \in isr \ isr' : frames # <<>> /\ Innermost.vector = v]_vars

(***************************************************************************)
(* sched.c implements RoundRobin: the task after the current one in the    *)
(* table has the next turn, after the last the first, and each turn lasts  *)
(* until a tick finds the quantum at zero.                                 *)
(***************************************************************************)
Order == [i \in 1 .. FirstFreeSlot |-> sched_tasks[i - 1]]

Turn == IF current_task = NULL
        THEN 0
        ELSE 1 + CHOOSE i \in Indices : sched_tasks[i] = current_task

RR == INSTANCE RoundRobin
        WITH Tasks <- Blocks, Quantum <- QUANTUM,
             order <- Order, turn <- Turn, left <- sched_quantum

ImplementsRoundRobin == RR!Spec

(***************************************************************************)
(* Every task in the table has its turn again and again, in so far as the  *)
(* contexts of the tasks run, with interrupts on, and the kernel does not  *)
(* stop for another reason.                                                *)
(***************************************************************************)
InTable(b) == \E i \in Indices : sched_tasks[i] = b

AllRun ==
  /\ cpu = "up"
  /\ \A b \in Blocks : structs[b] # Unused => structs[b].ctx = "runs"

EveryTaskHasItsTurn ==
  []AllRun => \A b \in Blocks : InTable(b) ~> current_task = b

(***************************************************************************)
(* A panic ends in the halt (panic.c:15), or, for it prints with interrupts*)
(* on, in the turn of a task, which can only be when the scheduler has been*)
(* started: an interrupt alone does not keep it from halting.              *)
(***************************************************************************)
PanicsEnd == pc = "panic" ~> cpu = "panic" \/ (pc = "run" /\ current_task # NULL)
=============================================================================
