-------------------------- MODULE Scheduler_proofs --------------------------
(***************************************************************************)
(* Proofs about Scheduler, for any length of the table, any quantum, and   *)
(* any number of tasks and kinds of their contexts.                        *)
(***************************************************************************)
EXTENDS Scheduler, WellFoundedInduction, TLAPS, SequenceTheorems

(***************************************************************************)
(* The gates keep handlers from interrupting each other, so that only the  *)
(* interrupt of the one handler there is can be in service.                *)
(***************************************************************************)
HandlersDoNotNest ==
  /\ Len(frames) <= 1
  /\ interrupt_flag => frames = <<>>
  /\ frames = <<>> => isr = {}
  /\ frames # <<>> => isr \subseteq {Innermost.vector}
  /\ At("iret") => isr = {}

(***************************************************************************)
(* Nothing of the scheduler happens before _main has started it, and then  *)
(* its handler is installed.                                               *)
(***************************************************************************)
NothingEarly ==
  /\ irq_handlers[PIT] = "pit_handler"
  /\ ~Started => timer = "off" /\ SCHED \notin irr /\ ToArm = {}
  /\ Started => irq_handlers[SCHED] = "sched_schedule"
  /\ frames # <<>> /\ Innermost.to # Interrupted => Started

(***************************************************************************)
(* What is known at each point of sched_install, sched_new_task and _main. *)
(***************************************************************************)
InNewTask ==
  pc \in {"kmalloc", "fields", "pmm_alloc", "scan", "store"}

\* A panic of the boot code counts as part of it: it does not come back.
Installing ==
  \/ pc = "sched_install"
  \/ InNewTask /\ handler = "sched_idle"
  \/ pc = "panic" /\ thread = Boot

ThreadState ==
  /\ Installing \/ pc \in {"irq_register", "lapic_ipi",
     "hltLoop"} => thread = Boot
  /\ pc = "run" => thread # Boot
  /\ \/ Installing
     \/ pc = "irq_register"
     \/ irq_handlers[SCHED] = "sched_schedule"
  /\ Installing \/ sched_tasks[0] # NULL
  /\ pc = "sched_install" =>
       current_task = NULL /\ \A i \in Indices : sched_tasks[i] = NULL

TaskState ==
  /\ pc \in {"fields", "pmm_alloc", "scan", "store"} =>
       /\ task \in Blocks
       /\ structs[task] # Unused
       /\ \A i \in Indices : sched_tasks[i] # task
  /\ pc \in {"pmm_alloc", "scan", "store"} => structs[task].quantum = QUANTUM
  /\ pc \in {"scan", "store"} => structs[task].esp
  /\ pc = "store" => slot = FirstFreeSlot

IInv ==
  /\ TypeOK
  /\ HandlersDoNotNest
  /\ NothingEarly
  /\ ThreadState
  /\ TaskState
  /\ OneTickOnItsWay
  /\ TableIsQueue

-----------------------------------------------------------------------------
(***************************************************************************)
(* Vectors, and the handler there is.                                      *)
(***************************************************************************)
LEMMA VectorFacts == PIT \in Nat /\ SCHED \in Nat /\ PIT < SCHED
BY VectorsAssumption DEF Vectors, Class

LEMMA HighestOfOne ==
  ASSUME NEW v \in Vectors
  PROVE  Highest({v}) = v
BY VectorFacts DEF Highest, Vectors

LEMMA HighestIsAMember ==
  ASSUME NEW vs \in SUBSET Vectors, vs # {}
  PROVE  Highest(vs) \in vs
<1>1. \E v \in vs : \A w \in vs : w <= v
  <2>1. \A w \in vs : w \in Nat /\ w <= SCHED
    BY VectorFacts DEF Vectors
  <2>2. CASE SCHED \in vs
    BY <2>1, <2>2
  <2>3. CASE SCHED \notin vs
    <3>1. vs = {PIT}
      BY <2>3 DEF Vectors
    <3> QED
      BY <3>1, VectorFacts
  <2> QED
    BY <2>2, <2>3
<1> QED
  BY <1>1 DEF Highest

\* There is no handler, or one.
LEMMA Shape ==
  ASSUME InterruptTypeOK, HandlersDoNotNest
  PROVE  \/ frames = <<>>
         \/ /\ frames # <<>>
            /\ Len(frames) = 1
            /\ frames = <<frames[1]>>
            /\ frames[1] \in Frame
            /\ Innermost = frames[1]
<1> SUFFICES ASSUME frames # <<>>
             PROVE  /\ Len(frames) = 1
                    /\ frames = <<frames[1]>>
                    /\ frames[1] \in Frame
                    /\ Innermost = frames[1]
  OBVIOUS
<1>1. frames \in Seq(Frame)
  BY DEF InterruptTypeOK
<1>2. Len(frames) = 1
  <2>1. Len(frames) \in Nat \ {0}
    BY <1>1, EmptySeq, Zenon
  <2> QED
    BY <2>1 DEF HandlersDoNotNest
<1>3. frames[1] \in Frame
  BY <1>1, <1>2, ElementOfSeq
<1>4. frames = <<frames[1]>>
  <2>1. <<frames[1]>> \in Seq(Frame)
    BY <1>3
  <2>2. Len(<<frames[1]>>) = 1 /\ <<frames[1]>>[1] = frames[1]
    OBVIOUS
  <2> QED
    BY <1>1, <1>2, <2>1, <2>2, SeqEqual
<1> QED
  BY <1>2, <1>3, <1>4 DEF Innermost

Arming == {"sched_schedule", "eoi", "arm"}

\* A sequence of one frame.
LEMMA OneFrame ==
  ASSUME NEW f
  PROVE  /\ <<f>> # <<>>
         /\ Len(<<f>>) = 1
         /\ <<f>>[1] = f
         /\ <<f>>[Len(<<f>>)] = f
         /\ f \in Frame => <<f>> \in Seq(Frame)
         /\ {i \in 1 .. Len(<<f>>) : <<f>>[i].pc \in Arming} =
              IF f.pc \in Arming THEN {1} ELSE {}
OBVIOUS

LEMMA NoFrame == ToArm = {} \/ frames # <<>>
BY DEF ToArm

Pcs == {"sched_schedule", "switch", "eoi", "arm", "pit_handler", "irq_eoi",
        "iret"}

\* What the handler there is becomes.
LEMMA Replaced ==
  ASSUME InterruptTypeOK, HandlersDoNotNest,
         NEW p \in Pcs, At(p),
         NEW g \in Frame, frames' = [frames EXCEPT ![Len(frames)] = g]
  PROVE  /\ frames # <<>> /\ Innermost \in Frame /\ Innermost.pc = p
         /\ frames' # <<>> /\ Len(frames') = 1 /\ frames' \in Seq(Frame)
         /\ Innermost' = g
         /\ ToArm = IF p \in Arming THEN {1} ELSE {}
         /\ ToArm' = IF g.pc \in Arming THEN {1} ELSE {}
<1>1. /\ frames # <<>> /\ Len(frames) = 1 /\ frames = <<frames[1]>>
      /\ frames[1] \in Frame /\ Innermost = frames[1] /\ frames[1].pc = p
  BY Shape DEF At
<1>2. frames' = <<g>>
  <2> DEFINE f == frames[1]
  <2>1. frames' = [<<f>> EXCEPT ![1] = g]
    BY <1>1
  <2> QED
    BY <2>1
<1>3. Innermost' = g
  BY <1>2, OneFrame DEF Innermost
<1>4. ToArm = {i \in 1 .. Len(frames) : frames[i].pc \in Arming}
  BY DEF ToArm, Arming
<1>5. ToArm' = {i \in 1 .. Len(frames') : frames'[i].pc \in Arming}
  BY DEF ToArm, Arming
<1> QED
  BY <1>1, <1>2, <1>3, <1>4, <1>5, OneFrame

LEMMA Goes ==
  ASSUME InterruptTypeOK, HandlersDoNotNest,
         NEW p \in Pcs, NEW q \in Pcs, At(p), Goto(q)
  PROVE  /\ frames # <<>> /\ Innermost \in Frame /\ Innermost.pc = p
         /\ frames' # <<>> /\ Len(frames') = 1 /\ frames' \in Seq(Frame)
         /\ Innermost'.pc = q
         /\ Innermost'.vector = Innermost.vector
         /\ Innermost'.to = Innermost.to
         /\ ToArm = IF p \in Arming THEN {1} ELSE {}
         /\ ToArm' = IF q \in Arming THEN {1} ELSE {}
<1>1. Innermost \in Frame
  BY Shape DEF At
<1> DEFINE g == [Innermost EXCEPT !.pc = q]
<1>2. g \in Frame /\ g.pc = q /\ g.vector = Innermost.vector /\ g.to = Innermost.to
  BY <1>1 DEF Frame, Pcs
<1>3. frames' = [frames EXCEPT ![Len(frames)] = g]
  BY Shape DEF Goto, Innermost, At
<1> HIDE DEF g
<1> QED
  BY <1>2, <1>3, Replaced

(***************************************************************************)
(* The table of tasks.                                                     *)
(***************************************************************************)
LEMMA FirstFree ==
  ASSUME TypeOK
  PROVE  /\ FirstFreeSlot \in Indices \union {Slots}
         /\ \A i \in Indices : i < FirstFreeSlot => sched_tasks[i] # NULL
         /\ FirstFreeSlot \in Indices => sched_tasks[FirstFreeSlot] = NULL
<1> DEFINE open == {i \in Indices : sched_tasks[i] = NULL}
<1>1. CASE open = {}
  <2>1. FirstFreeSlot = Slots
    BY <1>1 DEF FirstFreeSlot
  <2> QED
    BY <1>1, <2>1, SchedulerAssumption DEF Indices
<1>2. CASE open # {}
  <2>1. \E i \in open : \A j \in open : i <= j
    <3>1. open \in SUBSET Nat
      BY SchedulerAssumption DEF Indices
    <3>2. PICK i \in open : \A j \in open : <<j, i>> \notin OpToRel(<, Nat)
      BY <1>2, <3>1, NatLessThanWellFounded, WFMin
    <3>3. \A j \in open : ~(j < i)
      BY <3>1, <3>2 DEF OpToRel
    <3> QED
      BY <3>1, <3>3
  <2>2. FirstFreeSlot = CHOOSE i \in open : \A j \in open : i <= j
    BY <1>2 DEF FirstFreeSlot
  <2>3. FirstFreeSlot \in open /\ \A j \in open : FirstFreeSlot <= j
    BY <2>1, <2>2
  <2> QED
    BY <2>3, SchedulerAssumption DEF Indices
<1> QED
  BY <1>1, <1>2

LEMMA TasksAreUsed ==
  ASSUME NEW t \in Task
  PROVE  t # Unused
<1>1. t.ctx \in CtxKinds
  BY DEF Task
<1>2. Unused.ctx = "none"
  BY DEF Unused
<1> QED
  BY <1>1, <1>2 DEF CtxKinds

\* An end of interrupt, when at most the handler's own is in service.
LEMMA EndsOwn ==
  ASSUME InterruptTypeOK, HandlersDoNotNest, frames # <<>>, lapic_eoi
  PROVE  isr' = {}
<1>1. isr = {} \/ isr = {Innermost.vector}
  BY DEF HandlersDoNotNest
<1>2. Innermost.vector \in Vectors
  BY Shape DEF Frame
<1> QED
  BY <1>1, <1>2, HighestOfOne DEF lapic_eoi

\* The table has no gap: a task is where the scan has not arrived.
LEMMA QueueIsPrefix ==
  ASSUME TypeOK, TableIsQueue, NEW i \in Indices
  PROVE  sched_tasks[i] # NULL <=> i < FirstFreeSlot
<1>1. /\ FirstFreeSlot \in Indices \union {Slots}
      /\ i < FirstFreeSlot => sched_tasks[i] # NULL
      /\ FirstFreeSlot \in Indices => sched_tasks[FirstFreeSlot] = NULL
  BY FirstFree
<1>2. i \in Nat /\ i < Slots /\ FirstFreeSlot \in Nat
  BY <1>1, SchedulerAssumption DEF Indices
<1>3. ASSUME ~(i < FirstFreeSlot)
      PROVE  sched_tasks[i] = NULL
  <2>1. FirstFreeSlot \in Indices
    BY <1>1, <1>2, <1>3
  <2>2. CASE i = FirstFreeSlot
    BY <1>1, <2>1, <2>2
  <2>3. CASE FirstFreeSlot < i
    BY <1>1, <2>1, <2>3 DEF TableIsQueue
  <2> QED
    BY <1>2, <1>3, <2>2, <2>3
<1> QED
  BY <1>1, <1>3

\* The task after the current one, and after the last the first.
LEMMA NextTask ==
  ASSUME TypeOK, TableIsQueue
  PROVE  /\ current_task = NULL => sched_get_next_task = sched_tasks[0]
         /\ \A k \in Indices :
              /\ current_task # NULL
              /\ current_task = sched_tasks[k]
              => sched_get_next_task =
                   IF k + 1 < FirstFreeSlot THEN sched_tasks[k + 1]
                                            ELSE sched_tasks[0]
<1> DEFINE followed == {i \in 0 .. (Slots - 2) :
                          /\ sched_tasks[i] = current_task
                          /\ sched_tasks[i + 1] # NULL}
           least == CHOOSE i \in followed : \A j \in followed : i <= j
<1>0. \A i \in 0 .. (Slots - 2) : i \in Indices /\ i + 1 \in Indices /\ i \in Nat
  BY SchedulerAssumption DEF Indices
<1>1. sched_get_next_task =
        IF followed = {}
        THEN sched_tasks[0]
        ELSE sched_tasks[1 + least]
  BY DEF sched_get_next_task
<1> HIDE DEF least
<1>2. ASSUME current_task = NULL
      PROVE  followed = {}
  <2>1. ASSUME NEW i \in 0 .. (Slots - 2), sched_tasks[i] = NULL
        PROVE  sched_tasks[i + 1] = NULL
    BY <1>0, <2>1 DEF TableIsQueue
  <2> QED
    BY <1>2, <2>1
<1>3. ASSUME NEW k \in Indices, current_task # NULL, current_task = sched_tasks[k]
      PROVE  sched_get_next_task =
               IF k + 1 < FirstFreeSlot THEN sched_tasks[k + 1]
                                        ELSE sched_tasks[0]
  <2>1. ASSUME NEW i \in followed
        PROVE  i = k
    <3>1. i \in Indices /\ i \in Nat /\ k \in Nat /\ sched_tasks[i] = sched_tasks[k]
      BY <1>0, <1>3 DEF Indices
    <3>2. ~(i < k) /\ ~(k < i)
      BY <1>3, <3>1 DEF TableIsQueue
    <3> QED
      BY <3>1, <3>2
  <2>2. k \in followed <=> k + 1 < FirstFreeSlot
    <3>1. CASE k + 1 \in Indices
      <4>1. k \in 0 .. (Slots - 2)
        BY <3>1, SchedulerAssumption DEF Indices
      <4>2. sched_tasks[k + 1] # NULL <=> k + 1 < FirstFreeSlot
        BY <3>1, QueueIsPrefix
      <4> QED
        BY <1>3, <4>1, <4>2
    <3>2. CASE k + 1 \notin Indices
      <4>1. k \notin 0 .. (Slots - 2)
        BY <1>0, <3>2
      <4>2. k + 1 = Slots
        BY <3>2, SchedulerAssumption DEF Indices
      <4>3. ~(k + 1 < FirstFreeSlot)
        BY <4>2, FirstFree, SchedulerAssumption DEF Indices
      <4> QED
        BY <4>1, <4>3
    <3> QED
      BY <3>1, <3>2
  <2>3. CASE k \in followed
    <3>1. followed = {k}
      BY <2>1, <2>3
    <3>2. least = k
      <4>1. k <= k
        BY DEF Indices
      <4> HIDE DEF followed
      <4> QED
        BY <3>1, <4>1 DEF least
    <3>3. k + 1 = 1 + k
      BY DEF Indices
    <3> HIDE DEF followed
    <3> QED
      BY <1>1, <2>2, <2>3, <3>2, <3>3
  <2>4. CASE k \notin followed
    <3>1. followed = {}
      BY <2>1, <2>4
    <3> HIDE DEF followed
    <3> QED
      BY <1>1, <2>2, <2>4, <3>1
  <2> QED
    BY <2>3, <2>4
<1> HIDE DEF followed
<1> QED
  BY <1>1, <1>2, <1>3

LEMMA NextTaskIsInTable ==
  ASSUME TypeOK, TableIsQueue, sched_tasks[0] # NULL
  PROVE  \E i \in Indices :
           sched_tasks[i] # NULL /\ sched_tasks[i] = sched_get_next_task
<1>1. 0 \in Indices
  BY SchedulerAssumption DEF Indices
<1>2. CASE current_task = NULL
  BY <1>1, <1>2, NextTask
<1>3. CASE current_task # NULL
  <2>1. PICK k \in Indices : sched_tasks[k] = current_task
    BY <1>3 DEF TableIsQueue
  <2>2. CASE k + 1 < FirstFreeSlot
    <3>1. k + 1 \in Indices
      BY <2>2, FirstFree, SchedulerAssumption DEF Indices
    <3>2. sched_tasks[k + 1] # NULL
      BY <2>2, <3>1, QueueIsPrefix
    <3> QED
      BY <1>3, <2>1, <2>2, <3>1, <3>2, NextTask
  <2>3. CASE ~(k + 1 < FirstFreeSlot)
    BY <1>1, <1>3, <2>1, <2>3, NextTask
  <2> QED
    BY <2>2, <2>3
<1> QED
  BY <1>2, <1>3

-----------------------------------------------------------------------------
(***************************************************************************)
(* What threads execute: no interrupt is being handled.                    *)
(***************************************************************************)
LEMMA SchedInstallKeeps ==
  ASSUME IInv, sched_install
  PROVE  IInv'
<1> USE SchedulerAssumption DEF interrupt_vars, apic_vars, sched_vars, table,
    turns, locals, Executing
<1>1. TypeOK'
  BY DEF IInv, TypeOK, InterruptTypeOK, sched_install
<1>2. HandlersDoNotNest'
  BY DEF IInv, HandlersDoNotNest, Innermost, At, sched_install
<1>3. NothingEarly'
  BY DEF IInv, NothingEarly, Started, ToArm, Innermost, sched_install
<1>4. ThreadState'
  BY DEF IInv, ThreadState, TypeOK, Installing, InNewTask, sched_install
<1>5. TaskState'
  BY DEF IInv, TaskState, TypeOK, FirstFreeSlot, sched_install
<1>6. OneTickOnItsWay'
  BY DEF IInv, OneTickOnItsWay, NothingEarly, Started, ToArm, sched_install
<1>7. TableIsQueue'
  <2>1. \A i \in Indices : sched_tasks'[i] = NULL
    BY DEF sched_install
  <2>2. current_task' = NULL
    BY DEF IInv, ThreadState, sched_install
  <2> QED
    BY <2>1, <2>2 DEF TableIsQueue
<1> QED
  BY <1>1, <1>2, <1>3, <1>4, <1>5, <1>6, <1>7 DEF IInv

LEMMA SchedNewTaskKeeps ==
  ASSUME IInv, sched_new_task
  PROVE  IInv'
<1> USE SchedulerAssumption DEF interrupt_vars, apic_vars, sched_vars, table,
    turns, locals, Executing
<1>1. TypeOK'
  BY DEF IInv, TypeOK, InterruptTypeOK, sched_new_task
<1>2. HandlersDoNotNest'
  BY DEF IInv, HandlersDoNotNest, Innermost, At, sched_new_task
<1>3. NothingEarly'
  BY DEF IInv, NothingEarly, Started, ToArm, Innermost, sched_new_task
<1>4. ThreadState'
  BY DEF IInv, ThreadState, TypeOK, Installing, InNewTask, sched_new_task
<1>5. TaskState'
  BY DEF IInv, TaskState, TypeOK, FirstFreeSlot, sched_new_task
<1>6. OneTickOnItsWay'
  BY DEF IInv, OneTickOnItsWay, NothingEarly, Started, ToArm, sched_new_task
<1>7. TableIsQueue'
  BY DEF IInv, TableIsQueue, TypeOK, TaskState, sched_new_task
<1> QED
  BY <1>1, <1>2, <1>3, <1>4, <1>5, <1>6, <1>7 DEF IInv

LEMMA NewTaskAllocatesKeeps ==
  ASSUME IInv, NEW b \in Blocks, NEW ctx \in CtxKinds, NewTaskAllocates(b,
         ctx)
  PROVE  IInv'
<1> USE SchedulerAssumption DEF interrupt_vars, apic_vars, sched_vars, table,
    turns, locals, Executing
<1>0. [pid |-> 0, quantum |-> 0, esp |-> FALSE, ctx |-> ctx] \in Task
  BY DEF Task
<1>a. /\ structs' \in [Blocks -> Task \union {Unused}]
      /\ structs'[b] \in Task
      /\ \A c \in Blocks : c # b => structs'[c] = structs[c]
  BY <1>0 DEF IInv, TypeOK, NewTaskAllocates
<1>b. structs'[b] # Unused
  BY <1>a, TasksAreUsed
<1>c. \A i \in Indices : sched_tasks[i] # b
  BY DEF IInv, TableIsQueue, NewTaskAllocates, Fresh
<1>1. TypeOK'
  BY <1>a DEF IInv, TypeOK, InterruptTypeOK, NewTaskAllocates
<1>2. HandlersDoNotNest'
  BY DEF IInv, HandlersDoNotNest, Innermost, At, NewTaskAllocates, Fresh
<1>3. NothingEarly'
  BY DEF IInv, NothingEarly, Started, ToArm, Innermost, NewTaskAllocates,
     Fresh
<1>4. ThreadState'
  BY DEF IInv, ThreadState, TypeOK, Installing, InNewTask, NewTaskAllocates,
     Fresh
<1>5. TaskState'
  BY <1>b, <1>c DEF IInv, TaskState, NewTaskAllocates
<1>6. OneTickOnItsWay'
  BY DEF IInv, OneTickOnItsWay, NothingEarly, Started, ToArm,
     NewTaskAllocates, Fresh
<1>7. TableIsQueue'
  BY <1>a, <1>c DEF IInv, TableIsQueue, TypeOK, NewTaskAllocates
<1> QED
  BY <1>1, <1>2, <1>3, <1>4, <1>5, <1>6, <1>7 DEF IInv

LEMMA NewTaskPanicsKeeps ==
  ASSUME IInv, NewTaskPanics
  PROVE  IInv'
<1> USE SchedulerAssumption DEF interrupt_vars, apic_vars, sched_vars, table,
    turns, locals, Executing, LeaveNewTask
<1>1. TypeOK'
  BY DEF IInv, TypeOK, InterruptTypeOK, Indices, NewTaskPanics
<1>2. HandlersDoNotNest'
  BY DEF IInv, HandlersDoNotNest, Innermost, At, NewTaskPanics
<1>3. NothingEarly'
  BY DEF IInv, NothingEarly, Started, ToArm, Innermost, NewTaskPanics
<1>4. ThreadState'
  BY DEF IInv, ThreadState, TypeOK, Installing, InNewTask, NewTaskPanics
<1>5. TaskState'
  BY DEF IInv, TaskState, TypeOK, FirstFreeSlot, NewTaskPanics
<1>6. OneTickOnItsWay'
  BY DEF IInv, OneTickOnItsWay, NothingEarly, Started, ToArm, NewTaskPanics
<1>7. TableIsQueue'
  BY DEF IInv, TableIsQueue, TypeOK, TaskState, NewTaskPanics
<1> QED
  BY <1>1, <1>2, <1>3, <1>4, <1>5, <1>6, <1>7 DEF IInv

LEMMA NewTaskStopsKeeps ==
  ASSUME IInv, NewTaskStops
  PROVE  IInv'
<1> USE SchedulerAssumption DEF interrupt_vars, apic_vars, sched_vars, table,
    turns, locals, Executing
<1>1. TypeOK'
  BY DEF IInv, TypeOK, InterruptTypeOK, NewTaskStops
<1>2. HandlersDoNotNest'
  BY DEF IInv, HandlersDoNotNest, Innermost, At, NewTaskStops
<1>3. NothingEarly'
  BY DEF IInv, NothingEarly, Started, ToArm, Innermost, NewTaskStops
<1>4. ThreadState'
  BY DEF IInv, ThreadState, TypeOK, Installing, InNewTask, NewTaskStops
<1>5. TaskState'
  BY DEF IInv, TaskState, TypeOK, FirstFreeSlot, NewTaskStops
<1>6. OneTickOnItsWay'
  BY DEF IInv, OneTickOnItsWay, NothingEarly, Started, ToArm, NewTaskStops
<1>7. TableIsQueue'
  BY DEF IInv, TableIsQueue, TypeOK, TaskState, NewTaskStops
<1> QED
  BY <1>1, <1>2, <1>3, <1>4, <1>5, <1>6, <1>7 DEF IInv

LEMMA PanicHaltsKeeps ==
  ASSUME IInv, PanicHalts
  PROVE  IInv'
<1> USE SchedulerAssumption DEF interrupt_vars, apic_vars, sched_vars, table,
    turns, locals, Executing
<1>1. TypeOK'
  BY DEF IInv, TypeOK, InterruptTypeOK, PanicHalts
<1>2. HandlersDoNotNest'
  BY DEF IInv, HandlersDoNotNest, Innermost, At, PanicHalts
<1>3. NothingEarly'
  BY DEF IInv, NothingEarly, Started, ToArm, Innermost, PanicHalts
<1>4. ThreadState'
  BY DEF IInv, ThreadState, TypeOK, Installing, InNewTask, PanicHalts
<1>5. TaskState'
  BY DEF IInv, TaskState, TypeOK, FirstFreeSlot, PanicHalts
<1>6. OneTickOnItsWay'
  BY DEF IInv, OneTickOnItsWay, NothingEarly, Started, ToArm, PanicHalts
<1>7. TableIsQueue'
  BY DEF IInv, TableIsQueue, TypeOK, TaskState, PanicHalts
<1> QED
  BY <1>1, <1>2, <1>3, <1>4, <1>5, <1>6, <1>7 DEF IInv

LEMMA NewTaskFieldsKeeps ==
  ASSUME IInv, NewTaskFields
  PROVE  IInv'
<1> USE SchedulerAssumption DEF interrupt_vars, apic_vars, sched_vars, table,
    turns, locals, Executing
<1>0. task \in Blocks /\ structs[task] \in Task /\ \A i \in Indices : sched_tasks[i] # task
  BY DEF IInv, TypeOK, TaskState, NewTaskFields
<1>a. /\ structs' \in [Blocks -> Task \union {Unused}]
      /\ structs'[task] \in Task
      /\ structs'[task].quantum = QUANTUM
      /\ \A c \in Blocks : c # task => structs'[c] = structs[c]
  <2>1. PICK n \in Nat : structs' = [structs EXCEPT ![task].pid = n, ![task].quantum = QUANTUM]
    BY DEF IInv, TypeOK, NewTaskFields
  <2>2. [structs[task] EXCEPT !.pid = n, !.quantum = QUANTUM] \in Task
    BY <1>0 DEF Task
  <2>3. structs' = [structs EXCEPT ![task] = [structs[task] EXCEPT !.pid = n, !.quantum = QUANTUM]]
    BY <1>0, <2>1 DEF IInv, TypeOK
  <2>4. [structs[task] EXCEPT !.pid = n, !.quantum = QUANTUM].quantum = QUANTUM
    BY <1>0 DEF Task
  <2> HIDE DEF Task
  <2> QED
    BY <1>0, <2>2, <2>3, <2>4 DEF IInv, TypeOK
<1>b. structs'[task] # Unused
  BY <1>a, TasksAreUsed
<1>1. TypeOK'
  BY <1>a DEF IInv, TypeOK, InterruptTypeOK, NewTaskFields
<1>2. HandlersDoNotNest'
  BY DEF IInv, HandlersDoNotNest, Innermost, At, NewTaskFields
<1>3. NothingEarly'
  BY DEF IInv, NothingEarly, Started, ToArm, Innermost, NewTaskFields
<1>4. ThreadState'
  BY DEF IInv, ThreadState, TypeOK, Installing, InNewTask, NewTaskFields
<1>5. TaskState'
  BY <1>0, <1>a, <1>b DEF TaskState, NewTaskFields
<1>6. OneTickOnItsWay'
  BY DEF IInv, OneTickOnItsWay, NothingEarly, Started, ToArm, NewTaskFields
<1>7. TableIsQueue'
  BY <1>0, <1>a DEF IInv, TableIsQueue, TypeOK, NewTaskFields
<1> QED
  BY <1>1, <1>2, <1>3, <1>4, <1>5, <1>6, <1>7 DEF IInv

LEMMA NewTaskStackKeeps ==
  ASSUME IInv, NewTaskStack
  PROVE  IInv'
<1> USE SchedulerAssumption DEF interrupt_vars, apic_vars, sched_vars, table,
    turns, locals, Executing
<1>0. task \in Blocks /\ structs[task] \in Task /\ \A i \in Indices : sched_tasks[i] # task
  BY DEF IInv, TypeOK, TaskState, NewTaskStack
<1>a. /\ structs' \in [Blocks -> Task \union {Unused}]
      /\ structs'[task] \in Task
      /\ structs'[task].quantum = QUANTUM
      /\ structs'[task].esp
      /\ \A c \in Blocks : c # task => structs'[c] = structs[c]
  <2>1. /\ [structs[task] EXCEPT !.esp = TRUE] \in Task
        /\ [structs[task] EXCEPT !.esp = TRUE].quantum = structs[task].quantum
        /\ [structs[task] EXCEPT !.esp = TRUE].esp
    BY <1>0 DEF Task
  <2>2. structs[task].quantum = QUANTUM
    BY DEF IInv, TaskState, NewTaskStack
  <2>3. structs' = [structs EXCEPT ![task] = [structs[task] EXCEPT !.esp = TRUE]]
    BY <1>0 DEF IInv, TypeOK, NewTaskStack
  <2> QED
    BY <1>0, <2>1, <2>2, <2>3 DEF IInv, TypeOK
<1>b. structs'[task] # Unused
  BY <1>a, TasksAreUsed
<1>1. TypeOK'
  BY <1>a DEF IInv, TypeOK, InterruptTypeOK, NewTaskStack
<1>2. HandlersDoNotNest'
  BY DEF IInv, HandlersDoNotNest, Innermost, At, NewTaskStack
<1>3. NothingEarly'
  BY DEF IInv, NothingEarly, Started, ToArm, Innermost, NewTaskStack
<1>4. ThreadState'
  BY DEF IInv, ThreadState, TypeOK, Installing, InNewTask, NewTaskStack
<1>5. TaskState'
  BY <1>0, <1>a, <1>b DEF TaskState, NewTaskStack
<1>6. OneTickOnItsWay'
  BY DEF IInv, OneTickOnItsWay, NothingEarly, Started, ToArm, NewTaskStack
<1>7. TableIsQueue'
  BY <1>0, <1>a DEF IInv, TableIsQueue, TypeOK, NewTaskStack
<1> QED
  BY <1>1, <1>2, <1>3, <1>4, <1>5, <1>6, <1>7 DEF IInv

LEMMA NewTaskScansKeeps ==
  ASSUME IInv, NewTaskScans
  PROVE  IInv'
<1> USE SchedulerAssumption DEF interrupt_vars, apic_vars, sched_vars, table,
    turns, locals, Executing
<1>1. TypeOK'
  BY FirstFree DEF IInv, TypeOK, InterruptTypeOK, NewTaskScans
<1>2. HandlersDoNotNest'
  BY DEF IInv, HandlersDoNotNest, Innermost, At, NewTaskScans
<1>3. NothingEarly'
  BY DEF IInv, NothingEarly, Started, ToArm, Innermost, NewTaskScans
<1>4. ThreadState'
  BY DEF IInv, ThreadState, TypeOK, Installing, InNewTask, NewTaskScans
<1>5. TaskState'
  BY DEF IInv, TaskState, TypeOK, FirstFreeSlot, NewTaskScans
<1>6. OneTickOnItsWay'
  BY DEF IInv, OneTickOnItsWay, NothingEarly, Started, ToArm, NewTaskScans
<1>7. TableIsQueue'
  BY DEF IInv, TableIsQueue, TypeOK, TaskState, NewTaskScans
<1> QED
  BY <1>1, <1>2, <1>3, <1>4, <1>5, <1>6, <1>7 DEF IInv

LEMMA NewTaskStoresKeeps ==
  ASSUME IInv, NewTaskStores
  PROVE  IInv'
<1> USE SchedulerAssumption DEF interrupt_vars, apic_vars, sched_vars, table,
    turns, locals, Executing
<1>0. /\ task \in Blocks
      /\ structs[task] # Unused
      /\ structs[task].quantum = QUANTUM
      /\ structs[task].esp
      /\ \A i \in Indices : sched_tasks[i] # task
      /\ slot = FirstFreeSlot
  BY DEF IInv, TaskState, NewTaskStores
<1>a. /\ slot \in Indices \union {Slots}
      /\ \A i \in Indices : i < slot => sched_tasks[i] # NULL
      /\ slot \in Indices => sched_tasks[slot] = NULL
  BY <1>0, FirstFree DEF IInv
<1>b. /\ sched_tasks' \in [Indices -> Blocks \union {NULL}]
      /\ \A i \in Indices : i # slot => sched_tasks'[i] = sched_tasks[i]
      /\ slot \in Indices => sched_tasks'[slot] = task
  BY <1>0 DEF IInv, TypeOK, NewTaskStores
<1>1. TypeOK'
  BY <1>b DEF IInv, TypeOK, InterruptTypeOK, NewTaskStores, LeaveNewTask,
     Indices
<1>2. HandlersDoNotNest'
  BY DEF IInv, HandlersDoNotNest, Innermost, At, NewTaskStores, LeaveNewTask
<1>3. NothingEarly'
  BY DEF IInv, NothingEarly, Started, ToArm, Innermost, NewTaskStores,
     LeaveNewTask
<1>4. ThreadState'
  <2>1. 0 \in Indices /\ task # NULL
    BY <1>0 DEF Indices
  <2>2. sched_tasks'[0] # NULL
    BY <1>a, <1>b, <2>1 DEF Indices
  <2>3. pc' \in {"irq_register", "lapic_ipi", "run"} /\ thread' = thread
    BY DEF NewTaskStores
  <2>4. pc' \in {"irq_register", "lapic_ipi"} => thread = Boot
    BY DEF IInv, ThreadState, Installing, InNewTask, NewTaskStores
  <2>5. pc' = "run" => thread # Boot
    BY DEF NewTaskStores
  <2>6. pc' = "irq_register" \/ irq_handlers'[SCHED] = "sched_schedule"
    BY DEF IInv, ThreadState, Installing, InNewTask, NewTaskStores
  <2>7. ~Installing' /\ pc' # "hltLoop"
    BY <2>3 DEF Installing, InNewTask
  <2> QED
    BY <2>2, <2>3, <2>4, <2>5, <2>6, <2>7 DEF ThreadState
<1>5. TaskState'
  BY DEF IInv, TaskState, TypeOK, FirstFreeSlot, NewTaskStores, LeaveNewTask
<1>6. OneTickOnItsWay'
  BY DEF IInv, OneTickOnItsWay, NothingEarly, Started, ToArm, NewTaskStores,
     LeaveNewTask
<1>7. TableIsQueue'
  <2>0. slot \notin Indices => sched_tasks' = sched_tasks
    BY <1>b DEF IInv, TypeOK
  <2>1. ASSUME NEW i \in Indices, NEW j \in Indices, i < j, sched_tasks'[j] # NULL
        PROVE  sched_tasks'[i] \notin {NULL, sched_tasks'[j]}
    <3>0. i \in Nat /\ j \in Nat /\ slot \in Nat
      BY <1>a DEF Indices
    <3>1. CASE j = slot
      BY <1>0, <1>a, <1>b, <2>1, <3>0, <3>1
    <3>2. CASE i = slot
      <4>1. sched_tasks[i] = NULL /\ sched_tasks[j] # NULL
        BY <1>a, <1>b, <2>1, <3>0, <3>2
      <4> QED
        BY <2>1, <4>1 DEF IInv, TableIsQueue
    <3>3. CASE i # slot /\ j # slot
      BY <1>b, <2>1, <3>3 DEF IInv, TableIsQueue
    <3> QED
      BY <3>1, <3>2, <3>3
  <2>2. ASSUME NEW i \in Indices, sched_tasks'[i] # NULL
        PROVE  /\ structs'[sched_tasks'[i]] # Unused
               /\ structs'[sched_tasks'[i]].quantum = QUANTUM
               /\ structs'[sched_tasks'[i]].esp
    <3>1. structs' = structs
      BY DEF NewTaskStores
    <3>2. CASE i = slot
      BY <1>0, <1>b, <3>1, <3>2
    <3>3. CASE i # slot
      BY <1>b, <2>2, <3>1, <3>3 DEF IInv, TableIsQueue
    <3> QED
      BY <3>2, <3>3
  <2>3. ASSUME current_task' # NULL
        PROVE  \E i \in Indices : sched_tasks'[i] = current_task'
    <3>1. current_task' = current_task
      BY DEF NewTaskStores
    <3>2. PICK i \in Indices : sched_tasks[i] = current_task
      BY <2>3, <3>1 DEF IInv, TableIsQueue
    <3>3. i # slot
      BY <1>a, <2>3, <3>1, <3>2
    <3> QED
      BY <1>b, <3>1, <3>2, <3>3
  <2> QED
    BY <2>1, <2>2, <2>3 DEF TableIsQueue
<1> QED
  BY <1>1, <1>2, <1>3, <1>4, <1>5, <1>6, <1>7 DEF IInv

LEMMA InstallRegistersKeeps ==
  ASSUME IInv, InstallRegisters
  PROVE  IInv'
<1> USE SchedulerAssumption DEF interrupt_vars, apic_vars, sched_vars, table,
    turns, locals, Executing
<1>1. TypeOK'
  BY DEF IInv, TypeOK, InterruptTypeOK, InstallRegisters
<1>2. HandlersDoNotNest'
  BY DEF IInv, HandlersDoNotNest, Innermost, At, InstallRegisters
<1>0. /\ irq_handlers'[PIT] = irq_handlers[PIT]
      /\ irq_handlers'[SCHED] = "sched_schedule"
  BY VectorFacts DEF IInv, TypeOK, InterruptTypeOK, InstallRegisters, Vectors
<1>a. frames = <<>> /\ frames' = <<>> /\ ToArm' = {}
  BY DEF InstallRegisters, ToArm
<1>3. NothingEarly'
  <2>1. ~Started
    BY DEF IInv, ThreadState, Started, InstallRegisters
  <2> QED
    BY <1>0, <1>a, <2>1 DEF IInv, NothingEarly, InstallRegisters
<1>4. ThreadState'
  BY <1>0 DEF IInv, ThreadState, Installing, InNewTask, InstallRegisters
<1>5. TaskState'
  BY DEF IInv, TaskState, TypeOK, FirstFreeSlot, InstallRegisters
<1>6. OneTickOnItsWay'
  BY DEF IInv, OneTickOnItsWay, NothingEarly, Started, ToArm, InstallRegisters
<1>7. TableIsQueue'
  BY DEF IInv, TableIsQueue, TypeOK, TaskState, InstallRegisters
<1> QED
  BY <1>1, <1>2, <1>3, <1>4, <1>5, <1>6, <1>7 DEF IInv

LEMMA MainStartsSchedulerKeeps ==
  ASSUME IInv, MainStartsScheduler
  PROVE  IInv'
<1> USE SchedulerAssumption DEF interrupt_vars, apic_vars, sched_vars, table,
    turns, locals, Executing
<1>1. TypeOK'
  <2>1. irr' \subseteq Vectors
    BY DEF IInv, TypeOK, InterruptTypeOK, MainStartsScheduler, lapic_ipi,
       Vectors
  <2> QED
    BY <2>1 DEF IInv, TypeOK, InterruptTypeOK, MainStartsScheduler
<1>0. /\ ~Started /\ Started'
      /\ frames = <<>> /\ frames' = <<>> /\ ToArm = {} /\ ToArm' = {}
  BY DEF IInv, ThreadState, Started, MainStartsScheduler, ToArm
<1>a. timer' = "off" /\ SCHED \in irr'
  BY <1>0 DEF IInv, NothingEarly, MainStartsScheduler, lapic_ipi
<1>b. irq_handlers' = irq_handlers /\ irq_handlers[SCHED] = "sched_schedule"
  BY DEF IInv, ThreadState, Installing, InNewTask, MainStartsScheduler
<1>2. HandlersDoNotNest'
  BY DEF IInv, HandlersDoNotNest, Innermost, At, MainStartsScheduler,
     lapic_ipi
<1>3. NothingEarly'
  BY <1>0, <1>b DEF IInv, NothingEarly
<1>4. ThreadState'
  BY DEF IInv, ThreadState, TypeOK, Installing, InNewTask,
     MainStartsScheduler, lapic_ipi
<1>5. TaskState'
  BY DEF IInv, TaskState, TypeOK, FirstFreeSlot, MainStartsScheduler,
     lapic_ipi
<1>6. OneTickOnItsWay'
  BY <1>0, <1>a DEF OneTickOnItsWay
<1>7. TableIsQueue'
  BY DEF IInv, TableIsQueue, TypeOK, TaskState, MainStartsScheduler, lapic_ipi
<1> QED
  BY <1>1, <1>2, <1>3, <1>4, <1>5, <1>6, <1>7 DEF IInv

-----------------------------------------------------------------------------
(***************************************************************************)
(* The steps of the handlers.                                              *)
(***************************************************************************)
LEMMA ScheduleTicksKeeps ==
  ASSUME IInv, ScheduleTicks, UNCHANGED <<table, cpu, thread, pc, locals>>
  PROVE  IInv'
<1> USE DEF interrupt_vars, apic_vars, sched_vars, table, turns, locals
<1>a. /\ frames # <<>>
      /\ frames' # <<>> /\ Len(frames') = 1 /\ frames' \in Seq(Frame)
      /\ Innermost'.pc = "eoi"
      /\ Innermost'.vector = Innermost.vector
      /\ Innermost'.to = Innermost.to
      /\ ToArm = {1} /\ ToArm' = {1}
  BY Goes DEF IInv, TypeOK, ScheduleTicks, Pcs, Arming
<1>b. isr' = isr
  BY DEF ScheduleTicks
<1>c. Started' = Started
  BY DEF Started
<1>1. TypeOK'
  BY <1>a, <1>b, SchedulerAssumption DEF IInv, TypeOK, InterruptTypeOK,
     ScheduleTicks, TurnLasts, lapic_stop_timer
<1>2. HandlersDoNotNest'
  BY <1>a, <1>b DEF IInv, HandlersDoNotNest, At, ScheduleTicks
<1>3. NothingEarly'
  BY <1>a, <1>c DEF IInv, NothingEarly, ScheduleTicks, TurnLasts,
     lapic_stop_timer
<1>4. ThreadState'
  BY <1>a DEF IInv, NothingEarly, Started, ThreadState, Installing,
     InNewTask, ScheduleTicks
<1>5. TaskState'
  BY DEF IInv, TaskState, FirstFreeSlot
<1>6. OneTickOnItsWay'
  BY <1>a, <1>c DEF IInv, OneTickOnItsWay, ScheduleTicks, TurnLasts,
     lapic_stop_timer
<1>7. TableIsQueue'
  BY DEF IInv, TableIsQueue, ScheduleTicks
<1> QED
  BY <1>1, <1>2, <1>3, <1>4, <1>5, <1>6, <1>7 DEF IInv

LEMMA ScheduleEndsKeeps ==
  ASSUME IInv, ScheduleEnds, UNCHANGED <<table, cpu, thread, pc, locals>>
  PROVE  IInv'
<1> USE DEF interrupt_vars, apic_vars, sched_vars, table, turns, locals
<1>a. /\ frames # <<>>
      /\ frames' # <<>> /\ Len(frames') = 1 /\ frames' \in Seq(Frame)
      /\ Innermost'.pc = "arm"
      /\ Innermost'.vector = Innermost.vector
      /\ Innermost'.to = Innermost.to
      /\ ToArm = {1} /\ ToArm' = {1}
  BY Goes DEF IInv, TypeOK, ScheduleEnds, Pcs, Arming
<1>b. isr' = {}
  BY <1>a, EndsOwn DEF IInv, TypeOK, ScheduleEnds
<1>c. Started' = Started
  BY DEF Started
<1>1. TypeOK'
  BY <1>a, <1>b DEF IInv, TypeOK, InterruptTypeOK, ScheduleEnds
<1>2. HandlersDoNotNest'
  BY <1>a, <1>b DEF IInv, HandlersDoNotNest, At, ScheduleEnds
<1>3. NothingEarly'
  BY <1>a, <1>c DEF IInv, NothingEarly, ScheduleEnds
<1>4. ThreadState'
  BY <1>a DEF IInv, NothingEarly, Started, ThreadState, Installing,
     InNewTask, ScheduleEnds
<1>5. TaskState'
  BY DEF IInv, TaskState, FirstFreeSlot
<1>6. OneTickOnItsWay'
  BY <1>a, <1>c DEF IInv, OneTickOnItsWay, ScheduleEnds
<1>7. TableIsQueue'
  BY DEF IInv, TableIsQueue, ScheduleEnds
<1> QED
  BY <1>1, <1>2, <1>3, <1>4, <1>5, <1>6, <1>7 DEF IInv

LEMMA ScheduleArmsKeeps ==
  ASSUME IInv, ScheduleArms, UNCHANGED <<table, cpu, thread, pc, locals>>
  PROVE  IInv'
<1> USE DEF interrupt_vars, apic_vars, sched_vars, table, turns, locals
<1>a. /\ frames # <<>>
      /\ frames' # <<>> /\ Len(frames') = 1 /\ frames' \in Seq(Frame)
      /\ Innermost'.pc = "irq_eoi"
      /\ Innermost'.vector = Innermost.vector
      /\ Innermost'.to = Innermost.to
      /\ ToArm = {1} /\ ToArm' = {}
  BY Goes DEF IInv, TypeOK, ScheduleArms, Pcs, Arming
<1>b. isr' = isr
  BY DEF ScheduleArms
<1>c. Started' = Started
  BY DEF Started
<1>1. TypeOK'
  BY <1>a, <1>b DEF IInv, TypeOK, InterruptTypeOK, ScheduleArms, lapic_oneshot
<1>2. HandlersDoNotNest'
  BY <1>a, <1>b DEF IInv, HandlersDoNotNest, At, ScheduleArms
<1>3. NothingEarly'
  BY <1>a, <1>c, TimerAssumption DEF IInv, NothingEarly, ScheduleArms,
     lapic_oneshot
<1>4. ThreadState'
  BY <1>a DEF IInv, NothingEarly, Started, ThreadState, Installing,
     InNewTask, ScheduleArms
<1>5. TaskState'
  BY DEF IInv, TaskState, FirstFreeSlot
<1>6. OneTickOnItsWay'
  BY <1>a, <1>c, TimerAssumption DEF IInv, OneTickOnItsWay, ScheduleArms,
     lapic_oneshot
<1>7. TableIsQueue'
  BY DEF IInv, TableIsQueue, ScheduleArms
<1> QED
  BY <1>1, <1>2, <1>3, <1>4, <1>5, <1>6, <1>7 DEF IInv

LEMMA PitHandlerKeeps ==
  ASSUME IInv, pit_handler, UNCHANGED sched_vars
  PROVE  IInv'
<1> USE DEF interrupt_vars, apic_vars, sched_vars, table, turns, locals
<1>a. /\ frames # <<>>
      /\ frames' # <<>> /\ Len(frames') = 1 /\ frames' \in Seq(Frame)
      /\ Innermost'.pc = "irq_eoi"
      /\ Innermost'.vector = Innermost.vector
      /\ Innermost'.to = Innermost.to
      /\ ToArm = {} /\ ToArm' = {}
  BY Goes DEF IInv, TypeOK, pit_handler, Pcs, Arming
<1>b. isr' = isr
  BY DEF pit_handler
<1>c. Started' = Started
  BY DEF Started
<1>1. TypeOK'
  BY <1>a, <1>b DEF IInv, TypeOK, InterruptTypeOK, pit_handler
<1>2. HandlersDoNotNest'
  BY <1>a, <1>b DEF IInv, HandlersDoNotNest, At, pit_handler
<1>3. NothingEarly'
  BY <1>a, <1>c DEF IInv, NothingEarly, pit_handler
<1>4. ThreadState'
  BY DEF IInv, ThreadState, Installing, InNewTask, pit_handler
<1>5. TaskState'
  BY DEF IInv, TaskState, FirstFreeSlot
<1>6. OneTickOnItsWay'
  BY <1>a, <1>c DEF IInv, OneTickOnItsWay, pit_handler
<1>7. TableIsQueue'
  BY DEF IInv, TableIsQueue
<1> QED
  BY <1>1, <1>2, <1>3, <1>4, <1>5, <1>6, <1>7 DEF IInv

LEMMA IrqHandlerEndsKeeps ==
  ASSUME IInv, IrqHandlerEnds, UNCHANGED sched_vars
  PROVE  IInv'
<1> USE DEF interrupt_vars, apic_vars, sched_vars, table, turns, locals
<1>a. /\ frames # <<>>
      /\ frames' # <<>> /\ Len(frames') = 1 /\ frames' \in Seq(Frame)
      /\ Innermost'.pc = "iret"
      /\ Innermost'.vector = Innermost.vector
      /\ Innermost'.to = Innermost.to
      /\ ToArm = {} /\ ToArm' = {}
  BY Goes DEF IInv, TypeOK, IrqHandlerEnds, Pcs, Arming
<1>b. isr' = {}
  BY <1>a, EndsOwn DEF IInv, TypeOK, IrqHandlerEnds
<1>c. Started' = Started
  BY DEF Started
<1>1. TypeOK'
  BY <1>a, <1>b DEF IInv, TypeOK, InterruptTypeOK, IrqHandlerEnds
<1>2. HandlersDoNotNest'
  BY <1>a, <1>b DEF IInv, HandlersDoNotNest, At, IrqHandlerEnds
<1>3. NothingEarly'
  BY <1>a, <1>c DEF IInv, NothingEarly, IrqHandlerEnds
<1>4. ThreadState'
  BY DEF IInv, ThreadState, Installing, InNewTask, IrqHandlerEnds
<1>5. TaskState'
  BY DEF IInv, TaskState, FirstFreeSlot
<1>6. OneTickOnItsWay'
  BY <1>a, <1>c DEF IInv, OneTickOnItsWay, IrqHandlerEnds
<1>7. TableIsQueue'
  BY DEF IInv, TableIsQueue
<1> QED
  BY <1>1, <1>2, <1>3, <1>4, <1>5, <1>6, <1>7 DEF IInv

LEMMA StartedFacts ==
  ASSUME ThreadState, Started
  PROVE  ~Installing /\ sched_tasks[0] # NULL /\ pc # "sched_install"
BY DEF ThreadState, Started, Installing, InNewTask

LEMMA ScheduleSwitchesKeeps ==
  ASSUME IInv, ScheduleSwitches, UNCHANGED <<table, cpu, thread, pc, locals>>
  PROVE  IInv'
<1> USE DEF interrupt_vars, apic_vars, sched_vars, table, turns, locals
<1>0. PICK i \in Indices :
        sched_tasks[i] # NULL /\ sched_tasks[i] = current_task'
  <2>1. ToArm # {}
    BY Replaced, Shape DEF IInv, TypeOK, ScheduleSwitches, At, ToArm
  <2>2. Started
    BY <2>1 DEF IInv, NothingEarly
  <2> QED
    BY <2>2, StartedFacts, NextTaskIsInTable DEF IInv, ScheduleSwitches
<1> DEFINE g == [Innermost EXCEPT !.pc = "eoi", !.to = current_task']
<1>a. /\ Innermost \in Frame
      /\ g \in Frame /\ g.pc = "eoi" /\ g.vector = Innermost.vector
      /\ frames' = [frames EXCEPT ![Len(frames)] = g]
  <2>1. Innermost \in Frame /\ Innermost = frames[Len(frames)]
    BY Shape DEF IInv, TypeOK, ScheduleSwitches, At, Innermost
  <2>2. current_task' \in Contexts
    BY <1>0, SchedulerAssumption DEF IInv, TypeOK
  <2> QED
    BY <2>1, <2>2, Shape DEF IInv, TypeOK, ScheduleSwitches, At, Frame
<1> HIDE DEF g
<1>b. /\ frames # <<>>
      /\ frames' # <<>> /\ Len(frames') = 1 /\ frames' \in Seq(Frame)
      /\ Innermost' = g
      /\ ToArm = {1} /\ ToArm' = {1}
  BY <1>a, Replaced DEF IInv, TypeOK, ScheduleSwitches, Pcs, Arming
<1>c. Started /\ Started'
  BY <1>b DEF IInv, NothingEarly, Started
<1>d. current_task' \in Blocks /\ sched_quantum' = QUANTUM
  BY <1>0 DEF IInv, TypeOK, TableIsQueue, ScheduleSwitches
<1>1. TypeOK'
  BY <1>b, <1>d, SchedulerAssumption DEF IInv, TypeOK, InterruptTypeOK,
     ScheduleSwitches, lapic_stop_timer
<1>2. HandlersDoNotNest'
  BY <1>a, <1>b DEF IInv, HandlersDoNotNest, At, ScheduleSwitches
<1>3. NothingEarly'
  BY <1>b, <1>c DEF IInv, NothingEarly, ScheduleSwitches
<1>4. ThreadState'
  BY <1>c, StartedFacts DEF IInv, ThreadState, Installing, InNewTask,
     ScheduleSwitches
<1>5. TaskState'
  BY DEF IInv, TaskState, FirstFreeSlot
<1>6. OneTickOnItsWay'
  BY <1>b, <1>c DEF IInv, OneTickOnItsWay, ScheduleSwitches, lapic_stop_timer
<1>7. TableIsQueue'
  BY <1>0 DEF IInv, TableIsQueue
<1> QED
  BY <1>1, <1>2, <1>3, <1>4, <1>5, <1>6, <1>7 DEF IInv

LEMMA ReturnFromInterruptKeeps ==
  ASSUME IInv, ReturnFromInterrupt, UNCHANGED sched_vars
  PROVE  IInv'
<1> USE DEF interrupt_vars, apic_vars, sched_vars, table, turns, locals
<1>a. /\ frames # <<>> /\ frames' = <<>>
      /\ ToArm = {} /\ ToArm' = {}
  <2>1. frames # <<>> /\ Len(frames) = 1 /\ frames = <<Innermost>> /\ Innermost.pc = "iret"
    BY Shape DEF IInv, TypeOK, ReturnFromInterrupt, At
  <2>2. frames' = <<>>
    BY <2>1, SubSeqEmpty DEF ReturnFromInterrupt
  <2> QED
    BY <2>1, <2>2 DEF ToArm
<1>b. isr' = {}
  BY DEF IInv, HandlersDoNotNest, ReturnFromInterrupt
<1>c. Started' = Started
  BY DEF Started
<1>1. TypeOK'
  BY <1>a DEF IInv, TypeOK, InterruptTypeOK, ReturnFromInterrupt
<1>2. HandlersDoNotNest'
  BY <1>a, <1>b DEF HandlersDoNotNest, At
<1>3. NothingEarly'
  BY <1>a, <1>c DEF IInv, NothingEarly, ReturnFromInterrupt
<1>4. ThreadState'
  BY DEF IInv, ThreadState, Installing, InNewTask, ReturnFromInterrupt
<1>5. TaskState'
  BY DEF IInv, TaskState, FirstFreeSlot
<1>6. OneTickOnItsWay'
  BY <1>a, <1>c DEF IInv, OneTickOnItsWay, ReturnFromInterrupt
<1>7. TableIsQueue'
  BY DEF IInv, TableIsQueue
<1> QED
  BY <1>1, <1>2, <1>3, <1>4, <1>5, <1>6, <1>7 DEF IInv

LEMMA ReturnToTaskKeeps ==
  ASSUME IInv, ReturnToTask
  PROVE  IInv'
<1> USE DEF interrupt_vars, apic_vars, sched_vars, table, turns, locals
<1>a. /\ frames # <<>> /\ frames' = <<>>
      /\ Innermost.to \in Blocks
      /\ ToArm = {} /\ ToArm' = {}
  <2>1. frames # <<>> /\ Len(frames) = 1 /\ frames = <<Innermost>>
        /\ Innermost.pc = "iret" /\ Innermost \in Frame
    BY Shape DEF IInv, TypeOK, ReturnToTask, At
  <2>2. Innermost.to \in Blocks
    BY <2>1, SchedulerAssumption DEF ReturnToTask, Frame
  <2>3. frames' = <<>>
    BY DEF ReturnToTask
  <2> QED
    BY <2>1, <2>2, <2>3 DEF ToArm
<1>b. isr' = {}
  BY DEF IInv, HandlersDoNotNest, ReturnToTask
<1>c. Started /\ Started'
  BY <1>a, SchedulerAssumption DEF IInv, NothingEarly, ReturnToTask, Started
<1>1. TypeOK'
  BY <1>a, SchedulerAssumption DEF IInv, TypeOK, InterruptTypeOK,
     ReturnToTask, LeaveNewTask, Indices
<1>2. HandlersDoNotNest'
  BY <1>a, <1>b DEF HandlersDoNotNest, At
<1>3. NothingEarly'
  BY <1>a, <1>c DEF IInv, NothingEarly, ReturnToTask
<1>4. ThreadState'
  BY <1>a, <1>c, StartedFacts, SchedulerAssumption DEF IInv, NothingEarly,
     ThreadState, Installing, InNewTask, ReturnToTask
<1>5. TaskState'
  BY DEF TaskState, ReturnToTask
<1>6. OneTickOnItsWay'
  BY <1>a, <1>c DEF IInv, OneTickOnItsWay, ReturnToTask
<1>7. TableIsQueue'
  BY DEF IInv, TableIsQueue, ReturnToTask
<1> QED
  BY <1>1, <1>2, <1>3, <1>4, <1>5, <1>6, <1>7 DEF IInv

-----------------------------------------------------------------------------
(***************************************************************************)
(* Interrupts and devices.                                                 *)
(***************************************************************************)
LEMMA DeliverKeeps ==
  ASSUME IInv, Deliver, UNCHANGED sched_vars
  PROVE  IInv'
<1> USE DEF interrupt_vars, apic_vars, sched_vars, table, turns, locals
<1> DEFINE v == Highest(irr)
           g == [vector |-> v, pc |-> irq_handlers[v], to |-> Interrupted]
<1>0. v \in Vectors /\ v \in irr
  BY HighestIsAMember DEF IInv, TypeOK, InterruptTypeOK, Deliver
<1>a. frames = <<>> /\ isr = {} /\ ToArm = {}
  BY NoFrame DEF IInv, HandlersDoNotNest, Deliver
<1>b. /\ irr' = irr \ {v} /\ isr' = {v} /\ interrupt_flag' = FALSE
      /\ frames' = <<g>>
  BY <1>a DEF Deliver, Gate
<1>c. g \in Frame /\ g.vector = v /\ g.pc = irq_handlers[v] /\ g.to = Interrupted
      /\ g.pc # "iret"
  BY <1>0 DEF IInv, TypeOK, InterruptTypeOK, Frame
<1> HIDE DEF v, g
<1>d. /\ frames' # <<>> /\ Len(frames') = 1 /\ frames' \in Seq(Frame)
      /\ Innermost' = g
      /\ ToArm' = IF g.pc \in Arming THEN {1} ELSE {}
  BY <1>b, <1>c, OneFrame DEF Innermost, ToArm, Arming
<1>e. Started' = Started
  BY DEF Started
<1>f. /\ v = PIT => ToArm' = {}
      /\ v = SCHED => SCHED \notin irr'
      /\ v = PIT => (SCHED \in irr' <=> SCHED \in irr)
      /\ Started /\ v = SCHED => ToArm' = {1}
  BY <1>b, <1>c, <1>d, VectorFacts DEF IInv, NothingEarly, Arming
<1>1. TypeOK'
  BY <1>0, <1>b, <1>d DEF IInv, TypeOK, InterruptTypeOK, Deliver
<1>2. HandlersDoNotNest'
  BY <1>b, <1>c, <1>d DEF HandlersDoNotNest, At
<1>3. NothingEarly'
  BY <1>0, <1>c, <1>d, <1>e, <1>f DEF IInv, NothingEarly, Deliver, Vectors
<1>4. ThreadState'
  BY DEF IInv, ThreadState, Installing, InNewTask, Deliver
<1>5. TaskState'
  BY DEF IInv, TaskState, FirstFreeSlot
<1>6. OneTickOnItsWay'
  BY <1>0, <1>a, <1>e, <1>f DEF IInv, OneTickOnItsWay, Deliver, Vectors
<1>7. TableIsQueue'
  BY DEF IInv, TableIsQueue
<1> QED
  BY <1>1, <1>2, <1>3, <1>4, <1>5, <1>6, <1>7 DEF IInv

LEMMA TimerExpiresKeeps ==
  ASSUME IInv, TimerExpires, UNCHANGED sched_vars
  PROVE  IInv'
<1> USE DEF interrupt_vars, apic_vars, sched_vars, table, turns, locals
<1>a. ToArm' = ToArm /\ Started' = Started
  BY DEF ToArm, Started, TimerExpires
<1>b. Started /\ ToArm = {}
  BY DEF IInv, NothingEarly, OneTickOnItsWay, TimerExpires
<1>1. TypeOK'
  BY DEF IInv, TypeOK, InterruptTypeOK, TimerExpires, Vectors
<1>2. HandlersDoNotNest'
  BY DEF IInv, HandlersDoNotNest, At, Innermost, TimerExpires
<1>3. NothingEarly'
  BY <1>a, <1>b DEF IInv, NothingEarly, Innermost, TimerExpires
<1>4. ThreadState'
  BY DEF IInv, ThreadState, Installing, InNewTask, TimerExpires
<1>5. TaskState'
  BY DEF IInv, TaskState, FirstFreeSlot
<1>6. OneTickOnItsWay'
  BY <1>a, <1>b DEF OneTickOnItsWay, TimerExpires
<1>7. TableIsQueue'
  BY DEF IInv, TableIsQueue
<1> QED
  BY <1>1, <1>2, <1>3, <1>4, <1>5, <1>6, <1>7 DEF IInv

LEMMA PitTicksKeeps ==
  ASSUME IInv, PitTicks, UNCHANGED sched_vars
  PROVE  IInv'
<1> USE DEF interrupt_vars, apic_vars, sched_vars, table, turns, locals
<1>a. ToArm' = ToArm /\ Started' = Started
  BY DEF ToArm, Started, PitTicks
<1>b. SCHED \in irr' <=> SCHED \in irr
  BY VectorFacts DEF PitTicks
<1>1. TypeOK'
  BY DEF IInv, TypeOK, InterruptTypeOK, PitTicks, Vectors
<1>2. HandlersDoNotNest'
  BY DEF IInv, HandlersDoNotNest, At, Innermost, PitTicks
<1>3. NothingEarly'
  BY <1>a, <1>b DEF IInv, NothingEarly, Innermost, PitTicks
<1>4. ThreadState'
  BY DEF IInv, ThreadState, Installing, InNewTask, PitTicks
<1>5. TaskState'
  BY DEF IInv, TaskState, FirstFreeSlot
<1>6. OneTickOnItsWay'
  BY <1>a, <1>b DEF IInv, OneTickOnItsWay, PitTicks
<1>7. TableIsQueue'
  BY DEF IInv, TableIsQueue
<1> QED
  BY <1>1, <1>2, <1>3, <1>4, <1>5, <1>6, <1>7 DEF IInv

LEMMA StutterKeeps ==
  ASSUME IInv, UNCHANGED vars
  PROVE  IInv'
<1> USE DEF vars, interrupt_vars, apic_vars, sched_vars, table, turns, locals
<1>1. TypeOK' /\ HandlersDoNotNest'
  BY DEF IInv, TypeOK, InterruptTypeOK, HandlersDoNotNest, At, Innermost
<1>2. NothingEarly' /\ OneTickOnItsWay'
  BY DEF IInv, NothingEarly, Innermost, OneTickOnItsWay, Started, ToArm
<1>3. ThreadState' /\ TaskState'
  BY DEF IInv, ThreadState, Installing, InNewTask, TaskState, FirstFreeSlot
<1>4. TableIsQueue'
  BY DEF IInv, TableIsQueue
<1> QED
  BY <1>1, <1>2, <1>3, <1>4 DEF IInv

-----------------------------------------------------------------------------
LEMMA InitEstablishes == Init => IInv
<1> SUFFICES ASSUME Init
             PROVE  IInv
  OBVIOUS
<1> USE DEF Init, InterruptInit
<1>a. frames = <<>> /\ ToArm = {} /\ ~Started
  BY DEF ToArm, Started
<1>1. TypeOK
  BY SchedulerAssumption DEF TypeOK, InterruptTypeOK, Indices
<1>2. HandlersDoNotNest
  BY DEF HandlersDoNotNest, At
<1>3. NothingEarly
  BY <1>a DEF NothingEarly, Vectors
<1>4. ThreadState /\ TaskState
  BY DEF ThreadState, Installing, InNewTask, TaskState
<1>5. OneTickOnItsWay
  BY <1>a DEF OneTickOnItsWay
<1>6. TableIsQueue
  BY DEF TableIsQueue
<1> QED
  BY <1>1, <1>2, <1>3, <1>4, <1>5, <1>6 DEF IInv

LEMMA NextKeeps == IInv /\ [Next]_vars => IInv'
<1> SUFFICES ASSUME IInv, [Next]_vars
             PROVE  IInv'
  OBVIOUS
<1>1. CASE UNCHANGED vars
  BY <1>1, StutterKeeps
<1>2. CASE ThreadStep
  <2>1. ASSUME NEW b \in Blocks, NEW ctx \in CtxKinds, NewTaskAllocates(b, ctx)
        PROVE  IInv'
    BY <2>1, NewTaskAllocatesKeeps
  <2> QED
    BY <1>2, <2>1, SchedInstallKeeps, NewTaskPanicsKeeps, NewTaskStopsKeeps,
       PanicHaltsKeeps, NewTaskFieldsKeeps, NewTaskStackKeeps,
       NewTaskScansKeeps, NewTaskStoresKeeps, InstallRegistersKeeps,
       MainStartsSchedulerKeeps DEF ThreadStep
<1>3. CASE sched_new_task
  BY <1>3, SchedNewTaskKeeps
<1>4. CASE HandlerStep
  BY <1>4, ScheduleTicksKeeps, ScheduleSwitchesKeeps, ScheduleEndsKeeps,
     ScheduleArmsKeeps, PitHandlerKeeps, IrqHandlerEndsKeeps,
     ReturnFromInterruptKeeps, ReturnToTaskKeeps DEF HandlerStep, sched_schedule
<1>5. CASE Device(Deliver)
  BY <1>5, DeliverKeeps DEF Device
<1>6. CASE Device(TimerExpires)
  BY <1>6, TimerExpiresKeeps DEF Device
<1>7. CASE Device(PitTicks)
  BY <1>7, PitTicksKeeps DEF Device
<1> QED
  BY <1>1, <1>2, <1>3, <1>4, <1>5, <1>6, <1>7 DEF Next

LEMMA IInvHolds == Spec => []IInv
<1>1. Init => IInv
  BY InitEstablishes
<1>2. IInv /\ [Next]_vars => IInv'
  BY NextKeeps
<1> QED
  BY <1>1, <1>2, PTL DEF Spec

-----------------------------------------------------------------------------
(***************************************************************************)
(* The state of sched.c is well typed: in particular the current task is   *)
(* never NULL when its quantum is read (sched.c:59).                       *)
(***************************************************************************)
THEOREM TypeCorrect == Spec => []TypeOK
<1>1. IInv => TypeOK
  BY DEF IInv
<1> QED
  BY <1>1, IInvHolds, PTL

(***************************************************************************)
(* The table never has a gap, a task twice or an incomplete task, however  *)
(* long it is and wherever interrupts come in sched_new_task.              *)
(***************************************************************************)
THEOREM TheTableIsAQueue == Spec => []TableIsQueue
<1>1. IInv => TableIsQueue
  BY DEF IInv
<1> QED
  BY <1>1, IInvHolds, PTL

(***************************************************************************)
(* Once _main has sent the first tick of the scheduler there is exactly    *)
(* one on its way.                                                         *)
(***************************************************************************)
THEOREM TicksNeitherStopNorMultiply == Spec => []OneTickOnItsWay
<1>1. IInv => OneTickOnItsWay
  BY DEF IInv
<1> QED
  BY <1>1, IInvHolds, PTL

(***************************************************************************)
(* A handler ends no interrupt but its own.                                *)
(***************************************************************************)
THEOREM HandlersEndTheirOwn == Spec => EndsItsOwn
<1>1. IInv /\ [Next]_vars =>
        [\A v \in isr \ isr' : frames # <<>> /\ Innermost.vector = v]_vars
  <2> SUFFICES ASSUME IInv, NEW v \in isr \ isr'
               PROVE  frames # <<>> /\ Innermost.vector = v
    OBVIOUS
  <2> QED
    BY DEF IInv, HandlersDoNotNest
<1> QED
  BY <1>1, IInvHolds, PTL DEF Spec, EndsItsOwn

(***************************************************************************)
(* sched.c implements RoundRobin.                                          *)
(***************************************************************************)
LEMMA FunctionIsSequence ==
  ASSUME NEW S, NEW n \in Nat, NEW f \in [1 .. n -> S]
  PROVE  f \in Seq(S) /\ Len(f) = n
OBVIOUS

LEMMA OrderFacts ==
  ASSUME TypeOK
  PROVE  /\ Order \in Seq(Blocks)
         /\ Len(Order) = FirstFreeSlot
         /\ FirstFreeSlot \in 0 .. Slots
         /\ \A i \in 1 .. FirstFreeSlot :
              i - 1 \in Indices /\ Order[i] = sched_tasks[i - 1]
<1>1. FirstFreeSlot \in 0 .. Slots
  BY FirstFree, SchedulerAssumption DEF Indices
<1>2. \A i \in 1 .. FirstFreeSlot :
        i - 1 \in Indices /\ i - 1 < FirstFreeSlot
  BY <1>1, SchedulerAssumption DEF Indices
<1>3. \A i \in 1 .. FirstFreeSlot : sched_tasks[i - 1] \in Blocks
  BY <1>2, FirstFree DEF TypeOK
<1>4. Order \in [1 .. FirstFreeSlot -> Blocks]
  BY <1>3 DEF Order
<1>5. FirstFreeSlot \in Nat
  BY <1>1
<1>6. \A i \in 1 .. FirstFreeSlot : Order[i] = sched_tasks[i - 1]
  BY DEF Order
<1> QED
  BY <1>1, <1>2, <1>4, <1>5, <1>6, FunctionIsSequence

\* The turn is that of the place at which the current task is.
LEMMA TurnFacts ==
  ASSUME TableIsQueue, NEW k \in Indices,
         current_task # NULL, sched_tasks[k] = current_task
  PROVE  Turn = k + 1
<1>1. \A i \in Indices : sched_tasks[i] = current_task => i = k
  BY DEF TableIsQueue, Indices
<1> DEFINE place == CHOOSE i \in Indices : sched_tasks[i] = current_task
<1>2. place = k
  BY <1>1
<1>3. Turn = 1 + place
  BY DEF Turn
<1> HIDE DEF place
<1> QED
  BY <1>2, <1>3 DEF Indices

LEMMA StoresRefines ==
  ASSUME IInv, NewTaskStores
  PROVE  RR!Join(task) \/ UNCHANGED RR!vars
<1> USE DEF interrupt_vars, apic_vars, sched_vars, table, turns, locals,
    Executing
<1>0. /\ task \in Blocks
      /\ \A i \in Indices : sched_tasks[i] # task
      /\ slot = FirstFreeSlot
      /\ current_task' = current_task /\ sched_quantum' = sched_quantum
  BY DEF IInv, TaskState, NewTaskStores
<1>1. CASE slot \notin Indices
  <2>1. sched_tasks' = sched_tasks
    BY <1>1 DEF IInv, TypeOK, NewTaskStores
  <2> QED
    BY <1>0, <2>1 DEF RR!vars, Order, Turn, FirstFreeSlot
<1>2. CASE slot \in Indices
  <2>1. /\ \A i \in Indices : i # slot => sched_tasks'[i] = sched_tasks[i]
        /\ sched_tasks'[slot] = task
        /\ task # NULL /\ slot \in Nat /\ slot < Slots
    BY <1>0, <1>2, SchedulerAssumption DEF NewTaskStores, Indices
  <2>2. \A i \in Indices : sched_tasks'[i] = NULL <=> slot + 1 <= i
    <3>1. ASSUME NEW i \in Indices
          PROVE  sched_tasks'[i] = NULL <=> slot + 1 <= i
      <4>1. i \in Nat
        BY DEF Indices
      <4>2. sched_tasks[i] # NULL <=> i < slot
        BY <1>0, QueueIsPrefix DEF IInv
      <4> QED
        BY <2>1, <4>1, <4>2
    <3> QED
      BY <3>1
  <2>3. FirstFreeSlot' = slot + 1
    <3> DEFINE open == {i \in Indices : sched_tasks'[i] = NULL}
    <3>1. FirstFreeSlot' = IF open = {} THEN Slots
                           ELSE CHOOSE i \in open : \A j \in open : i <= j
      BY DEF FirstFreeSlot
    <3>2. CASE slot + 1 \in Indices
      <4>1. slot + 1 \in open /\ \A j \in open : slot + 1 <= j
        BY <2>2, <3>2 DEF Indices
      <4>2. \A i \in open : i \in Nat
        BY DEF Indices
      <4>3. \A i \in open : (\A j \in open : i <= j) => i = slot + 1
        BY <4>1, <4>2
      <4> HIDE DEF open
      <4> QED
        BY <3>1, <4>1, <4>3
    <3>3. CASE slot + 1 \notin Indices
      <4>1. slot + 1 = Slots
        BY <2>1, <3>3, SchedulerAssumption DEF Indices
      <4>2. open = {}
        BY <2>2, <4>1, SchedulerAssumption DEF Indices
      <4> QED
        BY <3>1, <4>1, <4>2
    <3> QED
      BY <3>2, <3>3
  <2>4. Order' = Append(Order, task)
    <3>1. /\ Order \in Seq(Blocks) /\ Len(Order) = slot
          /\ \A i \in 1 .. slot : i - 1 \in Indices /\ Order[i] = sched_tasks[i - 1]
      BY <1>0, OrderFacts DEF IInv
    <3>2. /\ Append(Order, task) \in Seq(Blocks)
          /\ Len(Append(Order, task)) = slot + 1
          /\ \A i \in 1 .. slot : Append(Order, task)[i] = Order[i]
          /\ Append(Order, task)[slot + 1] = task
      BY <1>0, <3>1, AppendProperties
    <3>3. Order' = [i \in 1 .. (slot + 1) |-> sched_tasks'[i - 1]]
      BY <2>3 DEF Order
    <3>4. \A i \in 1 .. (slot + 1) :
            sched_tasks'[i - 1] = Append(Order, task)[i]
      <4> TAKE i \in 1 .. (slot + 1)
      <4>1. CASE i = slot + 1
        <5>1. i - 1 = slot
          BY <2>1, <4>1
        <5> QED
          BY <2>1, <3>2, <4>1, <5>1
      <4>2. CASE i # slot + 1
        <5>1. i \in 1 .. slot /\ i - 1 # slot
          BY <2>1, <4>2
        <5> QED
          BY <2>1, <3>1, <3>2, <5>1
      <4> QED
        BY <4>1, <4>2
    <3>5. \A i \in 1 .. (slot + 1) : sched_tasks'[i - 1] \in Blocks
      BY <3>2, <3>4, ElementOfSeq
    <3>6. Order' \in [1 .. (slot + 1) -> Blocks] /\ slot + 1 \in Nat
      BY <2>1, <3>3, <3>5
    <3>7. Order' \in Seq(Blocks) /\ Len(Order') = slot + 1
      BY <3>6, FunctionIsSequence
    <3>8. \A i \in 1 .. (slot + 1) : Order'[i] = Append(Order, task)[i]
      BY <3>3, <3>4
    <3> QED
      BY <3>2, <3>7, <3>8, SeqEqual
  <2>5. Turn' = Turn
    <3>1. CASE current_task = NULL
      BY <1>0, <3>1 DEF Turn
    <3>2. CASE current_task # NULL
      <4>1. PICK k \in Indices : sched_tasks[k] = current_task
        BY <3>2 DEF IInv, TableIsQueue
      <4>2. k # slot /\ current_task # task
        BY <1>0, <2>2, <3>2, <4>1, QueueIsPrefix DEF IInv, Indices
      <4>3. \A i \in Indices :
              sched_tasks'[i] = current_task' <=> sched_tasks[i] = current_task
        <5>1. sched_tasks[slot] = NULL
          BY <1>0, <1>2, FirstFree DEF IInv
        <5> QED
          BY <1>0, <2>1, <3>2, <4>2, <5>1
      <4> DEFINE place == CHOOSE i \in Indices : sched_tasks[i] = current_task
                 after == CHOOSE i \in Indices : sched_tasks'[i] = current_task'
      <4>4. Turn = 1 + place /\ Turn' = 1 + after
        BY <1>0, <3>2 DEF Turn
      <4>5. after = place
        BY <4>3
      <4> HIDE DEF place, after
      <4> QED
        BY <4>4, <4>5
    <3> QED
      BY <3>1, <3>2
  <2>6. Len(Order) < Slots /\ \A i \in 1 .. Len(Order) : Order[i] # task
    BY <1>0, <2>1, OrderFacts DEF IInv
  <2> QED
    BY <1>0, <2>4, <2>5, <2>6 DEF RR!Join
<1> QED
  BY <1>1, <1>2

LEMMA SwitchesRefines ==
  ASSUME IInv, IInv', ScheduleSwitches, UNCHANGED <<table, cpu, thread, pc,
         locals>>
  PROVE  RR!TakeTurn
<1> USE DEF interrupt_vars, apic_vars, sched_vars, table, turns, locals
<1>1. sched_quantum = 0
  BY SchedulerAssumption DEF IInv, TypeOK, ScheduleSwitches, TurnLasts
<1>2. sched_tasks[0] # NULL
  <2>1. ToArm # {}
    BY Shape DEF IInv, TypeOK, ScheduleSwitches, At, ToArm
  <2> QED
    BY <2>1, StartedFacts DEF IInv, NothingEarly
<1>3. 0 \in Indices /\ 0 < FirstFreeSlot
  BY <1>2, QueueIsPrefix, SchedulerAssumption DEF IInv, Indices
<1>4. Order # <<>> /\ Len(Order) = FirstFreeSlot /\ Order' = Order
      /\ FirstFreeSlot \in 0 .. Slots
  BY <1>3, OrderFacts DEF IInv, Order, FirstFreeSlot
<1>5. current_task' = sched_get_next_task /\ sched_tasks' = sched_tasks
  BY DEF ScheduleSwitches
<1>6. sched_quantum' = QUANTUM
  <2>1. PICK i \in Indices : sched_tasks[i] # NULL /\ sched_tasks[i] = current_task'
    BY <1>2, <1>5, NextTaskIsInTable DEF IInv
  <2> QED
    BY <2>1 DEF IInv, TableIsQueue, ScheduleSwitches
<1>7. ASSUME NEW k \in Indices, sched_tasks[k] # NULL, current_task' = sched_tasks[k]
      PROVE  Turn' = k + 1
  <2>1. \A i \in Indices : sched_tasks'[i] = current_task' => i = k
    BY <1>5, <1>7 DEF IInv, TableIsQueue, Indices
  <2> DEFINE place == CHOOSE i \in Indices : sched_tasks'[i] = current_task'
  <2>2. place = k
    BY <1>5, <1>7, <2>1
  <2>3. Turn' = 1 + place
    BY <1>7 DEF Turn
  <2> HIDE DEF place
  <2> QED
    BY <2>2, <2>3 DEF Indices
<1>8. Turn' = IF Turn = Len(Order) THEN 1 ELSE Turn + 1
  <2>1. CASE current_task = NULL
    <3>1. Turn = 0 /\ current_task' = sched_tasks[0]
      BY <1>5, <2>1, NextTask DEF Turn, IInv
    <3>2. Turn' = 0 + 1
      BY <1>2, <1>3, <1>7, <3>1
    <3> QED
      BY <1>3, <1>4, <3>1, <3>2
  <2>2. CASE current_task # NULL
    <3>1. PICK k \in Indices : sched_tasks[k] = current_task
      BY <2>2 DEF IInv, TableIsQueue
    <3>2. Turn = k + 1 /\ k < FirstFreeSlot /\ k \in Nat
      BY <2>2, <3>1, TurnFacts, QueueIsPrefix DEF IInv, Indices
    <3>3. CASE k + 1 < FirstFreeSlot
      <4>1. k + 1 \in Indices
        BY <1>4, <3>2, <3>3, SchedulerAssumption DEF Indices
      <4>2. sched_tasks[k + 1] # NULL
        BY <3>3, <4>1, QueueIsPrefix DEF IInv
      <4>3. current_task' = sched_tasks[k + 1]
        BY <1>5, <2>2, <3>1, <3>3, NextTask DEF IInv
      <4>4. Turn' = k + 1 + 1
        BY <1>7, <4>1, <4>2, <4>3
      <4> QED
        BY <1>4, <3>2, <3>3, <4>4
    <3>4. CASE ~(k + 1 < FirstFreeSlot)
      <4>1. current_task' = sched_tasks[0]
        BY <1>5, <2>2, <3>1, <3>4, NextTask DEF IInv
      <4>2. Turn' = 0 + 1
        BY <1>2, <1>3, <1>7, <4>1
      <4> QED
        BY <1>4, <3>2, <3>4, <4>2
    <3> QED
      BY <3>3, <3>4
  <2> QED
    BY <2>1, <2>2
<1> QED
  BY <1>1, <1>4, <1>6, <1>8 DEF RR!TakeTurn

LEMMA Elsewhere ==
  ASSUME UNCHANGED <<sched_tasks, turns>>
  PROVE  UNCHANGED RR!vars
BY DEF RR!vars, turns, Order, Turn, FirstFreeSlot

THEOREM Refinement == Spec => ImplementsRoundRobin
<1>1. Init => RR!Init
  <2> SUFFICES ASSUME Init
               PROVE  RR!Init
    OBVIOUS
  <2>1. TypeOK /\ TableIsQueue
    BY InitEstablishes DEF IInv
  <2>2. FirstFreeSlot = 0
    <3>1. 0 \in Indices /\ sched_tasks[0] = NULL
      BY SchedulerAssumption DEF Init, Indices
    <3> QED
      BY <2>1, <3>1, FirstFree, SchedulerAssumption DEF Indices
  <2>3. Order \in Seq(Blocks) /\ Len(Order) = 0
    BY <2>1, <2>2, OrderFacts
  <2>4. Order = <<>>
    BY <2>3, EmptySeq
  <2> QED
    BY <2>4 DEF RR!Init, Init, Turn
<1>2. IInv /\ IInv' /\ [Next]_vars => [RR!Next]_(RR!vars)
  <2> SUFFICES ASSUME IInv, IInv', [Next]_vars
               PROVE  [RR!Next]_(RR!vars)
    OBVIOUS
  <2> USE DEF interrupt_vars, apic_vars, sched_vars, table, turns, locals
  <2>1. CASE UNCHANGED vars
    BY <2>1, Elsewhere DEF vars
  <2>2. CASE ThreadStep
    <3>1. CASE sched_install
      <4>1. sched_tasks' = sched_tasks
        BY <3>1 DEF sched_install, Executing, IInv, TypeOK, ThreadState
      <4> QED
        BY <3>1, <4>1, Elsewhere DEF sched_install
    <3>2. CASE NewTaskStores
      <4>1. task \in Blocks
        BY <3>2 DEF IInv, TaskState, NewTaskStores, Executing
      <4> QED
        BY <3>2, <4>1, StoresRefines DEF RR!Next
    <3>3. CASE ~sched_install /\ ~NewTaskStores
      BY <2>2, <3>3, Elsewhere DEF ThreadStep, NewTaskAllocates,
         NewTaskPanics, NewTaskStops, PanicHalts,
         NewTaskFields, NewTaskStack, NewTaskScans, InstallRegisters,
         MainStartsScheduler
    <3> QED
      BY <3>1, <3>2, <3>3
  <2>3. CASE sched_new_task
    BY <2>3, Elsewhere DEF sched_new_task
  <2>4. CASE HandlerStep
    <3>1. CASE ScheduleTicks /\ UNCHANGED <<table, cpu, thread, pc, locals>>
      <4>1. Order' = Order /\ Turn' = Turn
        BY <3>1 DEF ScheduleTicks, Order, Turn, FirstFreeSlot
      <4> QED
        BY <3>1, <4>1 DEF ScheduleTicks, TurnLasts, RR!Next, RR!Tick
    <3>2. CASE ScheduleSwitches /\ UNCHANGED <<table, cpu, thread, pc, locals>>
      BY <3>2, SwitchesRefines DEF RR!Next
    <3>3. CASE (ScheduleEnds \/ ScheduleArms) /\ UNCHANGED <<table, cpu, thread, pc, locals>>
      BY <3>3, Elsewhere DEF ScheduleEnds, ScheduleArms
    <3>4. CASE UNCHANGED sched_vars
      BY <3>4, Elsewhere
    <3>5. CASE ReturnToTask
      BY <3>5, Elsewhere DEF ReturnToTask
    <3> QED
      BY <2>4, <3>1, <3>2, <3>3, <3>4, <3>5 DEF HandlerStep, sched_schedule
  <2>5. CASE Device(Deliver) \/ Device(TimerExpires) \/ Device(PitTicks)
    BY <2>5, Elsewhere DEF Device
  <2> QED
    BY <2>1, <2>2, <2>3, <2>4, <2>5 DEF Next
<1> QED
  BY <1>1, <1>2, IInvHolds, PTL DEF Spec, ImplementsRoundRobin, RR!Spec
=============================================================================
