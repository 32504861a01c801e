-------------------------------- MODULE Boot --------------------------------
(***************************************************************************)
(* The boot, kernel/main.c, as far as interrupts can tell: _main installs  *)
(* the interrupt gates, the 8259 controllers, the interval timer, then,    *)
(* with interrupts enabled, takes the timer from the 8259 to the I/O APIC  *)
(* and the local APIC, and sleeps a millisecond by it.  pic.c, pit.c,      *)
(* lapic.c, ioapic.c, and the dispatch of idt.c.                           *)
(*                                                                         *)
(* The devices are external: two 8259 controllers, at ports 0x20 and 0xA0, *)
(* the second behind input 2 of the first and left as the firmware has set *)
(* it; the interval timer, a keyboard, and a device of the second          *)
(* controller; the two APICs, of which only the timer's interrupt matters. *)
(* A machine says which of them there are, and what the MADT (Acpi) says:  *)
(*   apic      whether the processor has a local APIC                      *)
(*   ioapics   in the order of the MADT: id, the id in the device itself   *)
(*             (hwid), its first interrupt (gsi_base) and its last input   *)
(*   isos      the overrides: irq_source and gsi                           *)
(***************************************************************************)
EXTENDS Integers, Sequences

CONSTANTS
  Machines,
  PER_MS     \* 10: the ticks of the interval timer in a millisecond

ASSUME PerMsAssumption == PER_MS \in Nat \ {0}

\* The numbers in the MADT are unsigned.
Ioapic == [id : Nat, hwid : Nat, gsi_base : Nat, last : Nat]
Iso    == [irq_source : Nat, gsi : Nat]

ASSUME MachinesAssumption ==
  \A m \in Machines : /\ m.apic \in BOOLEAN
                      /\ m.ioapics \in Seq(Ioapic)
                      /\ m.isos \in Seq(Iso)

VARIABLES
  machine,
  fate,            \* "up", or what has stopped the kernel
  pc,              \* where _main is
  interrupt_flag,
  idt_entries,     \* whether the gates are loaded
  irq_handlers,    \* that of the interval timer; the others are NULL
  pic,             \* the 8259 controllers, by port
  lapic,           \* the local APIC: "off", "mapped" or "on"
  lapic_enabled,
  apic_irr,        \* whether the APIC has the timer's interrupt requested
  apic_isr,        \* and in service
  unmasked,        \* the inputs of the first I/O APIC that are not masked
  ioapic_enabled,
  serving,         \* the interrupt that is being handled, or None
  left,            \* the ticks that pit_sleep still waits for
  edges            \* ghost: ticks of the timer since the calibration began

controllers == <<pic, lapic, apic_irr, apic_isr, unmasked>>
flags       == <<lapic_enabled, ioapic_enabled, idt_entries, irq_handlers>>
cpu_vars    == <<fate, interrupt_flag, serving>>
sleep_vars  == <<left, edges>>
vars == <<machine, pc, controllers, flags, cpu_vars, sleep_vars>>

None == [irq |-> -1, by |-> "none", vector |-> 0, at |-> "none"]

-----------------------------------------------------------------------------
(***************************************************************************)
(* The 8259: a write to its first port begins an initialisation or ends an *)
(* interrupt, one to its second is the next word of the initialisation or, *)
(* after that, the mask.  The fourth word, ICW4, is taken whatever it is,  *)
(* as QEMU takes it, the machine that src/Makefile runs.  That matters: of *)
(* the two sequences that reach the first controller the fourth word is 4, *)
(* without the bit for the 8086 mode, and a discrete 8259A would not send  *)
(* the vectors that the model has it send.                                 *)
(***************************************************************************)
MASTER == 32
SLAVE  == 160

\* The timer, the keyboard, the second controller; on that, one device.
Inputs == 0 .. 2

Chip == [expects : {"icw2", "icw3", "icw4", "mask"}, base : 0 .. 255,
         icw3 : 0 .. 255, imr : SUBSET Inputs, irr : SUBSET Inputs,
         isr : SUBSET Inputs]

Bits(value) == {b \in Inputs : (value \div 2 ^ b) % 2 = 1}

HighestOf(inputs) == CHOOSE b \in inputs : \A c \in inputs : b <= c

Command(chip, value) ==
  IF value >= 32
  THEN [chip EXCEPT !.isr = IF @ = {} THEN {} ELSE @ \ {HighestOf(@)}]
  ELSE [chip EXCEPT !.expects = "icw2", !.imr = {}, !.irr = {}, !.isr = {}]

Data(chip, value) ==
  CASE chip.expects = "icw2" ->
         [chip EXCEPT !.expects = "icw3", !.base = value - (value % 8)]
    [] chip.expects = "icw3" ->
         [chip EXCEPT !.expects = "icw4", !.icw3 = value]
    [] chip.expects = "icw4" -> [chip EXCEPT !.expects = "mask"]
    [] chip.expects = "mask" -> [chip EXCEPT !.imr = Bits(value)]

outb(chips, port, value) ==
  IF port % 2 = 0
  THEN [chips EXCEPT ![port] = Command(@, value)]
  ELSE [chips EXCEPT ![port - 1] = Data(@, value)]

Offers(chip) ==
  {b \in chip.irr \ chip.imr : \A c \in chip.isr : b < c}

-----------------------------------------------------------------------------
(***************************************************************************)
(* pic.c.                                                                  *)
(***************************************************************************)
PIC1 == 32
PIC2 == 32

\* pic.c writes to both controllers by turns, to the first or second port.
Both(chips, offset, first, second) ==
  outb(outb(chips, PIC1 + offset, first), PIC2 + offset, second)

\* What pic_install, pic_disable and pic_eoi make of the controllers.
Installed(chips) ==
  LET icw1 == Both(chips, 0, 17, 17)
      icw2 == Both(icw1, 1, 32, 40)
      icw3 == Both(icw2, 1, 4, 2)
      icw4 == Both(icw3, 1, 1, 1)
  IN  Both(icw4, 1, 0, 0)

Disabled(chips) == Both(Both(chips, 1, 255, 255), 0, 32, 32)

\* The number is that of the vector, never below 32.
pic_eoi(chips, no) ==
  outb(IF no >= 8 THEN outb(chips, PIC2, 32) ELSE chips, PIC1, 32)

(***************************************************************************)
(* ioapic.c: which input the interrupt of the timer is redirected from.    *)
(* Only the first I/O APIC is mapped; to read another is a page fault.     *)
(***************************************************************************)
Gsi(irq) ==
  LET sources == {n \in 1 .. Len(machine.isos) :
                    machine.isos[n].irq_source = irq}
  IN  IF sources = {} THEN irq ELSE machine.isos[HighestOf(sources)].gsi

\* Mutant: the last input is taken for their number, and then included.
CoversOneMore(ioapic, gsi) == gsi <= ioapic.gsi_base + ioapic.last + 1

\* ioapic_gsi_count is the last input, and not their number.
Covers(ioapic, gsi) == ioapic.gsi_base + ioapic.last > gsi

ioapic_get_gsi(gsi) ==
  LET below == {n \in 1 .. Len(machine.ioapics) :
                  machine.ioapics[n].gsi_base <= gsi}
  IN  IF 1 \in below /\ Covers(machine.ioapics[1], gsi) THEN "found"
      ELSE IF below \ {1} # {} THEN "fault"
      ELSE "NULL"

-----------------------------------------------------------------------------
(***************************************************************************)
(* _main, and the functions it calls, in their order.  The steps are as    *)
(* large as interrupts between them leave unnoticed: they are still off in *)
(* pic_install, and pic_disable begins with the write that masks them.     *)
(***************************************************************************)
Order ==
  [start          |-> "idt_install",
   idt_install    |-> "pic_install",
   pic_install    |-> "pit_install",
   pit_install    |-> "pmm_install",
   pmm_install    |-> "vmm_install",
   vmm_install    |-> "malloc_init",
   malloc_init    |-> "acpi_install",
   acpi_install   |-> "cpu_check_apic",
   cpu_check_apic |-> "pic_disable",
   pic_disable    |-> "vmm_map",
   vmm_map        |-> "LAPIC_SIV",
   LAPIC_SIV      |-> "lapic_enabled",
   lapic_enabled  |-> "ioapic_install",
   ioapic_install |-> "ioapic_enabled",
   ioapic_enabled |-> "pit_reinstall",
   pit_reinstall  |-> "INITCNT",
   INITCNT        |-> "pit_sleep",
   pit_sleep      |-> "CURCNT",
   CURCNT         |-> "sched_install"]

\* Mutants: steps in another order, and one that is forgotten.
PicBeforeIdt(step) ==
  [Order EXCEPT !.start = "pic_install", !.pic_install = "idt_install",
                !.idt_install = "pit_install"][step]
FlagBeforeDisable(step) ==
  [Order EXCEPT !.cpu_check_apic = "vmm_map", !.lapic_enabled = "pic_disable",
                !.pic_disable = "ioapic_install"][step]
WithoutDisable(step) == [Order EXCEPT !.cpu_check_apic = "vmm_map"][step]
ReinstallBeforeFlag(step) ==
  [Order EXCEPT !.ioapic_install = "pit_reinstall",
                !.pit_reinstall = "ioapic_enabled",
                !.ioapic_enabled = "INITCNT"][step]

After(step) == Order[step]

Continues(step) == pc' = After(step)

\* "hlt" is the next instruction, then _main is "halted"; or it is "endless".
Steps == {"idt_install", "pic_install", "pit_install", "pmm_install",
          "vmm_install", "malloc_init", "acpi_install", "cpu_check_apic",
          "pic_disable", "vmm_map", "LAPIC_SIV", "lapic_enabled",
          "ioapic_install", "ioapic_enabled", "pit_reinstall", "INITCNT",
          "pit_sleep", "while", "hlt", "halted", "CURCNT", "sched_install",
          "endless"}

Inter == [irq : Inputs, by : {"pic", "apic"}, vector : 0 .. 255,
          at : {"handler", "eoi"}]

Pins == 0 .. machine.ioapics[1].last

TypeOK ==
  /\ machine \in Machines
  /\ fate \in {"up", "panic", "ubsan", "fault", "wild", "exception"}
  /\ pc \in Steps
  /\ interrupt_flag \in BOOLEAN
  /\ idt_entries \in BOOLEAN
  /\ irq_handlers \in {"NULL", "pit_handler"}
  /\ pic \in [{MASTER, SLAVE} -> Chip]
  /\ lapic \in {"off", "mapped", "on"}
  /\ {lapic_enabled, ioapic_enabled, apic_irr, apic_isr} \subseteq BOOLEAN
  /\ IF machine.ioapics = <<>> THEN unmasked = {} ELSE unmasked \subseteq Pins
  /\ serving \in Inter \union {None}
  /\ left \in 0 .. PER_MS
  /\ edges \in 0 .. PER_MS

\* entry.S has disabled interrupts.  The firmware has given the controllers
\* the vectors 8 and 112, and used them.
Init ==
  /\ machine \in Machines
  /\ fate = "up"
  /\ pc = After("start")
  /\ interrupt_flag = FALSE
  /\ idt_entries = FALSE
  /\ irq_handlers = "NULL"
  /\ \E irr \in SUBSET {0, 1} :
       pic = [p \in {MASTER, SLAVE} |->
                [expects |-> "mask", base |-> IF p = MASTER THEN 8 ELSE 112,
                 icw3 |-> IF p = MASTER THEN 4 ELSE 2, imr |-> {}, isr |-> {},
                 irr |-> IF p = MASTER THEN irr ELSE {}]]
  /\ lapic = "off"
  /\ lapic_enabled = FALSE
  /\ apic_irr = FALSE
  /\ apic_isr = FALSE
  /\ unmasked = {}
  /\ ioapic_enabled = FALSE
  /\ serving = None
  /\ left = 0
  /\ edges = 0

Executing(step) == fate = "up" /\ serving = None /\ pc = step

Stops(why) ==
  /\ fate' = why
  /\ UNCHANGED <<machine, pc, controllers, flags, interrupt_flag, serving,
                 sleep_vars>>

idt_install ==
  /\ Executing("idt_install")
  /\ idt_entries' = TRUE
  /\ Continues("idt_install")
  /\ UNCHANGED <<machine, controllers, lapic_enabled, ioapic_enabled,
                 irq_handlers, cpu_vars, sleep_vars>>

\* Its last instruction is sti.
pic_install ==
  /\ Executing("pic_install")
  /\ pic' = Installed(pic)
  /\ interrupt_flag' = TRUE
  /\ Continues("pic_install")
  /\ UNCHANGED <<machine, lapic, apic_irr, apic_isr, unmasked, flags, fate,
                 serving, sleep_vars>>

pit_install ==
  /\ Executing("pit_install")
  /\ irq_handlers' = "pit_handler"
  /\ Continues("pit_install")
  /\ UNCHANGED <<machine, controllers, lapic_enabled, ioapic_enabled,
                 idt_entries, cpu_vars, sleep_vars>>

\* What PMM, VmmInstall, KernelHeap and Acpi model.  Interrupts do not notice.
InstallsMemory ==
  \E step \in {"pmm_install", "vmm_install", "malloc_init", "acpi_install"} :
    /\ Executing(step)
    /\ Continues(step)
    /\ UNCHANGED <<machine, controllers, flags, cpu_vars, sleep_vars>>

\* How vmm_map, and pmm_alloc in it, may fail to return: no page is found, the
\* page is beyond the identity mapping, the search leaves the bitmap.
MapEnds == {"panic", "fault", "wild"}

\* How a function that installs memory, or maps the registers of an APIC, may
\* stop the kernel.  Most of all acpi_install: an XSDT is a page fault.
Ends ==
  [pmm_install    |-> {"panic", "ubsan"},
   vmm_install    |-> MapEnds,
   malloc_init    |-> MapEnds,
   acpi_install   |-> MapEnds \union {"ubsan"},
   vmm_map        |-> MapEnds,
   ioapic_install |-> MapEnds]

InstallStops ==
  \E step \in DOMAIN Ends :
    /\ Executing(step)
    /\ step = "ioapic_install" => machine.ioapics # <<>>
    /\ \E why \in Ends[step] : Stops(why)

\* A region or a frame buffer whose end wraps around, an entry of no length.
InstallLoops ==
  /\ \E step \in {"pmm_install", "vmm_install", "acpi_install"} : Executing(step)
  /\ pc' = "endless"
  /\ UNCHANGED <<machine, controllers, flags, cpu_vars, sleep_vars>>

(***************************************************************************)
(* lapic_install.                                                          *)
(***************************************************************************)
cpu_check_apic ==
  /\ Executing("cpu_check_apic")
  /\ IF machine.apic THEN Continues("cpu_check_apic") ELSE pc' = "ioapic_install"
  /\ UNCHANGED <<machine, controllers, flags, cpu_vars, sleep_vars>>

pic_disable ==
  /\ Executing("pic_disable")
  /\ pic' = Disabled(pic)
  /\ Continues("pic_disable")
  /\ UNCHANGED <<machine, lapic, apic_irr, apic_isr, unmasked, flags, cpu_vars,
                 sleep_vars>>

LapicMapped ==
  /\ Executing("vmm_map")
  /\ lapic' = "mapped"
  /\ Continues("vmm_map")
  /\ UNCHANGED <<machine, pic, apic_irr, apic_isr, unmasked, flags, cpu_vars,
                 sleep_vars>>

\* Bit 8 of the register switches the local APIC on.
LapicSwitchedOn ==
  /\ Executing("LAPIC_SIV")
  /\ lapic' = "on"
  /\ Continues("LAPIC_SIV")
  /\ UNCHANGED <<machine, pic, apic_irr, apic_isr, unmasked, flags, cpu_vars,
                 sleep_vars>>

LapicEnabled ==
  /\ Executing("lapic_enabled")
  /\ lapic_enabled' = TRUE
  /\ Continues("lapic_enabled")
  /\ UNCHANGED <<machine, controllers, ioapic_enabled, idt_entries,
                 irq_handlers, cpu_vars, sleep_vars>>

(***************************************************************************)
(* ioapic_install, and pit_reinstall, with which it ends.                  *)
(***************************************************************************)
HasIoapic == machine.ioapics # <<>>

IdMatches == HasIoapic /\ machine.ioapics[1].id = machine.ioapics[1].hwid

\* Without an I/O APIC the first of the list is NULL.
IoapicMissing ==
  /\ Executing("ioapic_install")
  /\ ~HasIoapic
  /\ Stops("ubsan")

IoapicMismatches ==
  /\ Executing("ioapic_install")
  /\ HasIoapic /\ ~IdMatches
  /\ pc' = "INITCNT"
  /\ UNCHANGED <<machine, controllers, flags, cpu_vars, sleep_vars>>

IoapicMasks ==
  /\ Executing("ioapic_install")
  /\ IdMatches
  /\ unmasked' = unmasked \ Pins
  /\ Continues("ioapic_install")
  /\ UNCHANGED <<machine, pic, lapic, apic_irr, apic_isr, flags, cpu_vars,
                 sleep_vars>>

IoapicEnabled ==
  /\ Executing("ioapic_enabled")
  /\ ioapic_enabled' = TRUE
  /\ Continues("ioapic_enabled")
  /\ UNCHANGED <<machine, controllers, lapic_enabled, idt_entries,
                 irq_handlers, cpu_vars, sleep_vars>>

\* irq_register(0, pit_handler).
pit_reinstall ==
  /\ Executing("pit_reinstall")
  /\ ioapic_enabled => ioapic_get_gsi(Gsi(0)) = "found"
  /\ unmasked' = IF ioapic_enabled
                 THEN unmasked \union {Gsi(0) - machine.ioapics[1].gsi_base}
                 ELSE unmasked
  /\ irq_handlers' = "pit_handler"
  /\ Continues("pit_reinstall")
  /\ UNCHANGED <<machine, pic, lapic, apic_irr, apic_isr, lapic_enabled,
                 ioapic_enabled, idt_entries, cpu_vars, sleep_vars>>

\* The registers are written through what memory near NULL says.
RedirectFails ==
  /\ Executing("pit_reinstall")
  /\ ioapic_enabled
  /\ \/ ioapic_get_gsi(Gsi(0)) = "fault" /\ Stops("fault")
     \/ ioapic_get_gsi(Gsi(0)) = "NULL" /\ Stops("wild")

(***************************************************************************)
(* lapic_calibrate_timer.                                                  *)
(***************************************************************************)
CalibrationBegins ==
  /\ Executing("INITCNT")
  /\ lapic # "off"
  /\ edges' = 0
  /\ Continues("INITCNT")
  /\ UNCHANGED <<machine, controllers, flags, cpu_vars, left>>

CalibrationFaults ==
  /\ Executing("INITCNT")
  /\ lapic = "off"
  /\ Stops("fault")

\* Mutant: a tick is taken for a millisecond.
EndOfSleepInTicks(ms) == ms

EndOfSleep(ms) == ms * PER_MS

SleepBegins ==
  /\ Executing("pit_sleep")
  /\ left' = EndOfSleep(1)
  /\ pc' = "while"
  /\ UNCHANGED <<machine, controllers, flags, cpu_vars, edges>>

SleepChecks ==
  /\ Executing("while")
  /\ IF left > 0 THEN pc' = "hlt" ELSE Continues("pit_sleep")
  /\ UNCHANGED <<machine, controllers, flags, cpu_vars, sleep_vars>>

\* A tick that has come since the comparison does not end it; the next does.
Halts ==
  /\ Executing("hlt")
  /\ pc' = "halted"
  /\ UNCHANGED <<machine, controllers, flags, cpu_vars, sleep_vars>>

CalibrationEnds ==
  /\ Executing("CURCNT")
  /\ Continues("CURCNT")
  /\ UNCHANGED <<machine, controllers, flags, cpu_vars, sleep_vars>>

MainStep ==
  \/ idt_install \/ pic_install \/ pit_install
  \/ InstallsMemory \/ InstallStops \/ InstallLoops
  \/ cpu_check_apic \/ pic_disable \/ LapicMapped \/ LapicSwitchedOn
  \/ LapicEnabled \/ IoapicMissing \/ IoapicMismatches \/ IoapicMasks
  \/ IoapicEnabled \/ pit_reinstall \/ RedirectFails
  \/ CalibrationBegins \/ CalibrationFaults
  \/ SleepBegins \/ SleepChecks \/ Halts \/ CalibrationEnds

-----------------------------------------------------------------------------
(***************************************************************************)
(* The devices.  The timer is wired to the input that the MADT says.       *)
(***************************************************************************)
Raise(chip, input) == [chip EXCEPT !.irr = @ \union {input}]

Routed == HasIoapic /\ Gsi(0) - machine.ioapics[1].gsi_base \in unmasked \intersect Pins

PitEdge ==
  /\ pic' = [pic EXCEPT ![MASTER] = Raise(@, 0)]
  /\ apic_irr' = (apic_irr \/ (lapic = "on" /\ Routed))
  /\ edges' = IF edges < PER_MS THEN edges + 1 ELSE edges
  /\ UNCHANGED <<lapic, apic_isr, unmasked, left>>

KeyEdge ==
  /\ pic' = [pic EXCEPT ![MASTER] = Raise(@, 1)]
  /\ UNCHANGED <<lapic, apic_irr, apic_isr, unmasked, sleep_vars>>

\* Unless it waits for the end of an interrupt, it asks the first controller.
SlaveEdge ==
  /\ pic' = [pic EXCEPT
       ![SLAVE] = Raise(@, 0),
       ![MASTER] = IF Offers(pic[SLAVE]) = {} /\ pic[SLAVE].isr = {}
                   THEN Raise(@, 2) ELSE @]
  /\ UNCHANGED <<lapic, apic_irr, apic_isr, unmasked, sleep_vars>>

DeviceStep ==
  /\ fate = "up"
  /\ PitEdge \/ KeyEdge \/ SlaveEdge
  /\ UNCHANGED <<machine, pc, flags, cpu_vars>>

(***************************************************************************)
(* An interrupt, from the 8259 or from the local APIC.  Without gates, and *)
(* at one of the gates of isr_handler, it stops the kernel.                *)
(***************************************************************************)
Acknowledge(chip, input) ==
  [chip EXCEPT !.irr = @ \ {input}, !.isr = @ \union {input}]

Enters(inter) ==
  IF idt_entries /\ inter.vector >= 32
  THEN serving' = inter /\ interrupt_flag' = FALSE /\ fate' = fate
  ELSE fate' = "exception" /\ UNCHANGED <<serving, interrupt_flag>>

MayDeliver == fate = "up" /\ interrupt_flag /\ serving = None

DeliversOwn ==
  /\ MayDeliver
  /\ Offers(pic[MASTER]) # {}
  /\ LET input == HighestOf(Offers(pic[MASTER]))
     IN  /\ input # 2
         /\ pic' = [pic EXCEPT ![MASTER] = Acknowledge(@, input)]
         /\ Enters([irq |-> input, by |-> "pic", at |-> "handler",
                    vector |-> pic[MASTER].base + input])
  /\ UNCHANGED <<machine, pc, lapic, apic_irr, apic_isr, unmasked, flags,
                 sleep_vars>>

\* The vector is that of the second controller.
DeliversSlaves ==
  /\ MayDeliver
  /\ Offers(pic[MASTER]) # {}
  /\ HighestOf(Offers(pic[MASTER])) = 2
  /\ pic' = [p \in {MASTER, SLAVE} |->
               Acknowledge(pic[p], IF p = MASTER THEN 2 ELSE 0)]
  /\ Enters([irq |-> 2, by |-> "pic", at |-> "handler",
             vector |-> pic[SLAVE].base])
  /\ UNCHANGED <<machine, pc, lapic, apic_irr, apic_isr, unmasked, flags,
                 sleep_vars>>

DeliversApics ==
  /\ MayDeliver
  /\ lapic = "on" /\ apic_irr /\ ~apic_isr
  /\ apic_irr' = FALSE
  /\ apic_isr' = TRUE
  /\ Enters([irq |-> 0, by |-> "apic", at |-> "handler", vector |-> 32])
  /\ UNCHANGED <<machine, pc, pic, lapic, unmasked, flags, sleep_vars>>

Deliver == DeliversOwn \/ DeliversSlaves \/ DeliversApics

(***************************************************************************)
(* irq_handler: the handler, if there is one; the end of interrupt, at the *)
(* local APIC once it is enabled; and the return, which ends a hlt.        *)
(***************************************************************************)
Handling(where) == fate = "up" /\ serving.at = where

HandlerRuns ==
  /\ Handling("handler")
  /\ left' = IF serving.vector = 32 /\ irq_handlers = "pit_handler" /\ left > 0
             THEN left - 1 ELSE left
  /\ serving' = [serving EXCEPT !.at = "eoi"]
  /\ UNCHANGED <<machine, pc, controllers, flags, fate, interrupt_flag, edges>>

HandlerEnds ==
  /\ Handling("eoi")
  /\ IF lapic_enabled
     THEN apic_isr' = FALSE /\ pic' = pic
     ELSE pic' = pic_eoi(pic, serving.vector) /\ apic_isr' = apic_isr
  /\ serving' = None
  /\ interrupt_flag' = TRUE
  /\ pc' = IF pc = "halted" THEN "while" ELSE pc
  /\ UNCHANGED <<machine, lapic, apic_irr, unmasked, flags, fate, sleep_vars>>

HandlerStep == HandlerRuns \/ HandlerEnds

-----------------------------------------------------------------------------
Next == MainStep \/ DeviceStep \/ Deliver \/ HandlerStep

(***************************************************************************)
(* The timer ticks on, the processor takes the interrupts that it may take *)
(* and executes their handlers, and they leave _main the time to go on.    *)
(***************************************************************************)
Spec ==
  /\ Init /\ [][Next]_vars
  /\ SF_vars(MainStep)
  /\ WF_vars(PitEdge /\ DeviceStep)
  /\ WF_vars(Deliver)
  /\ WF_vars(HandlerStep)

-----------------------------------------------------------------------------
(***************************************************************************)
(* Between sti and the end of the boot no interrupt comes to the gate of   *)
(* an exception, whatever the firmware has left requested: the gates are   *)
(* there, and the vectors have been moved (main.c:37-39, pic.c:26-39).     *)
(***************************************************************************)
InterruptsAreExpected == fate # "exception"

(***************************************************************************)
(* An interrupt is ended where it came from, although lapic_enabled is set *)
(* with interrupts on: when no handler runs, nothing is left in service at *)
(* the first 8259 or at the local APIC (idt.c:108, lapic.c:70-73).         *)
(***************************************************************************)
NothingLeftInService ==
  serving = None /\ fate = "up" => pic[MASTER].isr = {} /\ ~apic_isr

(***************************************************************************)
(* There is never a second way for the timer's interrupt: it would count   *)
(* every tick twice (lapic.c:70, ioapic.c:91).                             *)
(***************************************************************************)
OneRoute == ~(Routed /\ lapic = "on" /\ 0 \notin pic[MASTER].imr)

(***************************************************************************)
(* When the calibration reads the counter, all of the millisecond but the  *)
(* tick it began in has passed; lapic_ticks is not zero (lapic.c:40-47).   *)
(***************************************************************************)
CalibrationWaits == pc = "CURCNT" => edges >= PER_MS - 1

(***************************************************************************)
(* Once memory and ACPI are installed, the boot ends with the state the    *)
(* scheduler starts in, wherever interrupts come, also between pit_sleep's *)
(* comparison and its hlt: the ticks it waits for arrive.  The machine has *)
(* a local APIC and an I/O APIC, first in the list and of the id the MADT  *)
(* says, to one of whose inputs but the last the timer is wired.  Only the *)
(* vmm_map of the one or the other may fail to return (main.c:44-46).      *)
(***************************************************************************)
Plain(m) ==
  /\ m.apic
  /\ m.ioapics # <<>>
  /\ m.ioapics[1].id = m.ioapics[1].hwid
  /\ Gsi(0) \in m.ioapics[1].gsi_base .. (m.ioapics[1].gsi_base + m.ioapics[1].last - 1)

HandsOver ==
  /\ pc = "sched_install"
  /\ irq_handlers = "pit_handler"
  /\ lapic_enabled /\ lapic = "on"
  /\ Routed
  /\ serving = None => interrupt_flag

MapFails == pc \in {"vmm_map", "ioapic_install"} /\ fate \in MapEnds

BootEnds ==
  Plain(machine) /\ pc = "cpu_check_apic" ~> HandsOver \/ MapFails

(***************************************************************************)
(* "IO base address for slave PIC" (pic.c:6): what pic_install writes to   *)
(* the second controller reaches it.                                       *)
(***************************************************************************)
SlaveIsInstalled == interrupt_flag => pic[SLAVE].base = 40
=============================================================================
