---------------------------- MODULE Boot_proofs ----------------------------
(***************************************************************************)
(* Proofs about Boot, for every machine with a MADT whose numbers are      *)
(* unsigned and any number of ticks to a millisecond.                      *)
(***************************************************************************)
EXTENDS Boot, WellFoundedInduction, TLAPS

\* Where _main is before interrupts are on; before it has changed anything
\* of the APICs; and while lapic_install is at work.
Uninterrupted == {"idt_install", "pic_install"}
PicSteps      == {"pit_install", "pmm_install", "vmm_install", "malloc_init",
                  "acpi_install", "cpu_check_apic", "pic_disable", "endless"}
LapicSteps    == {"vmm_map", "LAPIC_SIV", "lapic_enabled"}
IoapicSteps   == {"ioapic_install", "ioapic_enabled", "pit_reinstall"}
SleepSteps    == {"while", "hlt", "halted"}

\* From here on no interrupt of the first controller is delivered.
PicMasked == pc \in LapicSteps \/ lapic # "off"

\* The firmware's state lasts until pic_install; then the vectors of the
\* first controller begin at 32.  Nothing ever reaches the second.
ControllersState ==
  /\ pic[SLAVE].base = 112
  /\ pc \notin Uninterrupted =>
       /\ pic[MASTER].base = 32
       /\ pic[MASTER].expects = "mask"
  /\ pc # "idt_install" => idt_entries
  /\ pc \in Uninterrupted => ~interrupt_flag /\ serving = None
  /\ PicMasked => pic[MASTER].imr = Inputs /\ serving.by # "pic"

\* The flag that irq_handler looks at is set once the local APIC is on, and
\* that before the I/O APIC has a route to it.
ApicsState ==
  /\ pc \in Uninterrupted \union PicSteps \union {"vmm_map"} => lapic = "off"
  /\ pc = "LAPIC_SIV" => lapic = "mapped"
  /\ pc = "lapic_enabled" => lapic = "on"
  /\ pc \in Uninterrupted \union PicSteps \union LapicSteps => ~lapic_enabled
  /\ pc \notin Uninterrupted \union PicSteps \union LapicSteps =>
       lapic # "mapped" /\ (lapic_enabled <=> lapic = "on")
  /\ pc \in {"pit_sleep", "while", "hlt", "halted", "CURCNT"} => lapic # "off"
  /\ pc \in Uninterrupted \union PicSteps \union LapicSteps \union IoapicSteps =>
       unmasked = {} /\ ~apic_irr /\ ~apic_isr
  /\ apic_irr => lapic_enabled
  /\ ioapic_enabled => IdMatches
  /\ pc \in {"ioapic_enabled", "pit_reinstall"} => IdMatches

\* What is in service is what is being handled, and at the same controller.
ServiceState ==
  /\ serving = None => pic[MASTER].isr = {} /\ ~apic_isr
  /\ serving # None =>
       /\ ~interrupt_flag
       /\ serving.vector >= 32
       /\ serving.by = "pic" => pic[MASTER].isr = {serving.irq} /\ ~apic_isr
       /\ serving.by = "apic" =>
            /\ pic[MASTER].isr = {}
            /\ lapic_enabled

\* Ticks that have come and that pit_handler has not yet seen.
Pending == (IF apic_irr THEN 1 ELSE 0) + (IF serving.at = "handler" THEN 1 ELSE 0)

\* Of the ticks that pit_sleep has counted, only the first may have come
\* before the calibration began.
SleepState ==
  /\ pc \in SleepSteps /\ edges < PER_MS =>
       left + edges + 1 >= PER_MS + Pending
  /\ CalibrationWaits

\* From here on the timer's interrupt has its route.
RoutedSteps == {"INITCNT", "pit_sleep", "while", "hlt", "halted", "CURCNT",
                "sched_install"}

\* What each step hands to the next: the handler, interrupts, and on a plain
\* machine the local APIC, and the route to it.
HandlerState ==
  /\ pc \notin Uninterrupted \union {"pit_install"} => irq_handlers = "pit_handler"
  /\ pc \notin Uninterrupted /\ serving = None => interrupt_flag

\* The kernel is up, or a function has stopped it in one of its ways.
StopsInInstalls == fate # "up" => pc \in DOMAIN Ends /\ fate \in Ends[pc]

RouteState ==
  Plain(machine) =>
    /\ StopsInInstalls
    /\ pc \in IoapicSteps \union RoutedSteps => lapic = "on"
    /\ pc = "pit_reinstall" => ioapic_enabled
    /\ pc \in RoutedSteps => Routed

IInv ==
  /\ TypeOK
  /\ InterruptsAreExpected
  /\ ControllersState
  /\ ApicsState
  /\ ServiceState
  /\ SleepState

-----------------------------------------------------------------------------
(***************************************************************************)
(* What is written to the controllers.                                     *)
(***************************************************************************)
Chips == [{MASTER, SLAVE} -> Chip]

Byte == 0 .. 255

LEMMA ByteFacts ==
  /\ 0 \in Byte /\ 1 \in Byte /\ 2 \in Byte /\ 4 \in Byte
  /\ 17 \in Byte /\ 32 \in Byte /\ 40 \in Byte /\ 255 \in Byte
BY DEF Byte

LEMMA HighestFacts ==
  ASSUME NEW S \in SUBSET Nat, S # {}
  PROVE  /\ HighestOf(S) \in S
         /\ \A c \in S : HighestOf(S) <= c
<1>1. PICK b \in S : \A c \in S : <<c, b>> \notin OpToRel(<, Nat)
  BY NatLessThanWellFounded, WFMin
<1>2. \A c \in S : ~(c < b)
  BY <1>1 DEF OpToRel
<1>3. \A c \in S : b <= c
  BY <1>2
<1> QED
  BY <1>3 DEF HighestOf

LEMMA CommandFacts ==
  ASSUME NEW chip \in Chip
  PROVE  /\ Command(chip, 17) \in Chip
         /\ Command(chip, 17).expects = "icw2"
         /\ Command(chip, 17).isr = {}
         /\ Command(chip, 32) \in Chip
         /\ Command(chip, 32).expects = chip.expects
         /\ Command(chip, 32).base = chip.base
         /\ Command(chip, 32).imr = chip.imr
         /\ Command(chip, 32).irr = chip.irr
         /\ chip.isr = {} => Command(chip, 32).isr = {}
         /\ \A b \in Inputs : chip.isr = {b} => Command(chip, 32).isr = {}
<1>1. Command(chip, 17) =
        [chip EXCEPT !.expects = "icw2", !.imr = {}, !.irr = {}, !.isr = {}]
  BY DEF Command
<1>2. /\ Command(chip, 17) \in Chip
      /\ Command(chip, 17).expects = "icw2"
      /\ Command(chip, 17).isr = {}
  BY <1>1 DEF Chip
<1> DEFINE ended == IF chip.isr = {} THEN {}
                    ELSE chip.isr \ {HighestOf(chip.isr)}
<1>3. Command(chip, 32) = [chip EXCEPT !.isr = ended]
  BY DEF Command
<1>4. chip.isr \in SUBSET Inputs /\ ended \in SUBSET Inputs
  BY DEF Chip
<1>5. \A b \in Inputs : chip.isr = {b} => ended = {}
  BY <1>4, HighestFacts DEF Inputs
<1>6. chip.isr = {} => ended = {}
  OBVIOUS
<1> HIDE DEF ended
<1> QED
  BY <1>2, <1>3, <1>4, <1>5, <1>6 DEF Chip

LEMMA BitsFacts ==
  /\ \A value \in Byte : Bits(value) \in SUBSET Inputs
  /\ Bits(255) = Inputs
  /\ Bits(0) = {}
<1>1. /\ \A b \in Inputs : (255 \div 2 ^ b) % 2 = 1
      /\ \A b \in Inputs : (0 \div 2 ^ b) % 2 = 0
  <2> SUFFICES ASSUME NEW b \in Inputs
               PROVE  (255 \div 2 ^ b) % 2 = 1 /\ (0 \div 2 ^ b) % 2 = 0
    OBVIOUS
  <2>1. b = 0 \/ b = 1 \/ b = 2
    BY DEF Inputs
  <2>2. 2 ^ 0 = 1 /\ 2 ^ 1 = 2 /\ 2 ^ 2 = 4
    OBVIOUS
  <2>3. (255 \div 1) % 2 = 1 /\ (255 \div 2) % 2 = 1 /\ (255 \div 4) % 2 = 1
    OBVIOUS
  <2>4. (0 \div 1) % 2 = 0 /\ (0 \div 2) % 2 = 0 /\ (0 \div 4) % 2 = 0
    OBVIOUS
  <2> QED
    BY <2>1, <2>2, <2>3, <2>4, Zenon
<1> QED
  BY <1>1 DEF Bits

LEMMA ChipFacts ==
  ASSUME NEW chip \in Chip, NEW value \in Byte, NEW inputs \in SUBSET Inputs
  PROVE  /\ [chip EXCEPT !.expects = "icw3", !.base = value] \in Chip
         /\ [chip EXCEPT !.expects = "icw4", !.icw3 = value] \in Chip
         /\ [chip EXCEPT !.expects = "mask"] \in Chip
         /\ [chip EXCEPT !.imr = inputs] \in Chip
BY DEF Chip, Byte

LEMMA DataFacts ==
  ASSUME NEW chip \in Chip, NEW value \in Byte
  PROVE  /\ Data(chip, value) \in Chip
         /\ Data(chip, value).irr = chip.irr
         /\ Data(chip, value).isr = chip.isr
         /\ chip.expects = "icw2" =>
              /\ Data(chip, value).expects = "icw3"
              /\ Data(chip, value).base = value - (value % 8)
         /\ chip.expects # "icw2" => Data(chip, value).base = chip.base
         /\ chip.expects = "icw3" => Data(chip, value).expects = "icw4"
         /\ chip.expects \in {"icw4", "mask"} => Data(chip, value).expects = "mask"
         /\ chip.expects = "mask" => Data(chip, value).imr = Bits(value)
<1>1. /\ chip.expects = "icw2" => Data(chip, value) =
           [chip EXCEPT !.expects = "icw3", !.base = value - (value % 8)]
      /\ chip.expects = "icw3" => Data(chip, value) =
           [chip EXCEPT !.expects = "icw4", !.icw3 = value]
      /\ chip.expects = "icw4" => Data(chip, value) =
           [chip EXCEPT !.expects = "mask"]
      /\ chip.expects = "mask" => Data(chip, value) =
           [chip EXCEPT !.imr = Bits(value)]
  BY DEF Data
<1>2. value - (value % 8) \in Byte
  BY DEF Byte
<1>3. Bits(value) \in SUBSET Inputs
  BY BitsFacts
<1>4. chip.expects \in {"icw2", "icw3", "icw4", "mask"}
  BY DEF Chip
<1>5. /\ [chip EXCEPT !.expects = "icw3", !.base = value - (value % 8)] \in Chip
      /\ [chip EXCEPT !.expects = "icw4", !.icw3 = value] \in Chip
      /\ [chip EXCEPT !.expects = "mask"] \in Chip
      /\ [chip EXCEPT !.imr = Bits(value)] \in Chip
  BY <1>2, <1>3, ChipFacts, Zenon
<1>6. Data(chip, value) \in Chip
  BY <1>1, <1>4, <1>5, Zenon
<1> QED
  BY <1>1, <1>4, <1>6 DEF Chip

LEMMA OutbFacts ==
  ASSUME NEW chips \in Chips, NEW value \in Byte
  PROVE  /\ outb(chips, PIC1, value) =
              [chips EXCEPT ![MASTER] = Command(chips[MASTER], value)]
         /\ outb(chips, PIC1 + 1, value) =
              [chips EXCEPT ![MASTER] = Data(chips[MASTER], value)]
<1>1. PIC1 = MASTER /\ PIC1 % 2 = 0 /\ (PIC1 + 1) % 2 # 0 /\ (PIC1 + 1) - 1 = MASTER
  BY DEF PIC1, MASTER
<1>2. outb(chips, PIC1, value) =
        [chips EXCEPT ![PIC1] = Command(chips[PIC1], value)]
  BY <1>1 DEF outb
<1>3. outb(chips, PIC1 + 1, value) =
        [chips EXCEPT ![(PIC1 + 1) - 1] =
                          Data(chips[(PIC1 + 1) - 1], value)]
  BY <1>1, Zenon DEF outb
<1> QED
  BY <1>1, <1>2, <1>3, Zenon

\* In words of the master's chip: a word to its second or its first port.
LEMMA DataWord ==
  ASSUME NEW chips \in Chips, NEW value \in Byte
  PROVE  /\ outb(chips, PIC1 + 1, value) \in Chips
         /\ outb(chips, PIC1 + 1, value)[MASTER] = Data(chips[MASTER], value)
         /\ outb(chips, PIC1 + 1, value)[SLAVE] = chips[SLAVE]
<1> DEFINE data == Data(chips[MASTER], value)
<1>1. chips[MASTER] \in Chip /\ MASTER # SLAVE
  BY DEF Chips, MASTER, SLAVE
<1>2. data \in Chip
  BY <1>1, DataFacts
<1>3. outb(chips, PIC1 + 1, value) = [chips EXCEPT ![MASTER] = data]
  BY OutbFacts
<1> HIDE DEF data
<1>4. [chips EXCEPT ![MASTER] = data] \in Chips
  BY <1>1, <1>2 DEF Chips
<1>5. /\ [chips EXCEPT ![MASTER] = data][MASTER] = data
      /\ [chips EXCEPT ![MASTER] = data][SLAVE] = chips[SLAVE]
  BY <1>1 DEF Chips
<1> QED
  BY <1>3, <1>4, <1>5 DEF data

LEMMA CommandWord ==
  ASSUME NEW chips \in Chips, NEW value \in {17, 32}
  PROVE  /\ outb(chips, PIC1, value) \in Chips
         /\ outb(chips, PIC1, value)[MASTER] = Command(chips[MASTER], value)
         /\ outb(chips, PIC1, value)[SLAVE] = chips[SLAVE]
<1> DEFINE command == Command(chips[MASTER], value)
<1>1. chips[MASTER] \in Chip /\ MASTER # SLAVE
  BY DEF Chips, MASTER, SLAVE
<1>2. command \in Chip
  BY <1>1, CommandFacts
<1>3. outb(chips, PIC1, value) = [chips EXCEPT ![MASTER] = command]
  <2>1. value \in Byte
    BY ByteFacts
  <2> QED
    BY <2>1, OutbFacts
<1> HIDE DEF command
<1>4. [chips EXCEPT ![MASTER] = command] \in Chips
  BY <1>1, <1>2 DEF Chips
<1>5. /\ [chips EXCEPT ![MASTER] = command][MASTER] = command
      /\ [chips EXCEPT ![MASTER] = command][SLAVE] = chips[SLAVE]
  BY <1>1 DEF Chips
<1> QED
  BY <1>3, <1>4, <1>5 DEF command

\* pic.c's two addresses are one: what it writes by turns goes to one chip.
LEMMA BothData ==
  ASSUME NEW chips \in Chips, NEW first \in Byte, NEW second \in Byte
  PROVE  /\ Both(chips, 1, first, second) \in Chips
         /\ Both(chips, 1, first, second)[MASTER] =
              Data(Data(chips[MASTER], first), second)
         /\ Both(chips, 1, first, second)[SLAVE] = chips[SLAVE]
<1>1. Both(chips, 1, first, second) =
        outb(outb(chips, PIC1 + 1, first), PIC1 + 1, second)
  BY DEF Both, PIC1, PIC2
<1>2. PICK data : data = outb(chips, PIC1 + 1, first)
  OBVIOUS
<1>3. /\ data \in Chips
      /\ data[MASTER] = Data(chips[MASTER], first)
      /\ data[SLAVE] = chips[SLAVE]
  BY <1>2, DataWord
<1> QED
  BY <1>1, <1>2, <1>3, DataWord

LEMMA BothCommand ==
  ASSUME NEW chips \in Chips, NEW value \in {17, 32}
  PROVE  /\ Both(chips, 0, value, value) \in Chips
         /\ Both(chips, 0, value, value)[MASTER] =
              Command(Command(chips[MASTER], value), value)
         /\ Both(chips, 0, value, value)[SLAVE] = chips[SLAVE]
<1>1. Both(chips, 0, value, value) = outb(outb(chips, PIC1, value), PIC1, value)
  BY DEF Both, PIC1, PIC2
<1>2. PICK command : command = outb(chips, PIC1, value)
  OBVIOUS
<1>3. /\ command \in Chips
      /\ command[MASTER] = Command(chips[MASTER], value)
      /\ command[SLAVE] = chips[SLAVE]
  BY <1>2, CommandWord
<1> QED
  BY <1>1, <1>2, <1>3, CommandWord

\* Once the three words of an initialisation have come, a fourth and masks.
LEMMA MaskWord ==
  ASSUME NEW chip \in Chip, NEW value \in Byte, chip.expects \in {"icw4", "mask"}
  PROVE  /\ Data(chip, value) \in Chip
         /\ Data(chip, value).expects = "mask"
         /\ Data(chip, value).base = chip.base
         /\ Data(chip, value).isr = chip.isr
<1>1. Data(chip, value) \in Chip
  BY DataFacts
<1>2. Data(chip, value).expects = "mask"
  BY DataFacts
<1>3. Data(chip, value).base = chip.base
  BY DataFacts
<1>4. Data(chip, value).isr = chip.isr
  BY DataFacts
<1> QED
  BY <1>1, <1>2, <1>3, <1>4

LEMMA MaskWords ==
  ASSUME NEW chips \in Chips, NEW first \in Byte, NEW second \in Byte,
         chips[MASTER].expects = "icw4" \/ chips[MASTER].expects = "mask"
  PROVE  /\ Both(chips, 1, first, second) \in Chips
         /\ Both(chips, 1, first, second)[MASTER].expects = "mask"
         /\ Both(chips, 1, first, second)[MASTER].base = chips[MASTER].base
         /\ Both(chips, 1, first, second)[MASTER].isr = chips[MASTER].isr
         /\ Both(chips, 1, first, second)[SLAVE] = chips[SLAVE]
<1>1. PICK chip \in Chip : chip = chips[MASTER]
  BY DEF Chips
<1>2. PICK once : once = Data(chip, first)
  OBVIOUS
<1>3. PICK twice : twice = Data(once, second)
  OBVIOUS
<1>4. /\ once \in Chip /\ once.expects = "mask"
      /\ once.base = chip.base /\ once.isr = chip.isr
  BY <1>1, <1>2, MaskWord
<1>5. /\ twice.expects = "mask"
      /\ twice.base = chip.base /\ twice.isr = chip.isr
  BY <1>3, <1>4, MaskWord
<1>6. Both(chips, 1, first, second)[MASTER] = twice
  BY <1>1, <1>2, <1>3, BothData
<1> QED
  BY <1>1, <1>5, <1>6, BothData

\* The word that begins an initialisation, twice; the vectors.
LEMMA InitialisationBegins ==
  ASSUME NEW chips \in Chips
  PROVE  /\ Both(chips, 0, 17, 17) \in Chips
         /\ Both(chips, 0, 17, 17)[MASTER].expects = "icw2"
         /\ Both(chips, 0, 17, 17)[MASTER].isr = {}
         /\ Both(chips, 0, 17, 17)[SLAVE] = chips[SLAVE]
<1>1. PICK chip \in Chip : chip = chips[MASTER]
  BY DEF Chips
<1>2. PICK once \in Chip : once = Command(chip, 17)
  BY CommandFacts
<1>3. PICK twice : twice = Command(once, 17)
  OBVIOUS
<1>4. twice.expects = "icw2" /\ twice.isr = {}
  BY <1>3, CommandFacts
<1>5. Both(chips, 0, 17, 17)[MASTER] = twice
  BY <1>1, <1>2, <1>3, BothCommand
<1> QED
  BY <1>4, <1>5, BothCommand

LEMMA VectorsMove ==
  ASSUME NEW chips \in Chips, chips[MASTER].expects = "icw2"
  PROVE  /\ Both(chips, 1, 32, 40) \in Chips
         /\ Both(chips, 1, 32, 40)[MASTER].expects = "icw4"
         /\ Both(chips, 1, 32, 40)[MASTER].base = 32
         /\ Both(chips, 1, 32, 40)[MASTER].isr = chips[MASTER].isr
         /\ Both(chips, 1, 32, 40)[SLAVE] = chips[SLAVE]
<1>1. PICK chip \in Chip : chip = chips[MASTER]
  BY DEF Chips
<1>2. PICK once : once = Data(chip, 32)
  OBVIOUS
<1>3. PICK twice : twice = Data(once, 40)
  OBVIOUS
<1>4. 32 \in Byte /\ 40 \in Byte
  BY ByteFacts
<1>5. 32 - (32 % 8) = 32
  OBVIOUS
<1>6. /\ once \in Chip /\ once.expects = "icw3"
      /\ once.base = 32 /\ once.isr = chip.isr
  BY <1>1, <1>2, <1>4, <1>5, DataFacts
<1>7. /\ twice.expects = "icw4" /\ twice.base = 32 /\ twice.isr = chip.isr
  BY <1>3, <1>4, <1>6, DataFacts
<1>8. Both(chips, 1, 32, 40)[MASTER] = twice
  BY <1>1, <1>2, <1>3, <1>4, BothData
<1> QED
  BY <1>1, <1>4, <1>7, <1>8, BothData

\* The first controller is initialised all the same: the first word of each
\* pair of the initialisation is the second of the pair before.
LEMMA InstalledFacts ==
  ASSUME NEW chips \in Chips
  PROVE  /\ Installed(chips) \in Chips
         /\ Installed(chips)[SLAVE] = chips[SLAVE]
         /\ Installed(chips)[MASTER].base = 32
         /\ Installed(chips)[MASTER].expects = "mask"
         /\ Installed(chips)[MASTER].isr = {}
<1>1. PICK icw1 : icw1 = Both(chips, 0, 17, 17)
  OBVIOUS
<1>2. PICK icw2 : icw2 = Both(icw1, 1, 32, 40)
  OBVIOUS
<1>3. PICK icw3 : icw3 = Both(icw2, 1, 4, 2)
  OBVIOUS
<1>4. PICK icw4 : icw4 = Both(icw3, 1, 1, 1)
  OBVIOUS
<1>5. PICK masks : masks = Both(icw4, 1, 0, 0)
  OBVIOUS
<1>6. Installed(chips) = masks
  BY <1>1, <1>2, <1>3, <1>4, <1>5 DEF Installed
<1>7. /\ icw1 \in Chips /\ icw1[SLAVE] = chips[SLAVE]
      /\ icw1[MASTER].expects = "icw2" /\ icw1[MASTER].isr = {}
  BY <1>1, InitialisationBegins
<1>8. /\ icw2 \in Chips /\ icw2[SLAVE] = chips[SLAVE]
      /\ icw2[MASTER].expects = "icw4" /\ icw2[MASTER].base = 32
      /\ icw2[MASTER].isr = {}
  BY <1>2, <1>7, VectorsMove
<1>9. /\ icw3 \in Chips /\ icw3[SLAVE] = chips[SLAVE]
      /\ icw3[MASTER].expects = "mask" /\ icw3[MASTER].base = 32
      /\ icw3[MASTER].isr = {}
  <2>1. 4 \in Byte /\ 2 \in Byte
    BY ByteFacts
  <2>2. /\ Both(icw2, 1, 4, 2) \in Chips
        /\ Both(icw2, 1, 4, 2)[MASTER].expects = "mask"
        /\ Both(icw2, 1, 4, 2)[MASTER].base = icw2[MASTER].base
        /\ Both(icw2, 1, 4, 2)[MASTER].isr = icw2[MASTER].isr
        /\ Both(icw2, 1, 4, 2)[SLAVE] = icw2[SLAVE]
    BY <1>8, <2>1, MaskWords
  <2> QED
    BY <1>3, <1>8, <2>2
<1>10. /\ icw4 \in Chips /\ icw4[SLAVE] = chips[SLAVE]
       /\ icw4[MASTER].expects = "mask" /\ icw4[MASTER].base = 32
       /\ icw4[MASTER].isr = {}
  <2>1. 1 \in Byte /\ 1 \in Byte
    BY ByteFacts
  <2>2. /\ Both(icw3, 1, 1, 1) \in Chips
        /\ Both(icw3, 1, 1, 1)[MASTER].expects = "mask"
        /\ Both(icw3, 1, 1, 1)[MASTER].base = icw3[MASTER].base
        /\ Both(icw3, 1, 1, 1)[MASTER].isr = icw3[MASTER].isr
        /\ Both(icw3, 1, 1, 1)[SLAVE] = icw3[SLAVE]
    BY <1>9, <2>1, MaskWords
  <2> QED
    BY <1>4, <1>9, <2>2
<1>11. /\ masks \in Chips /\ masks[SLAVE] = chips[SLAVE]
       /\ masks[MASTER].expects = "mask" /\ masks[MASTER].base = 32
       /\ masks[MASTER].isr = {}
  <2>1. 0 \in Byte /\ 0 \in Byte
    BY ByteFacts
  <2>2. /\ Both(icw4, 1, 0, 0) \in Chips
        /\ Both(icw4, 1, 0, 0)[MASTER].expects = "mask"
        /\ Both(icw4, 1, 0, 0)[MASTER].base = icw4[MASTER].base
        /\ Both(icw4, 1, 0, 0)[MASTER].isr = icw4[MASTER].isr
        /\ Both(icw4, 1, 0, 0)[SLAVE] = icw4[SLAVE]
    BY <1>10, <2>1, MaskWords
  <2> QED
    BY <1>5, <1>10, <2>2
<1> QED
  BY <1>6, <1>11

LEMMA DisabledFacts ==
  ASSUME NEW chips \in Chips, chips[MASTER].expects = "mask"
  PROVE  /\ Disabled(chips) \in Chips
         /\ Disabled(chips)[SLAVE] = chips[SLAVE]
         /\ Disabled(chips)[MASTER].base = chips[MASTER].base
         /\ Disabled(chips)[MASTER].expects = "mask"
         /\ Disabled(chips)[MASTER].imr = Inputs
         /\ chips[MASTER].isr = {} => Disabled(chips)[MASTER].isr = {}
<1>1. PICK masked : masked = Both(chips, 1, 255, 255)
  OBVIOUS
<1>2. PICK once : once = Data(chips[MASTER], 255)
  OBVIOUS
<1>3. PICK chip : chip = Data(once, 255)
  OBVIOUS
<1>4. 255 \in Byte /\ chips[MASTER] \in Chip
  BY ByteFacts DEF Chips
<1>5. /\ once \in Chip /\ once.expects = "mask"
      /\ once.base = chips[MASTER].base /\ once.isr = chips[MASTER].isr
  BY <1>2, <1>4, MaskWord
<1>6. /\ chip \in Chip /\ chip.expects = "mask"
      /\ chip.base = chips[MASTER].base /\ chip.isr = chips[MASTER].isr
  BY <1>3, <1>4, <1>5, MaskWord
<1>7. chip.imr = Inputs
  BY <1>3, <1>4, <1>5, DataFacts, BitsFacts
<1>8. masked \in Chips /\ masked[MASTER] = chip /\ masked[SLAVE] = chips[SLAVE]
  BY <1>1, <1>2, <1>3, <1>4, BothData
<1>9. PICK after : after = Command(chip, 32)
  OBVIOUS
<1>10. PICK ended : ended = Command(after, 32)
  OBVIOUS
<1>11. /\ after \in Chip /\ after.base = chip.base /\ after.expects = "mask"
       /\ after.imr = Inputs /\ (chip.isr = {} => after.isr = {})
  BY <1>6, <1>7, <1>9, CommandFacts
<1>12. /\ ended.base = chip.base /\ ended.expects = "mask"
       /\ ended.imr = Inputs /\ (chip.isr = {} => ended.isr = {})
  BY <1>10, <1>11, CommandFacts
<1>13. /\ Both(masked, 0, 32, 32) \in Chips
       /\ Both(masked, 0, 32, 32)[MASTER] = ended
       /\ Both(masked, 0, 32, 32)[SLAVE] = chips[SLAVE]
  BY <1>8, <1>9, <1>10, BothCommand
<1>14. Disabled(chips) = Both(masked, 0, 32, 32)
  BY <1>1 DEF Disabled
<1> QED
  BY <1>6, <1>12, <1>13, <1>14

LEMMA EoiFacts ==
  ASSUME NEW chips \in Chips, NEW no \in Nat, no >= 32
  PROVE  /\ pic_eoi(chips, no) \in Chips
         /\ pic_eoi(chips, no)[SLAVE] = chips[SLAVE]
         /\ pic_eoi(chips, no)[MASTER].base = chips[MASTER].base
         /\ pic_eoi(chips, no)[MASTER].expects = chips[MASTER].expects
         /\ pic_eoi(chips, no)[MASTER].imr = chips[MASTER].imr
         /\ chips[MASTER].isr = {} => pic_eoi(chips, no)[MASTER].isr = {}
         /\ \A b \in Inputs :
              chips[MASTER].isr = {b} => pic_eoi(chips, no)[MASTER].isr = {}
<1> DEFINE chip == chips[MASTER]
<1>1. pic_eoi(chips, no) = Both(chips, 0, 32, 32)
  BY DEF pic_eoi, Both, PIC1, PIC2
<1>2. /\ Both(chips, 0, 32, 32) \in Chips
      /\ Both(chips, 0, 32, 32)[MASTER] = Command(Command(chip, 32), 32)
      /\ Both(chips, 0, 32, 32)[SLAVE] = chips[SLAVE]
  BY BothCommand
<1>3. chip \in Chip
  BY DEF Chips
<1> HIDE DEF chip
<1>4. /\ Command(chip, 32) \in Chip
      /\ Command(chip, 32).base = chip.base
      /\ Command(chip, 32).expects = chip.expects
      /\ Command(chip, 32).imr = chip.imr
      /\ chip.isr = {} => Command(chip, 32).isr = {}
      /\ \A b \in Inputs : chip.isr = {b} => Command(chip, 32).isr = {}
  BY <1>3, CommandFacts
<1>5. /\ Command(Command(chip, 32), 32).base = chip.base
      /\ Command(Command(chip, 32), 32).expects = chip.expects
      /\ Command(Command(chip, 32), 32).imr = chip.imr
      /\ Command(chip, 32).isr = {} => Command(Command(chip, 32), 32).isr = {}
  BY <1>4, CommandFacts
<1> QED
  BY <1>1, <1>2, <1>4, <1>5 DEF chip

-----------------------------------------------------------------------------
(***************************************************************************)
(* The machine, and the order of _main.                                    *)
(***************************************************************************)
LEMMA OrderFacts ==
  /\ After("start") = "idt_install"
  /\ After("idt_install") = "pic_install"
  /\ After("pic_install") = "pit_install"
  /\ After("pit_install") = "pmm_install"
  /\ After("pmm_install") = "vmm_install"
  /\ After("vmm_install") = "malloc_init"
  /\ After("malloc_init") = "acpi_install"
  /\ After("acpi_install") = "cpu_check_apic"
  /\ After("cpu_check_apic") = "pic_disable"
  /\ After("pic_disable") = "vmm_map"
  /\ After("vmm_map") = "LAPIC_SIV"
  /\ After("LAPIC_SIV") = "lapic_enabled"
  /\ After("lapic_enabled") = "ioapic_install"
  /\ After("ioapic_install") = "ioapic_enabled"
  /\ After("ioapic_enabled") = "pit_reinstall"
  /\ After("pit_reinstall") = "INITCNT"
  /\ After("INITCNT") = "pit_sleep"
  /\ After("pit_sleep") = "CURCNT"
  /\ After("CURCNT") = "sched_install"
BY DEF After, Order

LEMMA EndsFacts ==
  /\ DOMAIN Ends = {"pmm_install", "vmm_install", "malloc_init", "acpi_install",
                    "vmm_map", "ioapic_install"}
  /\ \A step \in DOMAIN Ends :
       Ends[step] \subseteq {"panic", "ubsan", "fault", "wild"}
BY DEF Ends, MapEnds

LEMMA MachineFacts ==
  ASSUME machine \in Machines
  PROVE  /\ machine.apic \in BOOLEAN
         /\ HasIoapic => machine.ioapics[1] \in Ioapic
         /\ Gsi(0) \in Nat
<1>1. /\ machine.apic \in BOOLEAN
      /\ machine.ioapics \in Seq(Ioapic)
      /\ machine.isos \in Seq(Iso)
  BY MachinesAssumption, Zenon
<1>2. HasIoapic => machine.ioapics[1] \in Ioapic
  BY <1>1 DEF HasIoapic
<1>3. Gsi(0) \in Nat
  <2> DEFINE sources == {n \in 1 .. Len(machine.isos) :
                           machine.isos[n].irq_source = 0}
  <2>1. Gsi(0) = IF sources = {} THEN 0
                 ELSE machine.isos[HighestOf(sources)].gsi
    BY DEF Gsi
  <2>2. CASE sources = {}
    BY <2>1, <2>2
  <2>3. CASE sources # {}
    <3>1. sources \in SUBSET Nat
      BY <1>1
    <3>3. HighestOf(sources) \in sources
      BY <2>3, <3>1, HighestFacts
    <3>4. HighestOf(sources) \in 1 .. Len(machine.isos)
      BY <3>3
    <3>5. \A k \in 1 .. Len(machine.isos) : machine.isos[k] \in Iso
      BY <1>1
    <3>6. \A k \in 1 .. Len(machine.isos) : machine.isos[k].gsi \in Nat
      BY <3>5 DEF Iso
    <3> HIDE DEF sources
    <3> QED
      BY <2>1, <2>3, <3>4, <3>6, Zenon
  <2> QED
    BY <2>2, <2>3
<1> QED
  BY <1>1, <1>2, <1>3

-----------------------------------------------------------------------------
(***************************************************************************)
(* The steps of _main.                                                     *)
(***************************************************************************)
LEMMA IdtInstallKeeps ==
  ASSUME IInv, idt_install
  PROVE  IInv'
<1> USE DEF IInv, idt_install, Executing, Continues, controllers, flags, cpu_vars,
    sleep_vars
<1>1. TypeOK'
  BY OrderFacts, MachineFacts, PerMsAssumption DEF TypeOK, Steps, Pins
<1>2. InterruptsAreExpected'
  BY DEF InterruptsAreExpected
<1>3. ControllersState'
  BY OrderFacts DEF TypeOK, ControllersState, PicMasked, Uninterrupted, PicSteps,
     LapicSteps, ApicsState, IoapicSteps, ServiceState
<1>4. ApicsState'
  BY OrderFacts DEF TypeOK, ApicsState, IdMatches, HasIoapic, Uninterrupted, PicSteps,
     LapicSteps, IoapicSteps
<1>5. ServiceState'
  BY OrderFacts DEF TypeOK, ServiceState
<1>6. SleepState'
  BY OrderFacts DEF TypeOK, SleepState, SleepSteps, CalibrationWaits, Pending
<1> QED
  BY <1>1, <1>2, <1>3, <1>4, <1>5, <1>6

LEMMA PicInstallKeeps ==
  ASSUME IInv, pic_install
  PROVE  IInv'
<1> USE DEF IInv, pic_install, Executing, Continues, controllers, flags, cpu_vars,
    sleep_vars
<1>0. /\ Installed(pic) \in Chips
      /\ Installed(pic)[SLAVE] = pic[SLAVE]
      /\ Installed(pic)[MASTER].base = 32
      /\ Installed(pic)[MASTER].expects = "mask"
      /\ Installed(pic)[MASTER].isr = {}
  BY InstalledFacts DEF TypeOK, Chips
<1>1. TypeOK'
  BY <1>0, OrderFacts DEF TypeOK, Steps, Pins, Chips
<1>2. InterruptsAreExpected'
  BY DEF InterruptsAreExpected
<1>3. ControllersState'
  BY <1>0, OrderFacts DEF TypeOK, ControllersState, PicMasked, Uninterrupted, PicSteps,
     LapicSteps, ApicsState, IoapicSteps, ServiceState
<1>4. ApicsState'
  BY OrderFacts DEF TypeOK, ApicsState, IdMatches, HasIoapic, Uninterrupted, PicSteps,
     LapicSteps, IoapicSteps
<1>5. ServiceState'
  BY <1>0, OrderFacts DEF TypeOK, ServiceState
<1>6. SleepState'
  BY OrderFacts DEF TypeOK, SleepState, SleepSteps, CalibrationWaits, Pending
<1> QED
  BY <1>1, <1>2, <1>3, <1>4, <1>5, <1>6

LEMMA PitInstallKeeps ==
  ASSUME IInv, pit_install
  PROVE  IInv'
<1> USE DEF IInv, pit_install, Executing, Continues, controllers, flags, cpu_vars,
    sleep_vars
<1>1. TypeOK'
  BY OrderFacts, MachineFacts, PerMsAssumption DEF TypeOK, Steps, Pins
<1>2. InterruptsAreExpected'
  BY DEF InterruptsAreExpected
<1>3. ControllersState'
  BY OrderFacts DEF TypeOK, ControllersState, PicMasked, Uninterrupted, PicSteps,
     LapicSteps, ApicsState, IoapicSteps, ServiceState
<1>4. ApicsState'
  BY OrderFacts DEF TypeOK, ApicsState, IdMatches, HasIoapic, Uninterrupted, PicSteps,
     LapicSteps, IoapicSteps
<1>5. ServiceState'
  BY OrderFacts DEF TypeOK, ServiceState
<1>6. SleepState'
  BY OrderFacts DEF TypeOK, SleepState, SleepSteps, CalibrationWaits, Pending
<1> QED
  BY <1>1, <1>2, <1>3, <1>4, <1>5, <1>6

LEMMA InstallsMemoryKeeps ==
  ASSUME IInv, InstallsMemory
  PROVE  IInv'
<1> USE DEF IInv, InstallsMemory, Executing, Continues, controllers, flags, cpu_vars,
    sleep_vars
<1>1. TypeOK'
  BY OrderFacts, MachineFacts, PerMsAssumption DEF TypeOK, Steps, Pins
<1>2. InterruptsAreExpected'
  BY DEF InterruptsAreExpected
<1>3. ControllersState'
  BY OrderFacts DEF TypeOK, ControllersState, PicMasked, Uninterrupted, PicSteps,
     LapicSteps, ApicsState, IoapicSteps, ServiceState
<1>4. ApicsState'
  BY OrderFacts DEF TypeOK, ApicsState, IdMatches, HasIoapic, Uninterrupted, PicSteps,
     LapicSteps, IoapicSteps
<1>5. ServiceState'
  BY OrderFacts DEF TypeOK, ServiceState
<1>6. SleepState'
  BY OrderFacts DEF TypeOK, SleepState, SleepSteps, CalibrationWaits, Pending
<1> QED
  BY <1>1, <1>2, <1>3, <1>4, <1>5, <1>6

LEMMA InstallLoopsKeeps ==
  ASSUME IInv, InstallLoops
  PROVE  IInv'
<1> USE DEF IInv, InstallLoops, Executing, Continues, controllers, flags, cpu_vars,
    sleep_vars
<1>1. TypeOK'
  BY OrderFacts, MachineFacts, PerMsAssumption DEF TypeOK, Steps, Pins
<1>2. InterruptsAreExpected'
  BY DEF InterruptsAreExpected
<1>3. ControllersState'
  BY OrderFacts DEF TypeOK, ControllersState, PicMasked, Uninterrupted, PicSteps,
     LapicSteps, ApicsState, IoapicSteps, ServiceState
<1>4. ApicsState'
  BY OrderFacts DEF TypeOK, ApicsState, IdMatches, HasIoapic, Uninterrupted, PicSteps,
     LapicSteps, IoapicSteps
<1>5. ServiceState'
  BY OrderFacts DEF TypeOK, ServiceState
<1>6. SleepState'
  BY OrderFacts DEF TypeOK, SleepState, SleepSteps, CalibrationWaits, Pending
<1> QED
  BY <1>1, <1>2, <1>3, <1>4, <1>5, <1>6

LEMMA CpuCheckApicKeeps ==
  ASSUME IInv, cpu_check_apic
  PROVE  IInv'
<1> USE DEF IInv, cpu_check_apic, Executing, Continues, controllers, flags, cpu_vars,
    sleep_vars
<1>1. TypeOK'
  BY OrderFacts, MachineFacts, PerMsAssumption DEF TypeOK, Steps, Pins
<1>2. InterruptsAreExpected'
  BY DEF InterruptsAreExpected
<1>3. ControllersState'
  BY OrderFacts DEF TypeOK, ControllersState, PicMasked, Uninterrupted, PicSteps,
     LapicSteps, ApicsState, IoapicSteps, ServiceState
<1>4. ApicsState'
  BY OrderFacts DEF TypeOK, ApicsState, IdMatches, HasIoapic, Uninterrupted, PicSteps,
     LapicSteps, IoapicSteps
<1>5. ServiceState'
  BY OrderFacts DEF TypeOK, ServiceState
<1>6. SleepState'
  BY OrderFacts DEF TypeOK, SleepState, SleepSteps, CalibrationWaits, Pending
<1> QED
  BY <1>1, <1>2, <1>3, <1>4, <1>5, <1>6

LEMMA PicDisableKeeps ==
  ASSUME IInv, pic_disable
  PROVE  IInv'
<1> USE DEF IInv, pic_disable, Executing, Continues, controllers, flags, cpu_vars,
    sleep_vars
<1>0. /\ Disabled(pic) \in Chips
      /\ Disabled(pic)[SLAVE] = pic[SLAVE]
      /\ Disabled(pic)[MASTER].base = 32
      /\ Disabled(pic)[MASTER].expects = "mask"
      /\ Disabled(pic)[MASTER].imr = Inputs
      /\ Disabled(pic)[MASTER].isr = {}
  <2>1. /\ pic \in Chips /\ pic[MASTER].expects = "mask"
        /\ pic[MASTER].base = 32 /\ pic[MASTER].isr = {}
    BY DEF TypeOK, Chips, ControllersState, ServiceState, Uninterrupted
  <2> QED
    BY <2>1, DisabledFacts
<1>1. TypeOK'
  BY <1>0, OrderFacts DEF TypeOK, Steps, Pins, Chips
<1>2. InterruptsAreExpected'
  BY DEF InterruptsAreExpected
<1>3. ControllersState'
  BY <1>0, OrderFacts DEF TypeOK, ControllersState, PicMasked, Uninterrupted, PicSteps,
     LapicSteps, ApicsState, IoapicSteps, ServiceState, None
<1>4. ApicsState'
  BY OrderFacts DEF TypeOK, ApicsState, IdMatches, HasIoapic, Uninterrupted, PicSteps,
     LapicSteps, IoapicSteps
<1>5. ServiceState'
  BY <1>0, OrderFacts DEF TypeOK, ServiceState
<1>6. SleepState'
  BY OrderFacts DEF TypeOK, SleepState, SleepSteps, CalibrationWaits, Pending
<1> QED
  BY <1>1, <1>2, <1>3, <1>4, <1>5, <1>6

LEMMA LapicMappedKeeps ==
  ASSUME IInv, LapicMapped
  PROVE  IInv'
<1> USE DEF IInv, LapicMapped, Executing, Continues, controllers, flags, cpu_vars,
    sleep_vars
<1>1. TypeOK'
  BY OrderFacts, MachineFacts, PerMsAssumption DEF TypeOK, Steps, Pins
<1>2. InterruptsAreExpected'
  BY DEF InterruptsAreExpected
<1>3. ControllersState'
  BY OrderFacts DEF TypeOK, ControllersState, PicMasked, Uninterrupted, PicSteps,
     LapicSteps, ApicsState, IoapicSteps, ServiceState
<1>4. ApicsState'
  BY OrderFacts DEF TypeOK, ApicsState, IdMatches, HasIoapic, Uninterrupted, PicSteps,
     LapicSteps, IoapicSteps
<1>5. ServiceState'
  BY OrderFacts DEF TypeOK, ServiceState
<1>6. SleepState'
  BY OrderFacts DEF TypeOK, SleepState, SleepSteps, CalibrationWaits, Pending
<1> QED
  BY <1>1, <1>2, <1>3, <1>4, <1>5, <1>6

LEMMA LapicSwitchedOnKeeps ==
  ASSUME IInv, LapicSwitchedOn
  PROVE  IInv'
<1> USE DEF IInv, LapicSwitchedOn, Executing, Continues, controllers, flags, cpu_vars,
    sleep_vars
<1>1. TypeOK'
  BY OrderFacts, MachineFacts, PerMsAssumption DEF TypeOK, Steps, Pins
<1>2. InterruptsAreExpected'
  BY DEF InterruptsAreExpected
<1>3. ControllersState'
  BY OrderFacts DEF TypeOK, ControllersState, PicMasked, Uninterrupted, PicSteps,
     LapicSteps, ApicsState, IoapicSteps, ServiceState
<1>4. ApicsState'
  BY OrderFacts DEF TypeOK, ApicsState, IdMatches, HasIoapic, Uninterrupted, PicSteps,
     LapicSteps, IoapicSteps
<1>5. ServiceState'
  BY OrderFacts DEF TypeOK, ServiceState
<1>6. SleepState'
  BY OrderFacts DEF TypeOK, SleepState, SleepSteps, CalibrationWaits, Pending
<1> QED
  BY <1>1, <1>2, <1>3, <1>4, <1>5, <1>6

LEMMA LapicEnabledKeeps ==
  ASSUME IInv, LapicEnabled
  PROVE  IInv'
<1> USE DEF IInv, LapicEnabled, Executing, Continues, controllers, flags, cpu_vars,
    sleep_vars
<1>1. TypeOK'
  BY OrderFacts, MachineFacts, PerMsAssumption DEF TypeOK, Steps, Pins
<1>2. InterruptsAreExpected'
  BY DEF InterruptsAreExpected
<1>3. ControllersState'
  BY OrderFacts DEF TypeOK, ControllersState, PicMasked, Uninterrupted, PicSteps,
     LapicSteps, ApicsState, IoapicSteps, ServiceState
<1>4. ApicsState'
  BY OrderFacts DEF TypeOK, ApicsState, IdMatches, HasIoapic, Uninterrupted, PicSteps,
     LapicSteps, IoapicSteps
<1>5. ServiceState'
  BY OrderFacts DEF TypeOK, ServiceState
<1>6. SleepState'
  BY OrderFacts DEF TypeOK, SleepState, SleepSteps, CalibrationWaits, Pending
<1> QED
  BY <1>1, <1>2, <1>3, <1>4, <1>5, <1>6

LEMMA IoapicMismatchesKeeps ==
  ASSUME IInv, IoapicMismatches
  PROVE  IInv'
<1> USE DEF IInv, IoapicMismatches, Executing, Continues, controllers, flags, cpu_vars,
    sleep_vars
<1>1. TypeOK'
  BY OrderFacts, MachineFacts, PerMsAssumption DEF TypeOK, Steps, Pins
<1>2. InterruptsAreExpected'
  BY DEF InterruptsAreExpected
<1>3. ControllersState'
  BY OrderFacts DEF TypeOK, ControllersState, PicMasked, Uninterrupted, PicSteps,
     LapicSteps, ApicsState, IoapicSteps, ServiceState
<1>4. ApicsState'
  BY OrderFacts DEF TypeOK, ApicsState, IdMatches, HasIoapic, Uninterrupted, PicSteps,
     LapicSteps, IoapicSteps
<1>5. ServiceState'
  BY OrderFacts DEF TypeOK, ServiceState
<1>6. SleepState'
  BY OrderFacts DEF TypeOK, SleepState, SleepSteps, CalibrationWaits, Pending
<1> QED
  BY <1>1, <1>2, <1>3, <1>4, <1>5, <1>6

LEMMA IoapicMasksKeeps ==
  ASSUME IInv, IoapicMasks
  PROVE  IInv'
<1> USE DEF IInv, IoapicMasks, Executing, Continues, controllers, flags, cpu_vars,
    sleep_vars
<1>1. TypeOK'
  BY OrderFacts, MachineFacts, PerMsAssumption DEF TypeOK, Steps, Pins
<1>2. InterruptsAreExpected'
  BY DEF InterruptsAreExpected
<1>3. ControllersState'
  BY OrderFacts DEF TypeOK, ControllersState, PicMasked, Uninterrupted, PicSteps,
     LapicSteps, ApicsState, IoapicSteps, ServiceState
<1>4. ApicsState'
  BY OrderFacts DEF TypeOK, ApicsState, IdMatches, HasIoapic, Uninterrupted, PicSteps,
     LapicSteps, IoapicSteps
<1>5. ServiceState'
  BY OrderFacts DEF TypeOK, ServiceState
<1>6. SleepState'
  BY OrderFacts DEF TypeOK, SleepState, SleepSteps, CalibrationWaits, Pending
<1> QED
  BY <1>1, <1>2, <1>3, <1>4, <1>5, <1>6

LEMMA IoapicEnabledKeeps ==
  ASSUME IInv, IoapicEnabled
  PROVE  IInv'
<1> USE DEF IInv, IoapicEnabled, Executing, Continues, controllers, flags, cpu_vars,
    sleep_vars
<1>1. TypeOK'
  BY OrderFacts, MachineFacts, PerMsAssumption DEF TypeOK, Steps, Pins
<1>2. InterruptsAreExpected'
  BY DEF InterruptsAreExpected
<1>3. ControllersState'
  BY OrderFacts DEF TypeOK, ControllersState, PicMasked, Uninterrupted, PicSteps,
     LapicSteps, ApicsState, IoapicSteps, ServiceState
<1>4. ApicsState'
  BY OrderFacts DEF TypeOK, ApicsState, IdMatches, HasIoapic, Uninterrupted, PicSteps,
     LapicSteps, IoapicSteps
<1>5. ServiceState'
  BY OrderFacts DEF TypeOK, ServiceState
<1>6. SleepState'
  BY OrderFacts DEF TypeOK, SleepState, SleepSteps, CalibrationWaits, Pending
<1> QED
  BY <1>1, <1>2, <1>3, <1>4, <1>5, <1>6

LEMMA PitReinstallKeeps ==
  ASSUME IInv, pit_reinstall
  PROVE  IInv'
<1> USE DEF IInv, pit_reinstall, Executing, Continues, controllers, flags, cpu_vars,
    sleep_vars
<1>1. TypeOK'
  <2> DEFINE first == machine.ioapics[1]
  <2>1. ASSUME ioapic_enabled
        PROVE  Gsi(0) - first.gsi_base \in 0 .. first.last
    <3>1. /\ HasIoapic /\ first \in Ioapic /\ Gsi(0) \in Nat
          /\ ioapic_get_gsi(Gsi(0)) = "found"
      BY <2>1, MachineFacts DEF TypeOK, ApicsState, IdMatches
    <3>2. first.gsi_base <= Gsi(0) /\ Covers(first, Gsi(0))
      BY <3>1 DEF ioapic_get_gsi
    <3>3. first.gsi_base \in Nat /\ first.last \in Nat
      BY <3>1 DEF Ioapic
    <3>4. first.gsi_base + first.last > Gsi(0)
      BY <3>2 DEF Covers
    <3> HIDE DEF first
    <3> QED
      BY <3>1, <3>2, <3>3, <3>4
  <2>2. IF machine.ioapics = <<>> THEN unmasked' = {} ELSE unmasked' \subseteq Pins
    BY <2>1 DEF TypeOK, Pins, ApicsState, IdMatches, HasIoapic
  <2> QED
    BY <2>2, OrderFacts DEF TypeOK, Steps, Pins
<1>2. InterruptsAreExpected'
  BY DEF InterruptsAreExpected
<1>3. ControllersState'
  BY OrderFacts DEF TypeOK, ControllersState, PicMasked, Uninterrupted, PicSteps,
     LapicSteps, ApicsState, IoapicSteps, ServiceState
<1>4. ApicsState'
  BY OrderFacts DEF TypeOK, ApicsState, IdMatches, HasIoapic, Uninterrupted, PicSteps,
     LapicSteps, IoapicSteps
<1>5. ServiceState'
  BY OrderFacts DEF TypeOK, ServiceState
<1>6. SleepState'
  BY OrderFacts DEF TypeOK, SleepState, SleepSteps, CalibrationWaits, Pending
<1> QED
  BY <1>1, <1>2, <1>3, <1>4, <1>5, <1>6

LEMMA CalibrationBeginsKeeps ==
  ASSUME IInv, CalibrationBegins
  PROVE  IInv'
<1> USE DEF IInv, CalibrationBegins, Executing, Continues, controllers, flags, cpu_vars,
    sleep_vars
<1>1. TypeOK'
  BY OrderFacts, MachineFacts, PerMsAssumption DEF TypeOK, Steps, Pins
<1>2. InterruptsAreExpected'
  BY DEF InterruptsAreExpected
<1>3. ControllersState'
  BY OrderFacts DEF TypeOK, ControllersState, PicMasked, Uninterrupted, PicSteps,
     LapicSteps, ApicsState, IoapicSteps, ServiceState
<1>4. ApicsState'
  BY OrderFacts DEF TypeOK, ApicsState, IdMatches, HasIoapic, Uninterrupted, PicSteps,
     LapicSteps, IoapicSteps
<1>5. ServiceState'
  BY OrderFacts DEF TypeOK, ServiceState
<1>6. SleepState'
  BY OrderFacts DEF TypeOK, SleepState, SleepSteps, CalibrationWaits, Pending
<1> QED
  BY <1>1, <1>2, <1>3, <1>4, <1>5, <1>6

LEMMA SleepBeginsKeeps ==
  ASSUME IInv, SleepBegins
  PROVE  IInv'
<1> USE DEF IInv, SleepBegins, Executing, Continues, controllers, flags, cpu_vars,
    sleep_vars
<1>0. left' = PER_MS /\ PER_MS \in Nat
  BY PerMsAssumption DEF EndOfSleep
<1>1. TypeOK'
  BY <1>0, OrderFacts DEF TypeOK, Steps, Pins
<1>2. InterruptsAreExpected'
  BY DEF InterruptsAreExpected
<1>3. ControllersState'
  BY OrderFacts DEF TypeOK, ControllersState, PicMasked, Uninterrupted, PicSteps,
     LapicSteps, ApicsState, IoapicSteps, ServiceState
<1>4. ApicsState'
  BY OrderFacts DEF TypeOK, ApicsState, IdMatches, HasIoapic, Uninterrupted, PicSteps,
     LapicSteps, IoapicSteps
<1>5. ServiceState'
  BY OrderFacts DEF TypeOK, ServiceState
<1>6. SleepState'
  <2>1. Pending' \in {0, 1} /\ edges \in Nat
    BY DEF Pending, TypeOK, None
  <2> QED
    BY <1>0, <2>1 DEF SleepState, SleepSteps, CalibrationWaits
<1> QED
  BY <1>1, <1>2, <1>3, <1>4, <1>5, <1>6

LEMMA SleepChecksKeeps ==
  ASSUME IInv, SleepChecks
  PROVE  IInv'
<1> USE DEF IInv, SleepChecks, Executing, Continues, controllers, flags, cpu_vars,
    sleep_vars
<1>1. TypeOK'
  BY OrderFacts, MachineFacts, PerMsAssumption DEF TypeOK, Steps, Pins
<1>2. InterruptsAreExpected'
  BY DEF InterruptsAreExpected
<1>3. ControllersState'
  BY OrderFacts DEF TypeOK, ControllersState, PicMasked, Uninterrupted, PicSteps,
     LapicSteps, ApicsState, IoapicSteps, ServiceState
<1>4. ApicsState'
  BY OrderFacts DEF TypeOK, ApicsState, IdMatches, HasIoapic, Uninterrupted, PicSteps,
     LapicSteps, IoapicSteps
<1>5. ServiceState'
  BY OrderFacts DEF TypeOK, ServiceState
<1>6. SleepState'
  <2>1. Pending' = Pending /\ Pending \in {0, 1}
    BY DEF Pending, TypeOK, None
  <2>2. edges \in 0 .. PER_MS /\ left \in 0 .. PER_MS /\ PER_MS \in Nat
    BY PerMsAssumption DEF TypeOK
  <2>3. CASE left > 0
    BY <2>1, <2>3 DEF SleepState, SleepSteps, CalibrationWaits
  <2>4. CASE left = 0
    <3>1. edges >= PER_MS - 1
      BY <2>1, <2>2, <2>4 DEF SleepState, SleepSteps
    <3> QED
      BY <2>2, <2>4, <3>1, OrderFacts DEF SleepState, SleepSteps, CalibrationWaits
  <2> QED
    BY <2>2, <2>3, <2>4
<1> QED
  BY <1>1, <1>2, <1>3, <1>4, <1>5, <1>6

LEMMA HaltsKeeps ==
  ASSUME IInv, Halts
  PROVE  IInv'
<1> USE DEF IInv, Halts, Executing, Continues, controllers, flags, cpu_vars,
    sleep_vars
<1>1. TypeOK'
  BY OrderFacts, MachineFacts, PerMsAssumption DEF TypeOK, Steps, Pins
<1>2. InterruptsAreExpected'
  BY DEF InterruptsAreExpected
<1>3. ControllersState'
  BY OrderFacts DEF TypeOK, ControllersState, PicMasked, Uninterrupted, PicSteps,
     LapicSteps, ApicsState, IoapicSteps, ServiceState
<1>4. ApicsState'
  BY OrderFacts DEF TypeOK, ApicsState, IdMatches, HasIoapic, Uninterrupted, PicSteps,
     LapicSteps, IoapicSteps
<1>5. ServiceState'
  BY OrderFacts DEF TypeOK, ServiceState
<1>6. SleepState'
  BY OrderFacts DEF TypeOK, SleepState, SleepSteps, CalibrationWaits, Pending
<1> QED
  BY <1>1, <1>2, <1>3, <1>4, <1>5, <1>6

LEMMA CalibrationEndsKeeps ==
  ASSUME IInv, CalibrationEnds
  PROVE  IInv'
<1> USE DEF IInv, CalibrationEnds, Executing, Continues, controllers, flags, cpu_vars,
    sleep_vars
<1>1. TypeOK'
  BY OrderFacts, MachineFacts, PerMsAssumption DEF TypeOK, Steps, Pins
<1>2. InterruptsAreExpected'
  BY DEF InterruptsAreExpected
<1>3. ControllersState'
  BY OrderFacts DEF TypeOK, ControllersState, PicMasked, Uninterrupted, PicSteps,
     LapicSteps, ApicsState, IoapicSteps, ServiceState
<1>4. ApicsState'
  BY OrderFacts DEF TypeOK, ApicsState, IdMatches, HasIoapic, Uninterrupted, PicSteps,
     LapicSteps, IoapicSteps
<1>5. ServiceState'
  BY OrderFacts DEF TypeOK, ServiceState
<1>6. SleepState'
  BY OrderFacts DEF TypeOK, SleepState, SleepSteps, CalibrationWaits, Pending
<1> QED
  BY <1>1, <1>2, <1>3, <1>4, <1>5, <1>6

LEMMA StopsKeeps ==
  ASSUME IInv, NEW why \in {"panic", "ubsan", "fault", "wild"}, Stops(why)
  PROVE  IInv'
<1> USE DEF IInv, controllers, flags, cpu_vars, sleep_vars, Stops
<1>1. TypeOK'
  BY DEF TypeOK, Pins
<1>2. InterruptsAreExpected'
  BY DEF InterruptsAreExpected
<1>3. ControllersState'
  BY DEF TypeOK, ControllersState, PicMasked
<1>4. ApicsState'
  BY DEF TypeOK, ApicsState, IdMatches, HasIoapic
<1>5. ServiceState'
  BY DEF TypeOK, ServiceState
<1>6. SleepState'
  BY DEF TypeOK, SleepState, SleepSteps, CalibrationWaits, Pending
<1> QED
  BY <1>1, <1>2, <1>3, <1>4, <1>5, <1>6

LEMMA StutterKeeps ==
  ASSUME IInv, UNCHANGED vars
  PROVE  IInv'
<1> USE DEF IInv, controllers, flags, cpu_vars, sleep_vars, vars
<1>1. TypeOK'
  BY DEF TypeOK, Pins
<1>2. InterruptsAreExpected'
  BY DEF InterruptsAreExpected
<1>3. ControllersState'
  BY DEF TypeOK, ControllersState, PicMasked
<1>4. ApicsState'
  BY DEF TypeOK, ApicsState, IdMatches, HasIoapic
<1>5. ServiceState'
  BY DEF TypeOK, ServiceState
<1>6. SleepState'
  BY DEF TypeOK, SleepState, SleepSteps, CalibrationWaits, Pending
<1> QED
  BY <1>1, <1>2, <1>3, <1>4, <1>5, <1>6

LEMMA MainStepKeeps ==
  ASSUME IInv, MainStep
  PROVE  IInv'
<1>1. CASE InstallStops
  BY <1>1, StopsKeeps, EndsFacts DEF InstallStops
<1>2. CASE IoapicMissing \/ RedirectFails \/ CalibrationFaults
  BY <1>2, StopsKeeps DEF IoapicMissing, RedirectFails, CalibrationFaults
<1> QED
  BY <1>1, <1>2, IdtInstallKeeps, PicInstallKeeps, PitInstallKeeps,
     InstallsMemoryKeeps, InstallLoopsKeeps, CpuCheckApicKeeps, PicDisableKeeps,
     LapicMappedKeeps, LapicSwitchedOnKeeps, LapicEnabledKeeps,
     IoapicMismatchesKeeps, IoapicMasksKeeps, IoapicEnabledKeeps,
     PitReinstallKeeps, CalibrationBeginsKeeps, SleepBeginsKeeps,
     SleepChecksKeeps, HaltsKeeps, CalibrationEndsKeeps DEF MainStep

-----------------------------------------------------------------------------
(***************************************************************************)
(* The devices, the processor and the handlers.                            *)
(***************************************************************************)
LEMMA RaiseFacts ==
  ASSUME NEW chip \in Chip, NEW input \in Inputs
  PROVE  /\ Raise(chip, input) \in Chip
         /\ Raise(chip, input).base = chip.base
         /\ Raise(chip, input).expects = chip.expects
         /\ Raise(chip, input).imr = chip.imr
         /\ Raise(chip, input).isr = chip.isr
BY DEF Raise, Chip

LEMMA AcknowledgeFacts ==
  ASSUME NEW chip \in Chip, NEW input \in Inputs
  PROVE  /\ Acknowledge(chip, input) \in Chip
         /\ Acknowledge(chip, input).base = chip.base
         /\ Acknowledge(chip, input).expects = chip.expects
         /\ Acknowledge(chip, input).imr = chip.imr
         /\ Acknowledge(chip, input).isr = chip.isr \union {input}
BY DEF Acknowledge, Chip

\* A device that raises a line of the controllers changes no more of them.
LEMMA EdgeFacts ==
  ASSUME IInv, PitEdge \/ KeyEdge \/ SlaveEdge
  PROVE  /\ pic' \in Chips
         /\ pic'[MASTER].base = pic[MASTER].base
         /\ pic'[MASTER].expects = pic[MASTER].expects
         /\ pic'[MASTER].imr = pic[MASTER].imr
         /\ pic'[MASTER].isr = pic[MASTER].isr
         /\ pic'[SLAVE].base = pic[SLAVE].base
<1>1. /\ pic \in Chips /\ pic[MASTER] \in Chip /\ pic[SLAVE] \in Chip
      /\ MASTER # SLAVE /\ 0 \in Inputs /\ 1 \in Inputs /\ 2 \in Inputs
  BY DEF IInv, TypeOK, Chips, MASTER, SLAVE, Inputs
<1>2. /\ \A input \in Inputs : Raise(pic[MASTER], input) \in Chip
      /\ Raise(pic[SLAVE], 0) \in Chip
      /\ Raise(pic[SLAVE], 0).base = pic[SLAVE].base
  BY <1>1, RaiseFacts
<1>3. /\ pic' \in Chips
      /\ pic'[MASTER] = pic[MASTER] \/ \E input \in Inputs :
                                         pic'[MASTER] = Raise(pic[MASTER], input)
      /\ pic'[SLAVE].base = pic[SLAVE].base
  <2>1. CASE PitEdge
    <3>1. PICK master \in Chip : master = Raise(pic[MASTER], 0)
      BY <1>1, <1>2
    <3>2. pic' = [pic EXCEPT ![MASTER] = master]
      BY <2>1, <3>1 DEF PitEdge
    <3> QED
      BY <1>1, <3>1, <3>2 DEF Chips
  <2>2. CASE KeyEdge
    <3>1. PICK master \in Chip : master = Raise(pic[MASTER], 1)
      BY <1>1, <1>2
    <3>2. pic' = [pic EXCEPT ![MASTER] = master]
      BY <2>2, <3>1 DEF KeyEdge
    <3> QED
      BY <1>1, <3>1, <3>2 DEF Chips
  <2>3. CASE SlaveEdge
    <3>1. PICK slave \in Chip : slave = Raise(pic[SLAVE], 0)
      BY <1>2
    <3>2. PICK raised \in Chip : raised = Raise(pic[MASTER], 2)
      BY <1>1, <1>2
    <3>3. \/ pic' = [pic EXCEPT ![SLAVE] = slave, ![MASTER] = raised]
          \/ pic' = [pic EXCEPT ![SLAVE] = slave, ![MASTER] = pic[MASTER]]
      BY <1>1, <2>3, <3>1, <3>2 DEF SlaveEdge, Chips
    <3>4. pic' \in Chips /\ pic'[SLAVE] = slave /\ pic'[MASTER] \in {raised, pic[MASTER]}
      BY <1>1, <3>3 DEF Chips
    <3> QED
      BY <1>1, <1>2, <3>1, <3>2, <3>4
  <2> QED
    BY <2>1, <2>2, <2>3
<1>4. CASE pic'[MASTER] = pic[MASTER]
  BY <1>3, <1>4
<1>5. ASSUME NEW input \in Inputs, pic'[MASTER] = Raise(pic[MASTER], input)
      PROVE  /\ pic'[MASTER].base = pic[MASTER].base
             /\ pic'[MASTER].expects = pic[MASTER].expects
             /\ pic'[MASTER].imr = pic[MASTER].imr
             /\ pic'[MASTER].isr = pic[MASTER].isr
  <2>1. PICK chip \in Chip : chip = pic[MASTER]
    BY <1>1
  <2> QED
    BY <1>5, <2>1, RaiseFacts
<1> QED
  BY <1>3, <1>4, <1>5

\* A tick that comes is counted by the time it is pending.
LEMMA LagKept ==
  ASSUME NEW per \in Int, NEW e \in Int, NEW e1 \in Int, NEW l \in Int,
         NEW p \in Int, NEW p1 \in Int,
         l + e + 1 >= per + p, p1 <= p + 1, e <= e1, p1 = p \/ e1 = e + 1
  PROVE  l + e1 + 1 >= per + p1
OBVIOUS

LEMMA DeviceStepKeeps ==
  ASSUME IInv, DeviceStep
  PROVE  IInv'
<1> USE DEF IInv, DeviceStep, flags, cpu_vars
<1>0. /\ pic' \in Chips
      /\ pic'[MASTER].base = pic[MASTER].base
      /\ pic'[MASTER].expects = pic[MASTER].expects
      /\ pic'[MASTER].imr = pic[MASTER].imr
      /\ pic'[MASTER].isr = pic[MASTER].isr
      /\ pic'[SLAVE].base = pic[SLAVE].base
  BY EdgeFacts
<1>1. /\ UNCHANGED <<machine, pc, lapic, apic_isr, unmasked, left>>
      /\ UNCHANGED <<lapic_enabled, ioapic_enabled, idt_entries, irq_handlers>>
      /\ UNCHANGED <<fate, interrupt_flag, serving>>
  BY DEF PitEdge, KeyEdge, SlaveEdge, sleep_vars
<1>2. \/ apic_irr' = apic_irr /\ edges' = edges
      \/ /\ apic_irr' = (apic_irr \/ (lapic = "on" /\ Routed))
         /\ edges' = IF edges < PER_MS THEN edges + 1 ELSE edges
  BY DEF PitEdge, KeyEdge, SlaveEdge, sleep_vars
<1>3. apic_irr' \in BOOLEAN /\ edges' \in 0 .. PER_MS /\ edges <= edges'
      /\ (edges' < PER_MS => apic_irr' = apic_irr \/ edges' = edges + 1)
  <2>1. edges \in 0 .. PER_MS /\ PER_MS \in Nat /\ apic_irr \in BOOLEAN
    BY PerMsAssumption DEF TypeOK
  <2>2. apic_irr' \in BOOLEAN
    BY <1>2, <2>1
  <2>3. \/ apic_irr' = apic_irr /\ edges' = edges
        \/ edges' = IF edges < PER_MS THEN edges + 1 ELSE edges
    BY <1>2, Zenon
  <2>4. CASE apic_irr' = apic_irr /\ edges' = edges
    BY <2>1, <2>2, <2>4
  <2>5. CASE edges' = IF edges < PER_MS THEN edges + 1 ELSE edges
    BY <2>1, <2>2, <2>5
  <2> QED
    BY <2>3, <2>4, <2>5
<1>4. apic_irr' => apic_irr \/ (lapic = "on" /\ unmasked # {})
  BY <1>2 DEF Routed
<1>5. TypeOK'
  BY <1>0, <1>1, <1>3 DEF TypeOK, Pins, Chips
<1>6. InterruptsAreExpected'
  BY <1>1 DEF InterruptsAreExpected
<1>7. ControllersState'
  BY <1>0, <1>1 DEF ControllersState, PicMasked
<1>8. ApicsState'
  BY <1>1, <1>4 DEF TypeOK, ApicsState, IdMatches, HasIoapic
<1>9. ServiceState'
  BY <1>0, <1>1 DEF ServiceState
<1>10. SleepState'
  <2>1. edges \in 0 .. PER_MS /\ PER_MS \in Nat /\ left \in 0 .. PER_MS
    BY PerMsAssumption DEF TypeOK
  <2>2. CalibrationWaits'
    BY <1>1, <1>3, <2>1 DEF SleepState, SleepSteps, CalibrationWaits
  <2>3. ASSUME pc \in SleepSteps, edges' < PER_MS
        PROVE  left + edges' + 1 >= PER_MS + Pending'
    <3>1. left + edges + 1 >= PER_MS + Pending
      BY <1>3, <2>1, <2>3 DEF SleepState, SleepSteps
    <3>2. Pending \in Nat /\ Pending' \in Nat
      BY DEF Pending
    <3>3. Pending' <= Pending + 1 /\ (apic_irr' = apic_irr => Pending' = Pending)
      BY <1>1, <1>4, <1>3, <3>2 DEF Pending, TypeOK
    <3>4. /\ edges \in Int /\ edges' \in Int /\ left \in Int /\ PER_MS \in Int
          /\ Pending \in Int /\ Pending' \in Int
      BY <1>3, <2>1, <3>2
    <3>5. edges <= edges' /\ (Pending' = Pending \/ edges' = edges + 1)
      BY <1>3, <2>3, <3>3, Zenon
    <3>6. PICK before \in Int : before = Pending
      BY <3>4, Zenon
    <3>7. PICK after \in Int : after = Pending'
      BY <3>4, Zenon
    <3>8. PICK e \in Int : e = edges'
      BY <3>4, Zenon
    <3>9. /\ left + edges + 1 >= PER_MS + before /\ after <= before + 1
          /\ edges <= e /\ (after = before \/ e = edges + 1)
      BY <3>1, <3>3, <3>5, <3>6, <3>7, <3>8, Zenon
    <3>10. left + e + 1 >= PER_MS + after
      BY <3>4, <3>9, LagKept, Zenon
    <3> QED
      BY <3>7, <3>8, <3>10, Zenon
  <2> QED
    BY <1>1, <2>2, <2>3 DEF SleepState, SleepSteps
<1> QED
  BY <1>5, <1>6, <1>7, <1>8, <1>9, <1>10

-----------------------------------------------------------------------------
(***************************************************************************)
(* The delivery of an interrupt.                                           *)
(***************************************************************************)
\* Interrupts are on only after pic_install.
LEMMA DeliveryFacts ==
  ASSUME IInv, MayDeliver
  PROVE  /\ pic \in Chips /\ pic[MASTER] \in Chip /\ pic[SLAVE] \in Chip
         /\ MASTER # SLAVE
         /\ pc \notin Uninterrupted /\ idt_entries
         /\ pic[MASTER].base = 32 /\ pic[SLAVE].base = 112
         /\ pic[MASTER].isr = {} /\ ~apic_isr
<1>1. /\ pic \in Chips /\ pic[MASTER] \in Chip /\ pic[SLAVE] \in Chip
      /\ MASTER # SLAVE
  BY DEF IInv, TypeOK, Chips, MASTER, SLAVE
<1>2. pc \notin Uninterrupted
  BY DEF IInv, MayDeliver, ControllersState
<1> QED
  BY <1>1, <1>2 DEF IInv, MayDeliver, ControllersState, ServiceState, Uninterrupted

\* The first controller offers none of the inputs that are masked.
LEMMA OfferFacts ==
  ASSUME IInv, Offers(pic[MASTER]) # {}
  PROVE  /\ ~PicMasked
         /\ HighestOf(Offers(pic[MASTER])) \in Inputs
<1>1. pic[MASTER] \in Chip
  BY DEF IInv, TypeOK, MASTER
<1>2. Offers(pic[MASTER]) \in SUBSET (Inputs \ pic[MASTER].imr)
  BY <1>1 DEF Offers, Chip
<1>3. ~PicMasked
  BY <1>2 DEF IInv, ControllersState
<1> QED
  BY <1>2, <1>3, HighestFacts DEF Inputs

\* Entering a handler, for what was pending at the same controller.
LEMMA EnteringKeeps ==
  ASSUME IInv, MayDeliver,
         NEW inter \in Inter, inter.at = "handler", inter.vector >= 32,
         Enters(inter),
         UNCHANGED <<machine, pc, lapic, unmasked, left, edges>>,
         UNCHANGED <<lapic_enabled, ioapic_enabled, idt_entries, irq_handlers>>,
         pic' \in Chips,
         pic'[MASTER].base = pic[MASTER].base,
         pic'[MASTER].expects = pic[MASTER].expects,
         pic'[MASTER].imr = pic[MASTER].imr,
         pic'[SLAVE].base = pic[SLAVE].base,
         \/ /\ inter.by = "pic" /\ ~PicMasked
            /\ pic'[MASTER].isr = {inter.irq}
            /\ apic_irr' = apic_irr /\ apic_isr' = apic_isr
         \/ /\ inter.by = "apic" /\ lapic = "on"
            /\ pic'[MASTER].isr = pic[MASTER].isr
            /\ apic_irr = TRUE /\ apic_irr' = FALSE /\ apic_isr' = TRUE
  PROVE  IInv'
<1> USE DEF IInv
<1>1. /\ pc \notin Uninterrupted /\ idt_entries
      /\ pic[MASTER].isr = {} /\ ~apic_isr
      /\ serving = None
  BY DeliveryFacts DEF MayDeliver
<1>2. serving' = inter /\ interrupt_flag' = FALSE /\ fate' = fate
  BY <1>1 DEF Enters
<1>3. inter # None
  BY DEF None
<1>4. apic_irr' \in BOOLEAN /\ apic_isr' \in BOOLEAN /\ (apic_irr' => apic_irr)
  <2>1. apic_irr \in BOOLEAN /\ apic_isr \in BOOLEAN
    BY DEF TypeOK
  <2>2. CASE apic_irr' = apic_irr /\ apic_isr' = apic_isr
    BY <2>1, <2>2
  <2>3. CASE apic_irr = TRUE /\ apic_irr' = FALSE /\ apic_isr' = TRUE
    BY <2>3
  <2> QED
    BY <2>2, <2>3
<1>5. TypeOK'
  BY <1>2, <1>4 DEF TypeOK, Pins, Chips
<1>6. InterruptsAreExpected'
  BY <1>2 DEF InterruptsAreExpected
<1>7. ControllersState'
  BY <1>1, <1>2 DEF ControllersState, PicMasked
<1>8. apic_isr' => pc \notin Uninterrupted \union PicSteps \union LapicSteps
                              \union IoapicSteps
  BY <1>1 DEF TypeOK, ApicsState
<1>9. ApicsState'
  BY <1>4, <1>8 DEF TypeOK, ApicsState, IdMatches, HasIoapic
<1>10. ServiceState'
  BY <1>1, <1>2, <1>3 DEF TypeOK, ServiceState, ApicsState
<1>11. pc \in SleepSteps => Pending' = Pending
  BY <1>1, <1>2 DEF TypeOK, SleepSteps, Pending, None, ApicsState, PicMasked
<1>12. SleepState'
  BY <1>11 DEF SleepState, SleepSteps, CalibrationWaits
<1> QED
  BY <1>5, <1>6, <1>7, <1>9, <1>10, <1>12

LEMMA DeliversOwnKeeps ==
  ASSUME IInv, DeliversOwn
  PROVE  IInv'
<1>1. /\ pic \in Chips /\ pic[MASTER] \in Chip /\ pic[SLAVE] \in Chip
      /\ MASTER # SLAVE /\ pic[MASTER].isr = {} /\ pic[MASTER].base = 32
      /\ MayDeliver
  BY DeliveryFacts DEF DeliversOwn
<1>2. PICK input \in Inputs : input = HighestOf(Offers(pic[MASTER])) /\ ~PicMasked
  BY OfferFacts DEF DeliversOwn
<1>3. PICK master \in Chip : master = Acknowledge(pic[MASTER], input)
  BY <1>1, AcknowledgeFacts
<1>4. /\ master.base = pic[MASTER].base
      /\ master.expects = pic[MASTER].expects
      /\ master.imr = pic[MASTER].imr
      /\ master.isr = {input}
  BY <1>1, <1>3, AcknowledgeFacts
<1>5. pic' = [pic EXCEPT ![MASTER] = master]
  BY <1>2, <1>3 DEF DeliversOwn
<1>6. /\ pic' \in Chips /\ pic'[MASTER] = master /\ pic'[SLAVE] = pic[SLAVE]
  BY <1>1, <1>5 DEF Chips
<1> DEFINE inter == [irq |-> input, by |-> "pic", at |-> "handler",
                     vector |-> pic[MASTER].base + input]
<1>7. /\ inter \in Inter /\ inter.vector >= 32 /\ inter.at = "handler"
      /\ inter.by = "pic" /\ inter.irq = input
  BY <1>1, <1>2 DEF Inter, Inputs
<1>8. Enters(inter)
  BY <1>2 DEF DeliversOwn
<1> HIDE DEF inter
<1>9. /\ UNCHANGED <<machine, pc, lapic, unmasked, left, edges>>
      /\ UNCHANGED <<lapic_enabled, ioapic_enabled, idt_entries, irq_handlers>>
      /\ apic_irr' = apic_irr /\ apic_isr' = apic_isr
  BY DEF DeliversOwn, flags, sleep_vars
<1> QED
  BY <1>1, <1>2, <1>4, <1>6, <1>7, <1>8, <1>9, EnteringKeeps

\* Its vector is still that of the firmware.
LEMMA DeliversSlavesKeeps ==
  ASSUME IInv, DeliversSlaves
  PROVE  IInv'
<1>1. /\ pic \in Chips /\ pic[MASTER] \in Chip /\ pic[SLAVE] \in Chip
      /\ MASTER # SLAVE /\ pic[MASTER].isr = {} /\ pic[SLAVE].base = 112
      /\ MayDeliver
  BY DeliveryFacts DEF DeliversSlaves
<1>2. ~PicMasked
  BY OfferFacts DEF DeliversSlaves
<1>3. 0 \in Inputs /\ 2 \in Inputs
  BY DEF Inputs
<1>4. PICK master \in Chip : master = Acknowledge(pic[MASTER], 2)
  BY <1>1, <1>3, AcknowledgeFacts
<1>5. PICK slave \in Chip : slave = Acknowledge(pic[SLAVE], 0)
  BY <1>1, <1>3, AcknowledgeFacts
<1>6. /\ master.base = pic[MASTER].base
      /\ master.expects = pic[MASTER].expects
      /\ master.imr = pic[MASTER].imr
      /\ master.isr = {2}
      /\ slave.base = pic[SLAVE].base
  BY <1>1, <1>3, <1>4, <1>5, AcknowledgeFacts
<1>7. /\ pic' = [p \in {MASTER, SLAVE} |-> IF p = MASTER THEN master ELSE slave]
  BY <1>1, <1>4, <1>5 DEF DeliversSlaves
<1>8. /\ pic' \in Chips /\ pic'[MASTER] = master /\ pic'[SLAVE] = slave
  BY <1>1, <1>7 DEF Chips
<1> DEFINE inter == [irq |-> 2, by |-> "pic", at |-> "handler",
                     vector |-> pic[SLAVE].base]
<1>9. /\ inter \in Inter /\ inter.vector >= 32 /\ inter.at = "handler"
      /\ inter.by = "pic" /\ inter.irq = 2
  BY <1>1, <1>3 DEF Inter
<1>10. Enters(inter)
  BY DEF DeliversSlaves
<1> HIDE DEF inter
<1>11. /\ UNCHANGED <<machine, pc, lapic, unmasked, left, edges>>
       /\ UNCHANGED <<lapic_enabled, ioapic_enabled, idt_entries, irq_handlers>>
       /\ apic_irr' = apic_irr /\ apic_isr' = apic_isr
  BY DEF DeliversSlaves, flags, sleep_vars
<1> QED
  BY <1>1, <1>2, <1>6, <1>8, <1>9, <1>10, <1>11, EnteringKeeps

LEMMA DeliversApicsKeeps ==
  ASSUME IInv, DeliversApics
  PROVE  IInv'
<1>1. pic \in Chips /\ MayDeliver
  BY DeliveryFacts DEF DeliversApics
<1> DEFINE inter == [irq |-> 0, by |-> "apic", at |-> "handler", vector |-> 32]
<1>2. /\ inter \in Inter /\ inter.vector >= 32 /\ inter.at = "handler"
      /\ inter.by = "apic"
  BY DEF Inter, Inputs
<1>3. Enters(inter)
  BY DEF DeliversApics
<1> HIDE DEF inter
<1>4. /\ UNCHANGED <<machine, pc, lapic, unmasked, left, edges>>
      /\ UNCHANGED <<lapic_enabled, ioapic_enabled, idt_entries, irq_handlers>>
      /\ lapic = "on" /\ pic' = pic
      /\ apic_irr = TRUE /\ apic_irr' = FALSE /\ apic_isr' = TRUE
  BY DEF DeliversApics, flags, sleep_vars, IInv, TypeOK
<1> QED
  BY <1>1, <1>2, <1>3, <1>4, EnteringKeeps

-----------------------------------------------------------------------------
(***************************************************************************)
(* irq_handler.                                                            *)
(***************************************************************************)
LEMMA ServingFacts ==
  ASSUME IInv, serving.at \in {"handler", "eoi"}
  PROVE  /\ serving \in Inter /\ serving # None
         /\ pc \notin Uninterrupted
<1>1. serving \in Inter /\ serving # None
  BY DEF IInv, TypeOK, None
<1> QED
  BY <1>1 DEF IInv, ControllersState

\* A tick that pit_handler sees is no longer pending.
LEMMA HandlerRunsKeeps ==
  ASSUME IInv, HandlerRuns
  PROVE  IInv'
<1> USE DEF IInv, HandlerRuns, Handling, controllers, flags
<1>1. serving \in Inter /\ serving # None /\ pc \notin Uninterrupted
  BY ServingFacts
<1>2. PICK after \in Inter : after = [serving EXCEPT !.at = "eoi"]
  BY <1>1 DEF Inter
<1>3. /\ serving' = after /\ after # None
      /\ after.irq = serving.irq /\ after.by = serving.by
      /\ after.vector = serving.vector /\ after.at = "eoi"
  BY <1>1, <1>2 DEF Inter, None
<1>4. left \in 0 .. PER_MS /\ PER_MS \in Nat /\ edges \in 0 .. PER_MS
  BY PerMsAssumption DEF TypeOK
<1>5. left' \in 0 .. PER_MS /\ left' >= left - 1
  BY <1>4
<1>6. TypeOK'
  BY <1>3, <1>5 DEF TypeOK, Pins
<1>7. InterruptsAreExpected'
  BY DEF InterruptsAreExpected
<1>8. ControllersState'
  BY <1>1, <1>3 DEF ControllersState, PicMasked
<1>9. ApicsState'
  BY DEF TypeOK, ApicsState, IdMatches, HasIoapic
<1>10. ServiceState'
  BY <1>1, <1>3 DEF TypeOK, ServiceState
<1>11. SleepState'
  <2>1. Pending = Pending' + 1 /\ Pending' \in {0, 1}
    BY <1>3 DEF TypeOK, Pending
  <2>2. PICK p \in Int : p = Pending'
    BY <2>1
  <2>3. Pending = p + 1
    BY <2>1, <2>2
  <2>4. ASSUME pc \in SleepSteps, edges < PER_MS
        PROVE  left' + edges + 1 >= PER_MS + p
    <3>1. left + edges + 1 >= PER_MS + (p + 1)
      BY <2>3, <2>4 DEF SleepState, SleepSteps
    <3> QED
      BY <1>4, <1>5, <3>1
  <2> QED
    BY <2>2, <2>4 DEF SleepState, SleepSteps, CalibrationWaits
<1> QED
  BY <1>6, <1>7, <1>8, <1>9, <1>10, <1>11

\* The interrupt is ended at the controller it came from.
LEMMA HandlerEndsKeeps ==
  ASSUME IInv, HandlerEnds
  PROVE  IInv'
<1> USE DEF IInv, flags, sleep_vars
<1>1. serving \in Inter /\ serving # None /\ pc \notin Uninterrupted
  BY ServingFacts DEF HandlerEnds, Handling
<1>2. serving.by \in {"pic", "apic"} /\ serving.vector \in Nat /\ serving.vector >= 32
      /\ serving.irq \in Inputs
  BY <1>1 DEF Inter, ServiceState
<1>3. pic \in Chips
  BY DEF TypeOK, Chips
<1>4. lapic_enabled => PicMasked
  BY <1>1 DEF TypeOK, ApicsState, PicMasked
<1>5. /\ pic' \in Chips
      /\ pic'[MASTER].base = pic[MASTER].base
      /\ pic'[MASTER].expects = pic[MASTER].expects
      /\ pic'[MASTER].imr = pic[MASTER].imr
      /\ pic'[SLAVE].base = pic[SLAVE].base
      /\ pic'[MASTER].isr = {}
      /\ apic_isr' = FALSE
  <2>1. CASE lapic_enabled
    <3>1. serving.by = "apic"
      BY <1>2, <1>4, <2>1 DEF ControllersState
    <3>2. pic' = pic /\ apic_isr' = FALSE
      BY <2>1 DEF HandlerEnds
    <3> QED
      BY <1>1, <1>3, <3>1, <3>2 DEF ServiceState
  <2>2. CASE ~lapic_enabled
    <3>1. /\ serving.by = "pic" /\ pic[MASTER].isr = {serving.irq} /\ ~apic_isr
      BY <1>1, <1>2, <2>2 DEF ServiceState
    <3>2. pic' = pic_eoi(pic, serving.vector) /\ apic_isr' = apic_isr
      BY <2>2 DEF HandlerEnds
    <3>3. apic_isr' = FALSE
      BY <3>1, <3>2 DEF TypeOK
    <3> QED
      BY <1>2, <1>3, <3>1, <3>2, <3>3, EoiFacts
  <2> QED
    BY <2>1, <2>2
<1>6. /\ serving' = None /\ interrupt_flag' = TRUE
      /\ UNCHANGED <<machine, lapic, apic_irr, unmasked, fate, left, edges>>
      /\ UNCHANGED <<lapic_enabled, ioapic_enabled, idt_entries, irq_handlers>>
      /\ pc' = IF pc = "halted" THEN "while" ELSE pc
      /\ serving.at = "eoi"
  BY DEF HandlerEnds, Handling
<1>7. TypeOK'
  BY <1>5, <1>6 DEF TypeOK, Steps, Pins, Chips
<1>8. InterruptsAreExpected'
  BY <1>6 DEF InterruptsAreExpected
<1>9. ControllersState'
  BY <1>1, <1>5, <1>6 DEF ControllersState, PicMasked, None, Uninterrupted, LapicSteps
<1>10. ApicsState'
  BY <1>5, <1>6 DEF TypeOK, ApicsState, IdMatches, HasIoapic, Uninterrupted, PicSteps,
     LapicSteps, IoapicSteps
<1>11. ServiceState'
  BY <1>5, <1>6 DEF ServiceState
<1>12. SleepState'
  <2>1. Pending' = Pending
    BY <1>6 DEF Pending, None
  <2>2. pc' \in SleepSteps => pc \in SleepSteps
    BY <1>6 DEF SleepSteps
  <2>3. pc' = "CURCNT" => pc = "CURCNT"
    BY <1>6
  <2> QED
    BY <1>6, <2>1, <2>2, <2>3 DEF SleepState, SleepSteps, CalibrationWaits
<1> QED
  BY <1>7, <1>8, <1>9, <1>10, <1>11, <1>12

-----------------------------------------------------------------------------
(***************************************************************************)
(* The invariant, and what follows from it.                                *)
(***************************************************************************)
LEMMA InitEstablishes == Init => IInv
<1> SUFFICES ASSUME Init
             PROVE  IInv
  OBVIOUS
<1> USE DEF Init
<1>1. PICK irr \in SUBSET {0, 1} :
        pic = [p \in {MASTER, SLAVE} |->
                 [expects |-> "mask", base |-> IF p = MASTER THEN 8 ELSE 112,
                  icw3 |-> IF p = MASTER THEN 4 ELSE 2, imr |-> {}, isr |-> {},
                  irr |-> IF p = MASTER THEN irr ELSE {}]]
  OBVIOUS
<1>2. pic \in Chips
  BY <1>1 DEF Chips, Chip, Inputs
<1>3. pic[SLAVE].base = 112 /\ pic[MASTER].isr = {}
  BY <1>1 DEF MASTER, SLAVE
<1>4. pc = "idt_install"
  BY OrderFacts
<1>5. TypeOK
  <2>1. left \in 0 .. PER_MS /\ edges \in 0 .. PER_MS
    BY PerMsAssumption
  <2>2. pc \in Steps
    BY <1>4 DEF Steps
  <2>3. serving \in Inter \union {None}
    OBVIOUS
  <2>4. IF machine.ioapics = <<>> THEN unmasked = {} ELSE unmasked \subseteq Pins
    OBVIOUS
  <2> QED
    BY <1>2, <2>1, <2>2, <2>3, <2>4 DEF TypeOK, Chips
<1>6. InterruptsAreExpected
  BY DEF InterruptsAreExpected
<1>7. ControllersState
  BY <1>3, <1>4 DEF ControllersState, PicMasked, Uninterrupted, LapicSteps
<1>8. ApicsState
  BY <1>4 DEF ApicsState, Uninterrupted, PicSteps, LapicSteps, IoapicSteps
<1>9. ServiceState
  BY <1>3 DEF ServiceState
<1>10. SleepState
  BY <1>4 DEF SleepState, SleepSteps, CalibrationWaits
<1> QED
  BY <1>5, <1>6, <1>7, <1>8, <1>9, <1>10 DEF IInv

LEMMA NextKeeps == IInv /\ [Next]_vars => IInv'
<1> SUFFICES ASSUME IInv, [Next]_vars
             PROVE  IInv'
  OBVIOUS
<1>1. CASE MainStep
  BY <1>1, MainStepKeeps
<1>2. CASE DeviceStep
  BY <1>2, DeviceStepKeeps
<1>3. CASE Deliver
  BY <1>3, DeliversOwnKeeps, DeliversSlavesKeeps, DeliversApicsKeeps DEF Deliver
<1>4. CASE HandlerStep
  BY <1>4, HandlerRunsKeeps, HandlerEndsKeeps DEF HandlerStep
<1>5. CASE UNCHANGED vars
  BY <1>5, StutterKeeps
<1> QED
  BY <1>1, <1>2, <1>3, <1>4, <1>5 DEF Next

LEMMA IInvHolds == Spec => []IInv
BY InitEstablishes, NextKeeps, PTL DEF Spec

(***************************************************************************)
(* The state of the boot, its controllers and its interrupts are always of *)
(* their types, on every machine (main.c:31-57).                           *)
(***************************************************************************)
THEOREM BootTypeCorrect == Spec => []TypeOK
<1>1. IInv => TypeOK
  BY DEF IInv
<1> QED
  BY <1>1, IInvHolds, PTL

(***************************************************************************)
(* No interrupt ever comes to the gate of an exception: interrupts are off *)
(* until the gates are loaded and the vectors moved (pic.c:26-39).         *)
(***************************************************************************)
THEOREM NoUnexpectedInterrupt == Spec => []InterruptsAreExpected
<1>1. IInv => InterruptsAreExpected
  BY DEF IInv
<1> QED
  BY <1>1, IInvHolds, PTL

(***************************************************************************)
(* Every interrupt is ended at the controller it came from, in whichever   *)
(* step of lapic_install and ioapic_install it is taken (idt.c:108).       *)
(***************************************************************************)
THEOREM EveryInterruptIsEnded == Spec => []NothingLeftInService
<1>1. IInv => NothingLeftInService
  BY DEF IInv, ServiceState, NothingLeftInService
<1> QED
  BY <1>1, IInvHolds, PTL

(***************************************************************************)
(* The timer never has two ways to the processor: once the local APIC is   *)
(* on the first controller is masked, and stays so (lapic.c:70).           *)
(***************************************************************************)
THEOREM TheTimerHasOneRoute == Spec => []OneRoute
<1>1. IInv => OneRoute
  BY DEF IInv, ControllersState, PicMasked, OneRoute, Inputs
<1> QED
  BY <1>1, IInvHolds, PTL

(***************************************************************************)
(* The calibration reads the counter after all the ticks of a millisecond  *)
(* but the first, however many ticks that is (lapic.c:40-47, pit.c).       *)
(***************************************************************************)
THEOREM CalibrationIsLongEnough == Spec => []CalibrationWaits
<1>1. IInv => CalibrationWaits
  BY DEF IInv, SleepState
<1> QED
  BY <1>1, IInvHolds, PTL

-----------------------------------------------------------------------------
(***************************************************************************)
(* The end of the boot.                                                    *)
(***************************************************************************)
LEMMA PlainFacts ==
  ASSUME machine \in Machines, Plain(machine)
  PROVE  /\ machine.apic
         /\ IdMatches
         /\ ioapic_get_gsi(Gsi(0)) = "found"
         /\ Gsi(0) - machine.ioapics[1].gsi_base \in Pins
<1>1. machine.apic /\ HasIoapic /\ IdMatches
  BY DEF Plain, HasIoapic, IdMatches
<1>2. PICK gsi \in Nat : gsi = Gsi(0)
  BY MachineFacts
<1>3. PICK base \in Nat, last \in Nat :
        base = machine.ioapics[1].gsi_base /\ last = machine.ioapics[1].last
  BY <1>1, MachineFacts DEF Ioapic
<1>4. gsi \in base .. (base + last - 1)
  BY <1>2, <1>3 DEF Plain
<1>5. gsi - base \in 0 .. last /\ base <= gsi /\ base + last > gsi
  BY <1>4
<1>6. Gsi(0) - machine.ioapics[1].gsi_base \in Pins
  BY <1>2, <1>3, <1>5 DEF Pins
<1>7. ioapic_get_gsi(Gsi(0)) = "found"
  <2>1. Covers(machine.ioapics[1], Gsi(0)) /\ machine.ioapics[1].gsi_base <= Gsi(0)
    BY <1>2, <1>3, <1>5 DEF Covers
  <2>2. 1 \in 1 .. Len(machine.ioapics)
    <3>1. machine.ioapics \in Seq(Ioapic) /\ machine.ioapics # <<>>
      BY <1>1, MachinesAssumption DEF HasIoapic
    <3> QED
      BY <3>1
  <2> QED
    BY <2>1, <2>2 DEF ioapic_get_gsi
<1> QED
  BY <1>1, <1>6, <1>7

\* The machine remains what it is, and so does what depends on it alone.
LEMMA MachineKept ==
  ASSUME [Next]_vars
  PROVE  /\ machine' = machine
         /\ Plain(machine)' <=> Plain(machine)
         /\ unmasked' = unmasked => (Routed' <=> Routed)
<1>1. machine' = machine
  <2>1. CASE MainStep
    BY <2>1 DEF MainStep, idt_install, pic_install, pit_install, InstallsMemory,
       InstallStops, InstallLoops, Stops, cpu_check_apic, pic_disable, LapicMapped, LapicSwitchedOn,
       LapicEnabled, IoapicMissing, IoapicMismatches, IoapicMasks, IoapicEnabled,
       pit_reinstall, RedirectFails, CalibrationBegins, CalibrationFaults,
       SleepBegins, SleepChecks, Halts, CalibrationEnds
  <2>2. CASE DeviceStep
    BY <2>2 DEF DeviceStep
  <2>3. CASE Deliver
    BY <2>3 DEF Deliver, DeliversOwn, DeliversSlaves, DeliversApics
  <2>4. CASE HandlerStep
    BY <2>4 DEF HandlerStep, HandlerRuns, HandlerEnds
  <2>5. CASE UNCHANGED vars
    BY <2>5 DEF vars
  <2> QED
    BY <2>1, <2>2, <2>3, <2>4, <2>5 DEF Next
<1>2. Gsi(0)' = Gsi(0)
  BY <1>1 DEF Gsi
<1>3. Plain(machine)' <=> Plain(machine)
  BY <1>1, <1>2 DEF Plain
<1>4. unmasked' = unmasked => (Routed' <=> Routed)
  BY <1>1, <1>2 DEF Routed, HasIoapic, Pins
<1> QED
  BY <1>1, <1>3, <1>4

\* Before there is a handler, and before interrupts are on, none is at work.
LEMMA HandlerStateKept == IInv /\ HandlerState /\ [Next]_vars => HandlerState'
<1> SUFFICES ASSUME IInv, HandlerState, [Next]_vars
             PROVE  HandlerState'
  OBVIOUS
<1> USE DEF HandlerState, Uninterrupted
<1>1. CASE MainStep
  <2> USE OrderFacts DEF Executing, Continues, Stops, controllers, flags, cpu_vars,
      sleep_vars
  <2>1. CASE idt_install \/ pic_install \/ pit_install
             \/ InstallsMemory \/ InstallStops \/ InstallLoops
    BY <2>1 DEF idt_install, pic_install, pit_install, InstallsMemory,
       InstallStops, InstallLoops
  <2>2. CASE cpu_check_apic \/ pic_disable \/ LapicMapped \/ LapicSwitchedOn
             \/ LapicEnabled
    BY <2>2 DEF cpu_check_apic, pic_disable, LapicMapped, LapicSwitchedOn,
       LapicEnabled
  <2>3. CASE IoapicMissing \/ IoapicMismatches \/ IoapicMasks \/ IoapicEnabled
             \/ pit_reinstall \/ RedirectFails
    BY <2>3 DEF IoapicMissing, IoapicMismatches, IoapicMasks, IoapicEnabled,
       pit_reinstall, RedirectFails
  <2>4. CASE CalibrationBegins \/ CalibrationFaults \/ SleepBegins \/ SleepChecks
             \/ Halts \/ CalibrationEnds
    BY <2>4 DEF CalibrationBegins, CalibrationFaults, SleepBegins, SleepChecks,
       Halts, CalibrationEnds
  <2> QED
    BY <1>1, <2>1, <2>2, <2>3, <2>4 DEF MainStep
<1>2. CASE DeviceStep
  BY <1>2 DEF DeviceStep, flags, cpu_vars
<1>3. CASE Deliver
  <2>1. ASSUME NEW inter, inter # None, Enters(inter), UNCHANGED <<pc, flags>>
        PROVE  HandlerState'
    BY <2>1 DEF Enters, flags
  <2>2. CASE DeliversOwn
    <3>1. PICK input :
            Enters([irq |-> input, by |-> "pic", at |-> "handler",
                    vector |-> pic[MASTER].base + input])
      BY <2>2 DEF DeliversOwn
    <3> QED
      BY <2>1, <2>2, <3>1 DEF DeliversOwn, None
  <2>3. CASE DeliversSlaves
    BY <2>1, <2>3 DEF DeliversSlaves, None
  <2>4. CASE DeliversApics
    BY <2>1, <2>4 DEF DeliversApics, None
  <2> QED
    BY <1>3, <2>2, <2>3, <2>4 DEF Deliver
<1>4. CASE HandlerStep
  <2>1. CASE HandlerRuns
    <3>1. serving # None /\ serving.at = "handler"
      BY <2>1, ServingFacts DEF HandlerRuns, Handling
    <3>2. serving' # None
      BY <2>1, <3>1, ServingFacts DEF HandlerRuns, Handling, None, Inter
    <3> QED
      BY <2>1, <3>2 DEF HandlerRuns, flags
  <2>2. CASE HandlerEnds
    BY <2>2 DEF HandlerEnds, flags
  <2> QED
    BY <1>4, <2>1, <2>2 DEF HandlerStep
<1>5. CASE UNCHANGED vars
  BY <1>5 DEF vars, flags, cpu_vars
<1> QED
  BY <1>1, <1>2, <1>3, <1>4, <1>5 DEF Next

\* What the steps of _main leave alone of the route, and what they add to it.
LEMMA RouteStateKept == IInv /\ RouteState /\ [Next]_vars => RouteState'
<1> SUFFICES ASSUME IInv, RouteState, [Next]_vars, Plain(machine)
             PROVE  /\ StopsInInstalls'
                    /\ pc' \in IoapicSteps \union RoutedSteps => lapic' = "on"
                    /\ pc' = "pit_reinstall" => ioapic_enabled'
                    /\ pc' \in RoutedSteps => Routed'
  BY MachineKept DEF RouteState
<1>1. /\ StopsInInstalls
      /\ pc \in IoapicSteps \union RoutedSteps => lapic = "on"
      /\ pc = "pit_reinstall" => ioapic_enabled
      /\ pc \in RoutedSteps => Routed
  BY DEF RouteState
<1>2. /\ machine.apic /\ IdMatches
      /\ ioapic_get_gsi(Gsi(0)) = "found"
      /\ Gsi(0) - machine.ioapics[1].gsi_base \in Pins
  BY PlainFacts DEF IInv, TypeOK
<1>3. machine' = machine /\ (unmasked' = unmasked => (Routed' <=> Routed))
  BY MachineKept
<1>4. pc = "lapic_enabled" => lapic = "on"
  BY DEF IInv, ApicsState
<1> HIDE DEF RouteState
<1> USE DEF IoapicSteps, RoutedSteps, StopsInInstalls
<1>5. CASE MainStep
  <2> USE OrderFacts DEF Executing, Continues, Stops, controllers, flags, cpu_vars,
      sleep_vars
  <2>1. CASE idt_install \/ pic_install \/ pit_install
             \/ InstallsMemory \/ InstallLoops
    BY <1>1, <1>3, <2>1
       DEF idt_install, pic_install, pit_install, InstallsMemory, InstallLoops
  <2>10. CASE InstallStops
    BY <1>1, <1>3, <2>10 DEF InstallStops
  <2>2. CASE cpu_check_apic \/ pic_disable \/ LapicMapped \/ LapicSwitchedOn
    BY <1>1, <1>2, <1>3, <2>2
       DEF cpu_check_apic, pic_disable, LapicMapped, LapicSwitchedOn
  <2>3. CASE LapicEnabled
    BY <1>1, <1>3, <1>4, <2>3 DEF LapicEnabled
  <2>4. CASE IoapicMissing \/ IoapicMismatches
    BY <1>2, <2>4 DEF IoapicMissing, IoapicMismatches, IdMatches
  <2>5. CASE IoapicMasks
    BY <1>1, <2>5 DEF IoapicMasks
  <2>6. CASE IoapicEnabled
    BY <1>1, <2>6 DEF IoapicEnabled
  <2>7. CASE pit_reinstall
    <3>1. ioapic_enabled /\ lapic' = lapic /\ lapic = "on" /\ fate' = fate
      BY <1>1, <2>7 DEF pit_reinstall
    <3>2. unmasked' = unmasked \union {Gsi(0) - machine.ioapics[1].gsi_base}
      BY <2>7, <3>1 DEF pit_reinstall
    <3>3. Gsi(0)' = Gsi(0)
      BY <1>3 DEF Gsi
    <3>4. Routed'
      BY <1>2, <1>3, <3>2, <3>3 DEF Routed, IdMatches, HasIoapic, Pins
    <3> QED
      BY <1>1, <2>7, <3>1, <3>4 DEF pit_reinstall
  <2>8. CASE RedirectFails \/ CalibrationFaults
    BY <1>1, <1>2, <2>8 DEF RedirectFails, CalibrationFaults
  <2>9. CASE CalibrationBegins \/ SleepBegins \/ SleepChecks \/ Halts
             \/ CalibrationEnds
    BY <1>1, <1>3, <2>9
       DEF CalibrationBegins, SleepBegins, SleepChecks, Halts, CalibrationEnds
  <2> QED
    BY <1>5, <2>1, <2>2, <2>3, <2>4, <2>5, <2>6, <2>7, <2>8, <2>9, <2>10
       DEF MainStep
<1>6. CASE DeviceStep
  BY <1>1, <1>3, <1>6
     DEF DeviceStep, PitEdge, KeyEdge, SlaveEdge, flags, cpu_vars, sleep_vars
<1>7. CASE Deliver
  <2>1. UNCHANGED <<pc, lapic, unmasked, ioapic_enabled>>
    BY <1>7 DEF Deliver, DeliversOwn, DeliversSlaves, DeliversApics, flags
  <2>2. fate' \in {"up", "exception"}
    BY <1>7 DEF Deliver, DeliversOwn, DeliversSlaves, DeliversApics, MayDeliver, Enters
  <2>3. fate' # "exception"
    BY NextKeeps DEF IInv, InterruptsAreExpected
  <2> QED
    BY <1>1, <1>3, <2>1, <2>2, <2>3
<1>8. CASE HandlerStep
  BY <1>1, <1>3, <1>8
     DEF HandlerStep, HandlerRuns, HandlerEnds, Handling, controllers, flags
<1>9. CASE UNCHANGED vars
  BY <1>1, <1>3, <1>9 DEF vars, controllers, flags, cpu_vars
<1> QED
  BY <1>5, <1>6, <1>7, <1>8, <1>9 DEF Next

(***************************************************************************)
(* On a machine whose APICs are as Plain says, whatever interrupts come,   *)
(* the kernel is stopped nowhere but in a function that installs memory or *)
(* ACPI, or in the vmm_map of an APIC, in one of the ways in which PMM,    *)
(* VMM, KernelHeap and Acpi stop; and when it has come to sched_install    *)
(* the timer has its handler and its route through the local APIC, and     *)
(* interrupts are on: what the scheduler is started in (main.c:31-57).     *)
(***************************************************************************)
THEOREM TheBootHandsOver ==
  Spec => [](Plain(machine) => /\ fate # "up" => /\ pc \in DOMAIN Ends
                                                /\ fate \in Ends[pc]
                               /\ pc = "sched_install" => HandsOver)
<1>1. Init => HandlerState /\ RouteState
  BY OrderFacts
     DEF Init, HandlerState, RouteState, StopsInInstalls, Uninterrupted,
     IoapicSteps, RoutedSteps
<1>2. IInv /\ HandlerState /\ RouteState =>
        (Plain(machine) => /\ fate # "up" => /\ pc \in DOMAIN Ends
                                            /\ fate \in Ends[pc]
                           /\ pc = "sched_install" => HandsOver)
  BY DEF IInv, ApicsState, HandlerState, RouteState, StopsInInstalls, HandsOver,
     RoutedSteps, IoapicSteps, Uninterrupted, PicSteps, LapicSteps
<1> QED
  BY <1>1, <1>2, IInvHolds, HandlerStateKept, RouteStateKept, PTL DEF Spec
=============================================================================
