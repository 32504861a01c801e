-------------------------------- MODULE Acpi --------------------------------
(***************************************************************************)
(* The search for the tables of the firmware: acpi_install and             *)
(* acpi_find_table of kernel/acpi/acpi.c, madt_init of kernel/acpi/madt.c. *)
(*                                                                         *)
(* What the firmware has left in memory is a machine, chosen once:         *)
(*   rsdps     the paragraphs, of 16 bytes, of the area from 0xE0000 to    *)
(*             0xFFFFF at which the root pointer is                        *)
(*   revision  of the root pointer                                         *)
(*   high      whether the tables are above 1 GB, where HIGHER_HALF wraps  *)
(*   root      the bytes of the root table that are in its first page      *)
(*   tables    the tables it lists: as alike, how many bytes of their      *)
(*             signature, from the first on, are those of "APIC"; as       *)
(*             reach, how many of their bytes are in that same page        *)
(*   entries   what the memory from the entries of the MADT on reads as,   *)
(*             each with its distance from the first; own of them are      *)
(*             those of the table                                          *)
(* The page of the root table is the only one that acpi_install maps.      *)
(***************************************************************************)
EXTENDS Integers, Sequences

CONSTANTS
  Machines,
  Paragraphs,  \* 8192: the length of the area of the root pointer
  LIST         \* 64: the length of the lists of madt.c

SDT     == 36  \* sizeof(struct acpi_sdt)
MADT    == 44  \* sizeof(struct acpi_madt)
POINTER == 4   \* sizeof(madt), which is a pointer

Ioapic    == 1
Iso       == 2
LapicAddr == 5

SIGNATURE == 4

Table == [alike : 0 .. SIGNATURE, reach : Nat]

IsMadt(table) == table.alike = SIGNATURE

Entry == [type : Nat, at : Nat, length : Nat]

\* Where the n-th entry begins; the first behind the last is where they end.
Offset(m, n) ==
  IF n = 1 THEN 0 ELSE m.entries[n - 1].at + m.entries[n - 1].length

Endless(m) == \E n \in DOMAIN m.entries : m.entries[n].length = 0

\* The memory behind the MADT is described as far as madt_init may read.
Described(m) ==
  \/ Endless(m)
  \/ Offset(m, Len(m.entries) + 1) > Offset(m, m.own + 1) + MADT - POINTER

ASSUME MachinesAssumption ==
  \A m \in Machines :
    /\ m.rsdps \subseteq 0 .. (Paragraphs - 1)
    /\ m.root \in Nat
    /\ m.tables \in Seq(Table)
    /\ m.entries \in Seq(Entry)
    /\ \A n \in DOMAIN m.entries : m.entries[n].at = Offset(m, n)
    /\ m.own \in 0 .. Len(m.entries)
    /\ \A n \in 1 .. m.own : m.entries[n].length >= 2
    /\ Described(m)

ASSUME LengthsAssumption == Paragraphs \in Nat /\ LIST \in Nat

VARIABLES
  machine,
  fate,     \* "up", or what has stopped the kernel
  pc,
  addr,     \* the paragraph that acpi_install looks at
  madt,     \* the place in tables of what acpi_find_table has found, or 0
  i,        \* the loop counter of acpi_find_table, then of madt_init
  k,        \* the entry that is at i
  ioapics,  \* madt_ioapic_list up to madt_ioapics: the entries it points to
  isos,     \* madt_iso_list up to madt_isos
  lapic_addr

walk_vars == <<k, ioapics, isos, lapic_addr>>
vars == <<machine, fate, pc, addr, madt, i, walk_vars>>

TypeOK ==
  /\ machine \in Machines
  /\ fate \in {"up", "no_acpi", "vmm_map", "ubsan", "fault"}
  /\ pc \in {"probe", "root", "find", "walk", "installed"}
  /\ addr \in 0 .. (Paragraphs + 1)
  /\ madt \in 0 .. Len(machine.tables)
  /\ i \in Nat
  /\ k \in 1 .. (Len(machine.entries) + 1)
  /\ ioapics \in Seq(DOMAIN machine.entries) /\ Len(ioapics) <= LIST
  /\ isos \in Seq(DOMAIN machine.entries) /\ Len(isos) <= LIST
  /\ lapic_addr \in {0} \union DOMAIN machine.entries

Init ==
  /\ machine \in Machines
  /\ fate = "up"
  /\ pc = "probe"
  /\ addr = 0
  /\ madt = 0
  /\ i = 0
  /\ k = 1
  /\ ioapics = <<>>
  /\ isos = <<>>
  /\ lapic_addr = 0

At(where) == fate = "up" /\ pc = where

Stops(why) ==
  /\ fate' = why
  /\ UNCHANGED <<machine, pc, addr, madt, i, walk_vars>>

-----------------------------------------------------------------------------
(***************************************************************************)
(* acpi_install.                                                           *)
(***************************************************************************)
\* Mutant: the area is searched in words of four bytes.
ParagraphsOfUint32 == 4

\* addr += 16, where addr points to words of two bytes.
ParagraphsPerStep == 2

ProbeMisses ==
  /\ At("probe")
  /\ addr < Paragraphs
  /\ addr \notin machine.rsdps
  /\ addr' = addr + ParagraphsPerStep
  /\ UNCHANGED <<machine, fate, pc, madt, i, walk_vars>>

ProbeFinds ==
  /\ At("probe")
  /\ addr \in machine.rsdps
  /\ pc' = "root"
  /\ UNCHANGED <<machine, fate, addr, madt, i, walk_vars>>

ProbeEnds ==
  /\ At("probe")
  /\ addr >= Paragraphs
  /\ Stops("no_acpi")

acpi_use_xsdt == machine.revision # 0

RootMapped ==
  /\ At("root")
  /\ pc' = "find"
  /\ UNCHANGED <<machine, fate, addr, madt, i, walk_vars>>

\* vmm_map panics or faults for want of a page table (see PMM and VMM); or the
\* address of the root table wraps around, which the compiler may or may not
\* have the sanitizer check.
RootStops ==
  /\ At("root")
  /\ \/ Stops("vmm_map")
     \/ machine.high /\ Stops("ubsan")

-----------------------------------------------------------------------------
(***************************************************************************)
(* acpi_find_table("APIC").  The root table lists addresses of four bytes, *)
(* the XSDT of eight; both are read in words of four, and the upper halves *)
(* are zero: a table at an address where nothing is mapped.                *)
(***************************************************************************)
\* Mutant: the last entry is not looked at.
EntriesButOne == Len(machine.tables) - 1

Entries == Len(machine.tables)

RootReaches(bytes) == bytes <= machine.root

Nowhere == [alike |-> 0, reach |-> 0]

Listed ==
  IF ~acpi_use_xsdt THEN machine.tables[i + 1]
  ELSE IF i % 2 = 0 THEN machine.tables[(i \div 2) + 1]
  ELSE Nowhere

\* memcmp reads up to the first byte that differs.
Compared(table) == IF IsMadt(table) THEN SIGNATURE ELSE table.alike + 1

FindReads ==
  /\ RootReaches(SDT + 4 * (i + 1))
  /\ Listed.reach >= Compared(Listed)

FindFaults ==
  /\ At("find")
  /\ IF RootReaches(8) THEN i < Entries /\ ~FindReads ELSE TRUE
  /\ Stops("fault")

FindSkips ==
  /\ At("find")
  /\ i < Entries
  /\ FindReads
  /\ ~IsMadt(Listed)
  /\ i' = i + 1
  /\ UNCHANGED <<machine, fate, pc, addr, madt, walk_vars>>

FindTakes ==
  /\ At("find")
  /\ i < Entries
  /\ FindReads
  /\ IsMadt(Listed)
  /\ pc' = "walk"
  /\ madt' = IF acpi_use_xsdt THEN (i \div 2) + 1 ELSE i + 1
  /\ i' = 0
  /\ UNCHANGED <<machine, fate, addr, walk_vars>>

\* The result is NULL, and madt_init reads the length of the table at NULL.
FindEnds ==
  /\ At("find")
  /\ RootReaches(8)
  /\ i >= Entries
  /\ Stops("ubsan")

-----------------------------------------------------------------------------
(***************************************************************************)
(* madt_init.  The walk starts behind the header of the MADT and goes on   *)
(* up to its length less the size of a pointer, not of the header.         *)
(***************************************************************************)
MadtReaches(bytes) == bytes <= machine.tables[madt].reach

Length == MADT + Offset(machine, machine.own + 1)

\* Mutant: the entry must be as long as that of an I/O APIC.
RoomForAnIoapic == i + 12 <= Length - MADT

WalkGoesOn == i <= Length - POINTER

WalkReads == MadtReaches(MADT + i + 2)

Here == machine.entries[k]

\* Mutant: nobody checks the length of a list.
Unbounded(list) == TRUE

\* The sanitizer stops the kernel at an index beyond the end of a list.
HasRoom(list) == Len(list) < LIST

Collects(type, list) == IF Here.type = type THEN Append(list, k) ELSE list

WalkTakes ==
  /\ At("walk")
  /\ MadtReaches(8)
  /\ WalkGoesOn
  /\ WalkReads
  /\ Here.type = Ioapic => HasRoom(ioapics)
  /\ Here.type = Iso => HasRoom(isos)
  /\ ioapics' = Collects(Ioapic, ioapics)
  /\ isos' = Collects(Iso, isos)
  /\ lapic_addr' = IF Here.type = LapicAddr THEN k ELSE lapic_addr
  /\ i' = i + Here.length
  /\ k' = IF Here.length = 0 THEN k ELSE k + 1
  /\ UNCHANGED <<machine, fate, pc, addr, madt>>

WalkFaults ==
  /\ At("walk")
  /\ IF MadtReaches(8) THEN WalkGoesOn /\ ~WalkReads ELSE TRUE
  /\ Stops("fault")

WalkOverflows ==
  /\ At("walk")
  /\ MadtReaches(8)
  /\ WalkGoesOn
  /\ WalkReads
  /\ \/ Here.type = Ioapic /\ ~HasRoom(ioapics)
     \/ Here.type = Iso /\ ~HasRoom(isos)
  /\ Stops("ubsan")

WalkEnds ==
  /\ At("walk")
  /\ MadtReaches(8)
  /\ ~WalkGoesOn
  /\ pc' = "installed"
  /\ UNCHANGED <<machine, fate, addr, madt, i, walk_vars>>

-----------------------------------------------------------------------------
Next ==
  \/ ProbeMisses \/ ProbeFinds \/ ProbeEnds
  \/ RootMapped \/ RootStops
  \/ FindFaults \/ FindSkips \/ FindTakes \/ FindEnds
  \/ WalkTakes \/ WalkFaults \/ WalkOverflows \/ WalkEnds

\* Nothing else is under way but interrupts, which return.
Spec == Init /\ [][Next]_vars /\ WF_vars(Next)

-----------------------------------------------------------------------------
(***************************************************************************)
(* The search for the MADT finds it if the root table lists it, and what   *)
(* it finds is a MADT: for the RSDT, whose entries it reads as they are    *)
(* written, and for the XSDT, whose it does not (acpi.c:14-47).            *)
(***************************************************************************)
Madts == {t \in 1 .. Len(machine.tables) : IsMadt(machine.tables[t])}

LookupIsRight ==
  /\ pc \in {"walk", "installed"} =>
       madt \in Madts /\ \A t \in Madts : madt <= t
  /\ pc = "find" /\ fate = "ubsan" => Madts = {}

(***************************************************************************)
(* The walk reads on behind the end of the MADT, but misses nothing in it: *)
(* the lists begin with the I/O APICs and the overrides of the table, in   *)
(* their order, so that madt_ioapic_list[0] is the first of the table if   *)
(* it has one, and whatever was read too much comes behind (madt.c:19-36). *)
(***************************************************************************)
Own(m, type) == {n \in 1 .. m.own : m.entries[n].type = type}

BeginsWith(list, places) ==
  \E count \in 0 .. Len(list) :
    /\ {list[p] : p \in 1 .. count} = places
    /\ \A p, q \in 1 .. count : p < q => list[p] < list[q]

NothingMissed ==
  pc = "installed" =>
    /\ BeginsWith(ioapics, Own(machine, Ioapic))
    /\ BeginsWith(isos, Own(machine, Iso))
    /\ \A n \in Own(machine, LapicAddr) : lapic_addr >= n

(***************************************************************************)
(* acpi_install ends, if only by stopping the kernel, unless it comes to   *)
(* an entry of length zero; and it does not stop it on a machine whose     *)
(* root pointer is at an even paragraph, of ACPI 1.0, with the tables up   *)
(* to the first MADT in the page of the RSDT, below 1 GB, and with lists   *)
(* that are long enough (acpi.c:53, 63, 67, 75; madt.c:19).                *)
(***************************************************************************)
Plain(m) ==
  /\ \E p \in m.rsdps : p % 2 = 0
  /\ m.revision = 0
  /\ ~m.high
  /\ m.root >= SDT + 4 * Len(m.tables)
  /\ \E t \in 1 .. Len(m.tables) :
       /\ IsMadt(m.tables[t])
       /\ m.tables[t].reach > MADT + Offset(m, Len(m.entries) + 1)
       /\ \A u \in 1 .. (t - 1) :
            ~IsMadt(m.tables[u]) /\ m.tables[u].reach >= Compared(m.tables[u])
  /\ Len(m.entries) <= LIST

InstallEnds ==
  ~Endless(machine) =>
    <>IF Plain(machine) THEN pc = "installed" \/ fate = "vmm_map"
                        ELSE pc = "installed" \/ fate # "up"

(***************************************************************************)
(* What the kernel says when it stops: "couldn't find ACPI" (acpi.c:62).   *)
(***************************************************************************)
CouldNotFindIsTrue == fate = "no_acpi" => machine.rsdps = {}
=============================================================================
