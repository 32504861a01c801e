----------------------------- MODULE VmmInstall -----------------------------
(***************************************************************************)
(* vmm_install, kernel/mm/vmm.c, from the moment paging is enabled: five   *)
(* loops that call vmm_map, for the sections of the kernel as the linker   *)
(* script, kernel/linker.ld, has laid them out, and for the frame buffer.  *)
(* Each call is VMM's, in its small steps.                                 *)
(***************************************************************************)
EXTENDS VMM, Sequences

CONSTANTS
  PAGE_SIZE,   \* 4096
  EntryCount,  \* 1024: the entries of a page table
  WORD,        \* 2^32: the number of addresses
  HIGH,        \* 0xC0000000
  START,       \* 2M, where the linker script begins
  Layouts      \* sizes of the sections, and frame buffers

VARIABLES
  layout,  \* the kernel and the machine
  loop,    \* which of the loops is executed; after the last, vmm_install ends
  at       \* its variable: text, rodata, data, bss or vmem

install_vars == <<vmm_vars, layout, loop, at>>

-----------------------------------------------------------------------------
(***************************************************************************)
(* The symbols of the linker script.  Each section is aligned, but its     *)
(* first symbol is set before that: it is the end of the section before.   *)
(***************************************************************************)
ALIGN(address) == ((address + PAGE_SIZE - 1) \div PAGE_SIZE) * PAGE_SIZE

Ends(l) ==
  LET text_end   == START + l.text
      rodata_end == ALIGN(text_end) + l.rodata
      data_end   == ALIGN(rodata_end) + l.data
  IN  <<text_end, rodata_end, data_end, ALIGN(data_end) + l.bss>>

\* What the loops go through.  In text mode there is no frame buffer.
Frame == 5

From(l, n) ==
  CASE n = 1            -> START
    [] n \in 2 .. 4     -> Ends(l)[n - 1]
    [] n = Frame        -> l.addr

To(l, n) ==
  CASE n \in 1 .. 4     -> Ends(l)[n]
    [] n = Frame        -> (l.addr + l.bytes) % WORD

Rights(n) == IF n \in {1, 2} THEN "read" ELSE "write"

\* The page a loop maps an address at.
Virtual(n, address) ==
  LET to == IF n = Frame THEN address ELSE (address - HIGH + START) % WORD
  IN  <<to \div (PAGE_SIZE * EntryCount), (to \div PAGE_SIZE) % EntryCount>>

\* The page table entry for it.
Entry(n, address) == [page |-> address \div PAGE_SIZE, rights |-> Rights(n)]

\* No frame buffer ends within the last page of the address space, where the
\* loop would wrap around; and no slot of the directory is used that VMM does
\* not know.
ASSUME LayoutsAssumption ==
  /\ PAGE_SIZE \in Nat \ {0} /\ EntryCount \in Nat \ {0} /\ WORD \in Nat \ {0}
  /\ HIGH \in Nat /\ START \in Nat
  /\ \A l \in Layouts : \A n \in 1 .. 5 :
       /\ From(l, n) \in Nat /\ To(l, n) \in Nat /\ To(l, n) + PAGE_SIZE <= WORD
       /\ \A address \in From(l, n) .. (To(l, n) - 1) :
            Virtual(n, address) \in Pages /\ Entry(n, address) \in Targets

\* The kernel begins with a page, and is mapped by whole pages; and no frame
\* buffer lies at the addresses the kernel is mapped at.
ASSUME PagesAssumption ==
  /\ START % PAGE_SIZE = 0 /\ HIGH % PAGE_SIZE = 0 /\ WORD % PAGE_SIZE = 0
  /\ \A l \in Layouts :
       /\ l.text \in Nat /\ l.rodata \in Nat /\ l.data \in Nat /\ l.bss \in Nat
       /\ \A n \in 1 .. 4 : \A address \in From(l, n) .. (To(l, n) - 1) :
            \A vmem \in From(l, Frame) .. (To(l, Frame) - 1) :
              Virtual(n, address) # Virtual(Frame, vmem)

-----------------------------------------------------------------------------
InstallInit ==
  /\ Init
  /\ layout \in Layouts
  /\ loop = 1
  /\ at = START

\* Mutant: the loops map whole pages only.
InLoopWhole(address, end) == address + PAGE_SIZE <= end

InLoop(address, end) == address < end

InstallMaps ==
  /\ loop <= Frame
  /\ InLoop(at, To(layout, loop))
  /\ vmm_map(Entry(loop, at), Virtual(loop, at))
  /\ at' = (at + PAGE_SIZE) % WORD
  /\ UNCHANGED <<layout, loop>>

InstallGoesOn ==
  /\ vmm_pc = "idle"
  /\ loop <= Frame
  /\ ~InLoop(at, To(layout, loop))
  /\ loop' = loop + 1
  /\ at' = IF loop < Frame THEN From(layout, loop + 1) ELSE at
  /\ UNCHANGED <<vmm_vars, layout>>

InstallStep ==
  \/ InstallMaps
  \/ InstallGoesOn
  \/ CallStep /\ UNCHANGED <<layout, loop, at>>

vmm_install ==
  \/ InstallStep
  \/ \E v \in Pages : Walk(v) /\ UNCHANGED <<layout, loop, at>>

InstallSpec ==
  InstallInit /\ [][vmm_install]_install_vars /\ WF_install_vars(InstallStep)

-----------------------------------------------------------------------------
(***************************************************************************)
(* vmm_install ends, and then each section is mapped where it belongs with *)
(* the rights it is given, and the frame buffer to itself, up to its last  *)
(* byte; nothing else is mapped (vmm.c:100-113).  But that the loops begin *)
(* where the section before ends has two consequences: the last page of    *)
(* .rodata is mapped once more, as if it were .data, unless it is full;    *)
(* and the last page of .bss is mapped only if its first byte in a page,   *)
(* the end of .data, comes no later than its last.  The same is so for a   *)
(* frame buffer that does not begin with a page.                           *)
(***************************************************************************)
FirstPage(n) == (IF n = Frame THEN From(layout, n) ELSE ALIGN(From(layout, n))) \div PAGE_SIZE
LastPage(n)  == (To(layout, n) - 1) \div PAGE_SIZE

MissesLast(n) ==
  n \in {4, Frame} /\ From(layout, n) % PAGE_SIZE > (To(layout, n) - 1) % PAGE_SIZE

PagesOf(n) == FirstPage(n) .. (IF MissesLast(n) THEN LastPage(n) - 1 ELSE LastPage(n))

TakenForData(n, p) == n = 2 /\ p = LastPage(n) /\ To(layout, n) % PAGE_SIZE # 0

Promised ==
  UNION {{<<Virtual(n, p * PAGE_SIZE),
            [page |-> p, rights |-> IF TakenForData(n, p) THEN "write" ELSE Rights(n)]>> :
              p \in PagesOf(n)} : n \in 1 .. Frame}

AllMapped ==
  /\ loop > Frame
  /\ {<<v, mapped[v]>> : v \in {v \in Pages : mapped[v] # NotPresent}} = Promised

SectionsAreMapped == <>(AllMapped \/ vmm_pc \in Stopped)
=============================================================================
