# barrelOS in TLA+

barrelOS is a small kernel for 32-bit x86 processors: about 2800 lines of C and
assembly under `src/kernel`, booted by a multiboot loader, without user mode
and without tests. These modules say what its parts do, TLC checks them on
small instances, and TLAPS proves the main results for every value of the
parameters.

## The system and its parts

`entry.S` disables interrupts, takes a 4 KB stack and calls `_main`, which
installs one part after the other, with interrupts enabled from the third on,
and ends with an interrupt to itself that starts the scheduler.

| part (`src/kernel`) | state | operations | what makes it correct |
|---|---|---|---|
| physical memory manager, `mm/pmm.c` | the bitmap of pages, the rover `pmm_last_page`, sizes | `pmm_install`, `pmm_alloc` / `pmm_find_pages`, `pmm_free` | no page has two owners, none is lost, the kernel's are never given out, every call ends |
| virtual memory manager, `mm/vmm.c` | page directory and page tables; TLB and paging-structure cache of the processor | `vmm_install`, `vmm_map`, `vmm_unmap`, `vmm_flush_tlb` | at every instant the processor translates a page to what was mapped there and nothing else; page tables are neither leaked nor freed in use |
| heap, `mm/heap.c`, `lib/alloc.c` | the header in front of each block | `kmalloc`, `kfree`, `malloc_init` | blocks do not overlap, stay usable until freed, and are given back whole; a block is not given back again while its frame has no new owner |
| scheduler, `sys/sched.c` | `sched_tasks`, `current_task`, `sched_quantum`, `sched_pid` | `sched_install`, `sched_new_task`, `sched_schedule` | tasks take turns, the chain of one-shot ticks never breaks |
| interrupt dispatch, `cpu/tables/idt.c`, `idt.S` | gates, `irq_handlers` | `irq_register`, `irq_handler`, `isr_handler` | a handler ends its own interrupt, once, at the controller it came from |
| controllers and timers, `dev/pic.c`, `pit.c`, `lapic.c`, `ioapic.c` | device registers, `pit_ticks`, `lapic_enabled`, `ioapic_enabled` | install, end of interrupt, redirect, calibrate, sleep | ticks keep arriving while their route changes; sleeps end |
| boot, `main.c`, `entry.S` | how far `_main` is | the calls of `_main` | no part is used before it is installed |
| ACPI, `acpi/acpi.c`, `madt.c` | root table, lists of I/O APICs and overrides | `acpi_install`, `acpi_find_table`, `madt_init` | the walks end, stay inside the tables and miss nothing |
| text output, `lib/console.c`, `dev/vga.c`, `lib/printf.c`, `dev/serial.c` | cursor, colours, frame buffer | `vga_puts`, `console_write`, `printf` | the cursor stays on the screen, numbers are printed as they are |
| library, `lib/libc.c` | none | `memcpy` ... `atoi` | each returns what its reference definition says |
| `lib/panic.c`, `lib/mubsan.c`, `isr_handler` | none of their own | `panic`, `__ubsan_handle_*`, `mubsan_log` | print a report, whatever has happened, and halt |
| descriptor tables, ports | none of their own | | |

How they interact. `heap.c`, `vmm.c` and `sched.c` call `pmm.c` for pages;
`heap.c` calls `vmm_map` after it has a run and `vmm_unmap` after it has
returned it; `vmm.c` itself takes a page for a table in the middle of
`vmm_map` and returns one in the middle of `vmm_unmap`. The processor reads
the page tables behind the back of all of them. Interrupts come between any
two instructions (from `pic_install` on), run with interrupts off, share
`irq_handlers`, `lapic_enabled`, `pit_ticks` and `sched_tasks` with the
interrupted code, and, when it is the scheduler's, do not come back to it.
`panic`, the undefined behaviour sanitizer and `isr_handler` print a report with
the same `printf` as everybody and then halt with interrupts off: in most
modules these are states without successors; how they get there is in `Stops`
and, for a panic among tasks and interrupts, in `Scheduler`. `vmm_install` calls
`vmm_map` some hundreds of times, for memory whose addresses the linker script
has chosen, and between its first and its last call the frame buffer cannot be
drawn on.

The hard behaviours are therefore: page table walks between two writes of
`vmm.c`; frames that are freed while translations of them are remembered;
three layers that must agree on how many pages an allocation has; a search with
a rover that is never reset; interrupts between the steps of `sched_new_task`;
a chain of one-shot timers; double frees; a report that cannot be printed;
arithmetic at the ends of the bitmap, of the sections, of the table of tasks and
of 32 bits. `PROJECT.json` lists them as hazards,
line by line.

## The modules

`PageAllocator` - what the kernel expects of `pmm.c`: a pool of frames, `Alloc`
and `Release` of runs. Abstract.

`PMM` - `pmm.c`. A page is its frame number, the bitmap is the set of pages
whose bit is 1. `pmm_install` is one action for each of its outcomes;
`pmm_find_pages` is one action per pass of its loop (`FindExtends`, `FindSkips`,
`FindTakes`, `FindPanics`, `FindNothing`, `FindRunsWild`); `AllocRetries` and
`AllocReturns` are the two ways on in `pmm_alloc`. A search that leaves the
bitmap reads memory that is not the bitmap; the model stops there and claims
nothing of what follows. `pmm_free` is called with runs its callers hold. The
variables `runs`, `reserved` and `start` are ghosts.

`VMM` - `vmm.c` and the memory management unit, over `PageAllocator`
(`Pmm == INSTANCE`). `vmm_map` and `vmm_unmap` are split into their memory
accesses (alloc, zero, publish, enter; clear, release, detach; flush). `Walk` is
the processor (external): at any instant it may walk to any page, from the
directory or from a directory entry it remembers, and remember what is present.
`OwnersTake` and `OwnersReturn` are the other users of `pmm.c`, who write into
their frames what they like. Tables are written at their physical address,
which is mapped below 4 MB only (`Identity`): beyond it `MapFaults`.
`mapped` and `was` are ghosts: what callers have asked for.

`VmmInstall` - `vmm_install` from the moment paging is enabled, EXTENDS `VMM`: its five
loops, with the small steps of each `vmm_map`. A `layout`, chosen once, is what
the linker script makes of the sizes of the sections (`Ends`: the first symbol of
a section is the end of the one before, and is not aligned) and the frame buffer of
the machine. Addresses are 32 bits wide: `Virtual` is `text - 0xC0000000 +
text_start_ld`, which for an image linked at 2 MB is 0x40400000 and not the higher half.

`KernelHeap` - `heap.c` and `alloc.c`, EXTENDS `VMM`. A block is a run of frames
with its header in the first; the calls into `vmm.c` are the small steps of
`VMM` (`VmmExecutes`), and the header is lost when its frame is overwritten.
Callers free what they hold, what they have freed before, whether or not the frame has
a new owner since, and pointers to the middle of blocks. In front of such a pointer are
a caller's data: `heap_free` refuses it (`FreeRefuses`) unless they are the magic by
chance, in which case it writes where the data says, and the model stops
(`FreeStrays`) and claims nothing of what follows. `(HEADER + n + PAGE_SIZE - 1) % WORD` is the 32-bit
arithmetic of the code: a huge size gives a block of no pages at address 0.

`Interrupts` - the local APIC with its timer (external), the functions of
`lapic.c` that write to it, the interrupt gates, and `irq_handler`. Handlers
that have been entered are a sequence of frames, so that nesting is
expressible and its absence a result.

`RoundRobin` - what a round robin scheduler promises: an order, a turn, ticks
left. Abstract.

`Scheduler` - `sched.c` and the end of `_main`, EXTENDS `Interrupts`.
`sched_new_task` is split into its steps, which the timer may interrupt and the
switch may abandon; `sched_schedule` into its own (tick or switch, first end of
interrupt, arming). A context is reduced to what `iret` makes of it: it is
created from a block nobody has initialised, so that it may run, run with
interrupts off, or fault, and it is never saved again, so that what it is at
creation it stays. The repository creates only the idle task; that other code
calls `sched_new_task` is an assumption. A `panic` in `sched_new_task` prints with
interrupts enabled, where it may be interrupted and switched away from like
anything else, and then disables them (`PanicHalts`). An allocation in
`sched_new_task` may also fault, on a page table out of reach, or search beyond the
bitmap (`NewTaskStops`).

`Acpi` - `acpi_install`, `acpi_find_table` and `madt_init`: one action per probe
for the root pointer, per entry of the root table, per entry of the MADT. What
the firmware has left in memory is a `machine`, chosen once; a table that
the root lists is the number of bytes of its signature that are those of "APIC"
(`memcmp` reads no further than the first that differs) and how much of it is in the
one page that is mapped. What
is read behind the end of the MADT is part of the machine too, because the code
reads it: a machine's entries go on behind those that are the MADT's own, each
with the offset it is at (`Offset`, which `MachinesAssumption` ties to the lengths), to
where the memory that is described ends (`Described`).

`Boot` - `_main` call by call with `pic.c`, `pit.c`, `lapic.c`, `ioapic.c` and the
dispatch of `idt.c`. The devices are external: two 8259 controllers, driven by the
very writes that `pic.c` makes, the interval timer, a keyboard, a device of the
second controller, and the APICs. The first 8259 takes its fourth initialisation
word, ICW4, whatever it is, as QEMU's does, the only machine the Makefile runs:
because of `pic.c:6` that word is 4, without the bit for the 8086 mode, and a discrete
8259A would not send these vectors. The functions that install memory and ACPI are
one step each, which goes on, stops in one of the ways that `PMM`, `VMM`, `KernelHeap`
and `Acpi` stop (`Ends`), or never ends (`InstallLoops`). The `vmm_map` of each APIC
goes on or stops. `hlt` is a step of its own, before which a tick may come that
does not end it (`Halts`). The module does not extend `Interrupts`, which begins
where it ends, at `sched_install`, and has the one-shot timer and the
interrupts between processors instead of the 8259; `HandsOver` is the state in which
one leaves the machine to the other.

`Text`, `Vga`, `Console`, `Printf` - the text output. `Text` is what `vga_puts` and
`console_write` have in common: the text that is left to be read, `atoi`, and the
form of an escape sequence. `Vga` and `Console` read it, one turn of their loops
per action; cells and pixels are written at the cursor only, so that its place
says whether they are on the screen, and their contents are left out. `Printf`
composes them: formats become text, text goes to one of the screens, and paging
is enabled at some time in between, first without the frame buffer
(`EnablesPaging`, twice). `shown` is a ghost, what has been drawn.

`Stops` - `panic.c`, `mubsan.c` and `isr_handler`, EXTENDS `Printf`. Any code may stop
when it is not printing; an exception that comes with no instruction (the
non-maskable interrupt) may stop it between two characters (`BetweenCharacters`) and in
the middle of one, when the cursor has left its line and not been brought back
(`WithinCharacter`); and printing itself may stop, at a page fault or in the sanitizer. Each stop has a report, a sequence of calls of `printf`, and a report
that cannot be printed is a stop in its turn, on the same stack. `stops` is what is
on that stack. The handlers of the sanitizer are told apart by the arguments
they print.

`PMM_proofs`, `VMM_proofs`, `VmmInstall_proofs`, `KernelHeap_proofs`,
`Scheduler_proofs`, `Acpi_proofs`, `Boot_proofs`, `Stops_proofs` - theorems about the
module each is named after; `KernelHeap_proofs` extends `VMM_proofs`, as the heap
does the virtual memory manager, and `Stops_proofs` covers all of the text output.
`MC*` modules and `.cfg` files are the instances.

## What the runs check

Every property has a mutant, an operator next to the one it replaces
(commented `Mutant:`), with which TLC finds the property violated.

* `pmm` - every kind of memory map: flagged invalid, without usable memory, one
  region, two regions with a gap, sizes that leave bits over; runs of 0, 1 and 2
  pages of 2 bytes in at most 16 pages. `Ledger` (the bitmap is exactly what was
  reserved and what is held), `NoOverlap`, `KernelIsSafe` (no page of low
  memory, image or bitmap is given out, and so page 0 can stand for "nothing
  found"), `NextFit` (no free run is passed over), `AllocEnds`,
  and `ImplementsPageAllocator`. Sixteen pages are enough for runs that end at
  the limit, jump over it, and leave the bitmap.
* `pmm_out_of_memory`, `pmm_available` - two statements of the code that it
  violates, see below.
* `vmm` - two slots, two entries each, three frames of which one is beyond the
  identity mapping, two targets. Two slots share frames one after the other, so
  that a table freed by one becomes the table, or the data, of another.
  `TablesSayWhatIsMapped`, `NothingStale`, `TablesAreOwned`, `NoEmptyTable`.
* `install` - 64 kernels and machines: sections that end with a page and within
  one, last pages of `.bss` that are mapped and that are not, no frame buffer, one that
  is aligned, one that is not, one at the end of the address space; pages of four
  bytes. `SectionsAreMapped`: `vmm_install` ends, by a panic or a fault or with exactly
  the pages mapped that belong to the sections and the frame buffer, with the
  rights they are given - but for two pages, see below.
* `heap` - seven frames in two slots of four entries, two of the frames beyond
  the identity mapping; sizes of one page, of two, and one that wraps around.
  `NothingIsLost`, `BlocksAreApart`, `BlocksStayUsable`, `OnlyTheLiveIsFreed`
  (a `kfree` that gets past the magic gives back one live block, whole: a second one
  gives nothing away while no block begins at its frame, and what stops it is the
  page fault, not the magic; once a new block begins there nothing stops it, and
  the old pointer frees the new owner's block), `HeapCallsEnd`.
* `sched` - a table of three places, one task too many, a quantum of 1, and all
  three kinds of context for each task. `TableIsQueue`, `OneTickOnItsWay`,
  `EndsItsOwn`, `ImplementsRoundRobin`, `EveryTaskHasItsTurn`, `PanicsEnd` (a panic halts
  the processor, or the task that panics has lost it to another). With three tasks
  the scan has a first, a middle and a last case; a fourth is dropped.
* `acpi` - every kind of root table with a small MADT, and every kind of MADT
  with whatever may lie behind it; pages that end behind the tables, within the
  MADT, its header, or the root table, and a second MADT when the first is cut short. `LookupIsRight` (the first MADT listed is
  found; NULL means there is none), `NothingMissed` (however far the walk reads
  beyond the table, the lists begin with what the table says, so that
  `madt_ioapic_list[0]` is its first I/O APIC), `InstallEnds`.
* `acpi_not_found`, `boot_slave` - two more statements the code violates.
* `boot` - 40 machines: with and without a local APIC, no I/O APIC, one, two in
  both orders, a wrong id, the timer wired to each input, to the last, and to the
  other I/O APIC. `InterruptsAreExpected` (no interrupt comes to the gate of an
  exception), `NothingLeftInService` and `OneRoute` (the flag `lapic_enabled` and
  the way of the timer's interrupt change while interrupts come),
  `CalibrationWaits`, `BootEnds` (from `cpu_check_apic` on, that is once memory and ACPI are
  installed, a machine with the APICs that `Plain` asks for gets to `sched_install`, as
  ticks keep arriving and `pit_sleep` ends, or stops in the `vmm_map` of an APIC).
* `printf` - any number of calls with formats of one or two pieces, on a text
  screen of 3 by 2 and on three frame buffers: without a border, with one, and
  with one whose scrolling reads beyond the last page; before, while and after paging is
  enabled; ended by each kind of stop at each place. `CursorOnScreen`,
  `TextIsShown` (no character of a sequence is drawn and none behind it is lost; every
  number reads back, as an unbounded one, while `atoi` in C has an `int`), `StopsAreReported` (where the screen is sound a report comes to
  its end and the processor halts, however the printing before it was left).

What they show of the code, apart from its being right:

1. `pmm.c:79` panics "out of memory" although pages are free: the retry from
   page 0 comes after the panic, and the rover never goes back. Once the kernel
   has allocated each page once, the next request ends it
   (`pmm_out_of_memory`).
2. `pmm.c:54-55` shorten the kernel's region by less than they move it, so
   that memory behind its end becomes free (`pmm_available`).
3. `acpi.c:53` adds 16 to a pointer to words of two bytes, and so looks at every
   second paragraph only: "couldn't find ACPI" although it is there
   (`acpi_not_found`).
4. `pic.c:6` gives the second controller the address of the first, which is
   initialised by two interleaved sequences; the second is not initialised at
   all (`boot_slave`). On QEMU the boot survives it: nothing of the second is expected,
   and the mask set by `pic_disable` covers the input it is at.

Not violations of any statement of the repository, but visible in the models:
`pmm.c:78` compares the start of a run with the limit for equality, so that a run of
two pages jumps over it and the search goes on beyond the bitmap (`FindRunsWild`);
the last page of `.rodata` is mapped a second time, writable, as if it were
`.data`, unless it is full (`TakenForData`); the last page of `.bss` is not mapped when the
end of `.data` lies further into its page than the end of `.bss` (`MissesLast`), and
so the last page of a frame buffer that is not aligned; an exception between the
statements of `console_putchar` that move the cursor and bring it back into the last
line (`console.c:76-83`) finds it where nothing can be drawn; a panic between the enabling
of paging and the mapping of the frame buffer cannot be drawn, faults, cannot
report that either, and goes on until the stack has run over what is below it
(`StackOverflows`); a task that panics prints with interrupts enabled, may be switched
away from in the middle of its report, and starts anew at its next turn;
`heap_alloc` maps the first page of a block only; the list of blocks is
never linked; a page table above 4 MB is a page fault; a context switch saves
nothing and abandons what was running, in the middle of `sched_new_task` too;
a turn lasts one tick longer than the quantum; a 257th task is lost. The entries
of an XSDT are read in words of four bytes, so that the second is the upper half of
the first, a page fault; `madt_init` reads up to 40 bytes behind the MADT; the last
input of an I/O APIC is never found (`ioapic.c:32`) and its caller writes through
NULL; an I/O APIC whose id is not the one the MADT says leaves the timer without a
way, and `pit_sleep` waits for ever. On the screen in text mode backgrounds are never
set, and the character behind a colour sequence is drawn unread, the
terminating zero included; on a frame buffer `2J` and `H` are taken for
unterminated sequences, which the sanitizer stops at `buf[4]`; a backspace at
the origin loses the cursor, and with paging that is a page fault; scrolling reads
beyond the frame buffer when its height is not a multiple of 16.

### Bounds

The constants of a `.cfg` are the bounds. Frames, pages, slots, entries,
blocks and sizes are finite in the program and smaller in the instances; no
counter is capped (`sched_pid` is bounded by the blocks there are). Blocks in
`Scheduler` are numbered in the order in which they are handed out, because
their addresses are not used. `Acpi` has an area of six paragraphs, enough for a
root pointer at an even and an odd one and none, and lists of three places, which some
MADTs fill and some overflow. `Boot` has a millisecond of three ticks, so that a
sleep has a first, a middle and a last. In `Printf` the screen is small enough for
two pieces to fill it, a byte has eight values (more than the rows, so that a lost
cursor must come back through all of them), and `BACK` bounds how far a cursor that
has left the top of a frame buffer is followed before paging is enabled; of reports in the
middle of reports there are three (`NESTED`), the buffers of a kilobyte that the stack of
four has room for, and each has the least text that still has every part.
`VmmInstall` has pages of four bytes and addresses of seven bits, so that sections of
one to four bytes end within a page, with it, and beyond it.

### Fairness

`PMM`, `VMM` and `KernelHeap`: weak fairness of what the processor executes once
a function has been called. There is one processor, interrupt handlers
return, and none of them calls these functions; only calls themselves are never
forced. `Scheduler`: weak fairness of handlers, of the delivery of interrupts the
processor accepts, and of the timer; strong fairness of the running thread,
because interrupts disable its steps again and again but come at most ten
thousand times a second. `EveryTaskHasItsTurn` says what it needs besides:
contexts that run with interrupts on, and no panic. `Acpi`: weak fairness of its one
sequence of steps. `Boot`: weak fairness of the timer, of delivery and of handlers,
strong fairness of `_main`, for the reason given for the threads of `Scheduler`. `Stops`: weak
fairness of a report that has been begun; that the kernel stops is never forced. `VmmInstall`: weak fairness of its own steps. In `Scheduler` the steps of a
panic are steps of the thread, with the same strong fairness. Deadlock is not checked
(`CHECK_DEADLOCK FALSE`) where the kernel really stops: after a panic or a
fault it halts with interrupts off.

## What is proved

`PMM_proofs`, for every page size, memory map, kernel end and set of requests
that satisfy the assumptions of `PMM` (what the loader guarantees,
`BootInfosAssumption`, and the alignment of the linker's `end`):
`TypeCorrect`, `LedgerIsExact`, `RunsAreDisjoint`, `SearchIsNextFit`,
`KernelIsNeverGivenOut`, `RoverOnlyAdvances`, and `Refinement`: every behaviour
of `PMM` is one of `PageAllocator`. (`RoverOnlyAdvances` is proved and not run.) All follow from one inductive invariant,

    IInv == TypeOK /\ Ledger /\ NoOverlap /\ NextFit /\ ReservedLow /\ CallState

`Ledger` alone is not inductive: that `FindTakes` marks free pages only needs
that the pages passed so far are free and inside the bitmap (`CallState`, with
`NextFit`); that nobody is given page 0, and so that `found = 0` means nothing
was found, needs `ReservedLow`; that `pmm_free` clears no bit of another run
needs `NoOverlap`. `MCPMM` checks the parts before they are proved.

`AllocIsBounded` is the safety half of `AllocEnds`: with B bits in the bitmap, every step
of a call of `pmm_alloc` lowers `StepsLeft`, which is never above 4B + 4. Counting pages is
not enough for a measure, because `FindSkips` forgets those it has counted: within a search
it is `PassesLeft`, twice the rover and once the pages counted taken from twice the bits, of
which a skip uses up at least one. `RoverBound`, that neither the rover nor a run being counted
is ever beyond the bitmap, makes it a number - also while a search runs on behind
`pmm_page_count`, where `FindRunsWild` stops it. That the processor goes on taking
the steps is the fairness of `Spec`, and left to the run.

`VMM_proofs`, for any number of frames, slots, entries and targets, and any
identity mapping: `TypeCorrect`, `TablesAreTrue`, `TablesKeepTheirFrames`,
`TablesAreWorthKeeping`, `NothingStaleIsUsed`, from

    IInv == TypeOK /\ Pmm!Exclusive /\ RunsExist /\ TablesSayWhatIsMapped
            /\ TablesAreOwned /\ CacheAgrees /\ TlbAgrees /\ CallState
            /\ TablesInUse

`NothingStale` speaks of what a walk through a remembered directory entry would
find, and is not inductive: `CacheAgrees` says that a remembered entry is the
directory's own, or, between `UnmapDetaches` and the flush, a table that has been
cleared; `TlbAgrees` that a remembered translation is mapped, or was when the call
began. That nobody else writes into a table needs `TablesAreOwned` with
`Pmm!Exclusive`; `CallState` is what each step of a call knows from the steps
before it.

`VmmInstall_proofs`, for any layout of the kernel and any frame buffer that satisfy
`LayoutsAssumption`: `InstallIsSafe`, all of the above while `vmm_install` builds the tables
it is executed through. Each of its steps is one of `VMM` (`StepsAreVmms`), because its
loops stay within the sections (`LoopsAreInRange`); the invariant is that of
`VMM_proofs`.

`InstallMapsAll` is the safety half of `SectionsAreMapped`: `vmm_install` ends only with
`AllMapped`. The argument has two halves. The first is about the steps, and knows nothing of
the layout: `CallsInv` says at every instant that a page is mapped by the last call of
`vmm_map` that was about it, of those that the loops have made and that have come to the
assignment, and that no other page is mapped; it is inductive with `LoopsAreInRange` and the
invariant of `VMM`. The second is about the layout, and knows nothing of the steps: by
page number and byte, `Joints` says how each section's loop begins in the page in which the
section before ends, `CallPages` which pages a loop comes to, `KernelPages` that the pages
which a loop with the right to write comes to are exactly those promised to be writable,
and `VirtualForm` and `SamePage` that calls about the same virtual page are about the same page.
It needs `PagesAssumption`: the kernel begins with a page and is moved by whole pages, as
`linker.ld` and the constants have it, and no frame buffer lies at the addresses the kernel is
mapped at, where the last of the loops would map over it. All of it is for any size of a
page, of a page table and of an address, so the arithmetic is about divisors that are
variables (`Parts`, `Unique`, `InOrder`).

`Scheduler_proofs`, for any length of the table, quantum, number of tasks and
kinds of their contexts: `TypeCorrect`, `TheTableIsAQueue`,
`TicksNeitherStopNorMultiply`, `HandlersEndTheirOwn`, and `Refinement`: `sched.c`
implements `RoundRobin`. The inductive invariant adds to the properties that
handlers do not nest, so that the interrupt in service is that of the handler
(`HandlersDoNotNest`), that nothing of the scheduler happens before `_main` has
started it, by which time its handler and a first task are installed
(`NothingEarly`, `ThreadState`), and that a task on its way into the table is not in
it yet (`TaskState`). The refinement rests on one more fact, `QueueIsPrefix`: the
table is full up to where the scan of `sched_new_task` stops.

`KernelHeap_proofs`, for any number of frames, sizes of the calls and order of them,
double frees included, under `HeapAssumption` (a header fits in
a page, sizes are words, the directory covers the frames, frame 0 is in the identity
mapping): `HeapTypeCorrect`, `NothingIsEverLost`,
`BlocksAreAlwaysApart`, `BlocksAlwaysStayUsable`, `NothingElseIsFreed` (an action
property: a `kfree` past its check gives back exactly one live block, and nothing else
gives back anything but page tables; which caller holds the pointer it does not say), and `PromisesHoldForTheHeap`, that the properties of `VMM` and of the
allocator survive the one caller they have. The invariant is `HInv`, that of
`VMM_proofs` with

    HeapTypeOK /\ ZeroIsNobodys /\ HeapCall /\ OwnersApart /\ HeapsOwn
    /\ EveryRunIsOwned /\ HeadersAreTrue /\ BlocksAreMapped

`NothingIsLost` and `BlocksAreApart` say who owns what between calls and are not
inductive: within one, a run belongs to a call of `kmalloc` that has not written the
header yet, a frame to a `vmm_map` that has not published its table, and a table that
`vmm_unmap` has freed is still in the directory (`OwnersApart`, `EveryRunIsOwned`).
That a second `kfree` faults while its frame has no new owner rests on `BlocksAreMapped`: the page behind a pointer is
mapped exactly while its block is live, which `HeapCall` carries through the steps of
`vmm.c`. A block of no pages is at frame 0, which `ZeroIsNobodys` keeps from being
anybody's. Each step of the heap is a step of the page tables or of the allocator
on frames that are its own, so that the invariant of `VMM_proofs` is kept by its
lemmas.

`Boot_proofs`, for every machine whose MADT has unsigned numbers, and any number of
ticks to a millisecond:
`BootTypeCorrect`, `NoUnexpectedInterrupt`, `EveryInterruptIsEnded`,
`TheTimerHasOneRoute`, `CalibrationIsLongEnough` and `TheBootHandsOver`, from

    IInv == TypeOK /\ InterruptsAreExpected /\ ControllersState /\ ApicsState
            /\ ServiceState /\ SleepState

`ControllersState` and `ApicsState` say, by where `_main` is, what the installation
has done: which words the first controller has received and which it expects, that
it is masked before the local APIC is on, and that the flag `lapic_enabled` follows
the local APIC. `ServiceState` ties what is in service to the controller it came
from, which is why the end of an interrupt is sent to the right one although the
flag changes while interrupts come. `SleepState` counts: of the ticks that `pit_sleep`
has seen or will see, only the first may have come before the calibration began.
The words written to the two controllers at one address are followed one by one
(`InitialisationBegins`, `VectorsMove`, `MaskWords`).

`TheBootHandsOver` is the safety of `BootEnds`, for the whole of the boot: on a machine as
`Plain` says the kernel is stopped nowhere but in the functions that install memory and
ACPI and in the two calls of `vmm_map`, there in the ways of `Ends`, and wherever `_main` has
come to `sched_install`, `HandsOver` is true. What those functions need in order not to stop
is not its subject but that of their own modules: of `Acpi`, for instance, that there is no
XSDT and that the root pointer is not passed over. The theorem takes two more invariants: `HandlerState`, for
the handler and the flag, and `RouteState`, for the local APIC and the route to it; the
latter needs that `ioapic_get_gsi` finds the input of the timer (`PlainFacts`), although it
takes the last input for their number. That the boot gets to `sched_install` at all is
liveness, and left to the run `boot`.

`Acpi_proofs`, for every machine of the assumptions: root tables and MADTs of any
length, lists of any capacity: `AcpiTypeCorrect`, `TheMadtIsFound`,
`NoEntryIsMissed`, from `TypeOK /\ SearchState /\ LookupIsRight /\ WalkState /\
ListsState`. `SearchState`: nothing that has been passed over is a MADT.
`WalkState`: the walk is at the offset of an entry, and all before it are behind it.
`ListsState`: the lists are what the entries passed so far say, in order. That
entries lie one behind the other for any number of them (`OffsetsGrow`) is proved by
the least entry that does not, in place of induction.

`PlainMachinesAreAccepted` is the safety half of `InstallEnds`: a machine that is `Plain` and
has no entry of length zero stops `acpi_install` nowhere but in `vmm_map`. `PlainState` says
that the search for the root pointer is at an even paragraph and has a root pointer at an
even one still before it, and that the lists are shorter than the entries
passed; each access is then within the page because it is to the root table, the signature of a
table listed before the first MADT, or that MADT and what the walk finds behind it. The attempt to prove it corrected `Plain`, for which `InstallEnds`
would not have held on a larger instance: the MADT that lies in the page has to be the first,
and the page has to go on for a byte more than what the walk comes to, since the last entry
may be one byte long and its length is in the next byte. The run has these machines now.

`Stops_proofs`, for a text screen of any size below that of a byte, any set of frame
buffers of at least 16 by 16 pixels, and any formats and reports: `StopsTypeCorrect`,
the types of the whole of `Stops` and of all it extends, `CursorStaysOnScreen`, and
`TextIsAlwaysShown`. Three invariants: `TextInv`, for what is being read and reported,
`ShownInv`, for what has been drawn of it, and

    IInv == VgaState /\ ConsoleState /\ stops \in Seq(Kinds) /\ NothingHalfway

`CursorOnScreen` is not inductive, because an exception within a character leaves the
cursor in the last column or below the last row: `NothingHalfway` says that this
has not happened before the first stop, and `VgaState` and `ConsoleState` bound how far
beyond the line a cursor gets that is lost. That a character of the screen is inside
the frame buffer whatever its border, and that what is inside it is on the screen
(`ScreenIsInFrame`, `FrameIsOnScreen`), is arithmetic with products of variables. Assumed are
`FormatsAssumption` and `ReportsAssumption`: that what `sprintf` makes of the formats is
text, of the characters the model has, that no format is empty, as none is in the
source, and that what is printed in base 10 is unsigned. For a given format TLC
evaluates it; for all of them it is induction.

`TextIsShown` speaks of texts whose printing has ended, and is not inductive: `ShownInv`
says of every turn of the loops that what is still to be read begins at a place outside
of every sequence, up to which a reader has seen exactly what has been drawn. It is kept
because both loops, wherever an escape character is next, go on where that reader does:
behind the first "m", which is the end of the sequence or too far for the buffer
(`ColourSpans`), or behind what `vga_puts` knows besides. It is claimed of the texts that
are `Readable` - each escape character begins a sequence that is terminated, and a
sequence that only `vga_puts` has is not so near to an "m" that `console_write` would take
it for a colour - and in text mode of those that are `Followed`. All formats of the run are
`Readable`; some are not `Followed`.

The values of recursive functions are the second half. That such a function exists, that
there is but one, and what it computes is proved by the least position, or the least number,
for which it does not hold, in place of induction (`RunExists`, `RunIsUnique`): for the
reader (`SeenFacts`), for `atoi` (`ValueFacts`), and for `digits`, which recurs by division
(`DigitsExist`, `DigitsFacts`). From these `NumberFacts`: the digits of a number have no zero
in front, and `atoi` is their inverse; and with the padding `PrintedNumberReadsBack`.

The parts of each invariant were model-checked before they were proved, each whole
invariant on the instance of its component.

Model-checked only: liveness (`HeapCallsEnd`, `EveryTaskHasItsTurn`, `PanicsEnd`,
`StopsAreReported`, and of `AllocEnds`, `SectionsAreMapped`, `InstallEnds` and `BootEnds`
that they come to an end, not where) and ENABLED, which are out of the prover's reach. No module has RECURSIVE operators; recursion
is written as functions. Every invariant and every action property of a passing run is a
theorem.

## What is not modelled

* `addr_high` and `len_high` of the memory map: `PMM` starts from 32-bit regions.
* The list of heap blocks beyond the links of each header.
* What is in a cell or pixel, the hardware cursor, the copy of all text on the port of a
  debugging host (`aux_output`), and a text longer than the buffer of `printf`.
* That lines of the frame buffer may be longer than their pixels: `console.c` draws by
  `width` and scrolls by `pitch`, and is modelled where it draws.
* Interrupts while text is written: handlers print only when they stop the kernel,
  and a switch that abandons a task in `printf` leaves its text unfinished.
* What is written over when the stack overflows: `Stops` ends there.
* Who holds a pointer to a block: `heap.c` does not know either. Where the data in front of
  a pointer into a block is the magic by chance, where a search of `pmm.c` has left the
  bitmap, and where the redirection writes through NULL, the models stop.
* A discrete 8259A, which would heed ICW4.
* That the block and the stack of the task which finds the table full are lost is
  visible in `Scheduler` (`NewTaskStores` drops it) and no property: nothing frees a task.
* The library (`memcpy` ... `strstr`) apart from `atoi` and the prefix test: sequential
  functions without state.
* The encoding of descriptors. A gate has room for 24 bits of an address
  (`idt.c:70`), which is enough for a kernel at 2 MB.
* `irq_unregister` and `vga_enable_cursor` have no caller. Segment descriptors and
  port access are constants and single instructions.

## Order of the work

Every module was written, checked and proved about in the order in which they are
described here. The one part of the inventory that has no module of its own is `libc.c`:
what is used of it in the text output (`atoi`, the prefix test) is in `Text`, and the rest are
loops over bytes without state.
