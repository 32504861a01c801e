-------------------------------- MODULE PMM --------------------------------
(***************************************************************************)
(* The physical memory manager, kernel/mm/pmm.c.                           *)
(*                                                                         *)
(* A page is a page frame number and the bitmap is the set of the pages    *)
(* whose bit is 1.  pmm_install and pmm_free are one action each.  The     *)
(* search of pmm_find_pages is one action per pass of its loop, so that    *)
(* the search itself - how it extends a run, gives up on one, and stops -  *)
(* is what the properties are about.                                       *)
(*                                                                         *)
(* The ghost variables runs, reserved and start record what the callers    *)
(* hold, which bits pmm_install left at 1 and where a search began; no     *)
(* action reads them except pmm_free, whose callers (heap_free, vmm_unmap) *)
(* return what they were given.                                            *)
(***************************************************************************)
EXTENDS Integers, Sequences

CONSTANTS
  PAGE_SIZE,     \* bytes per page
  LOW_MEMORY,    \* 0x100000: memory below it is never given out
  KernelEnd,     \* the address of the linker's symbol end, page aligned
  MaxPage,       \* the last page number of the physical address space
  BootInfos,     \* the multiboot_info_t structures the loader may pass
  PageCounts     \* the arguments of pmm_alloc

MULTIBOOT_MEMORY_AVAILABLE == 1

Entry == [type : Nat, addr_low : Nat, len_low : Nat]

BootInfo == [mmap_valid : BOOLEAN, mmap : Seq(Entry)]

(***************************************************************************)
(* The macros of pmm.h.                                                    *)
(***************************************************************************)
DIV_CEILING(x, y) == (x + (y - 1)) \div y

ALIGN_UP(x, y) == DIV_CEILING(x, y) * y

(***************************************************************************)
(* The two loops of pmm_install over the memory map: the first finds the   *)
(* entry the kernel was loaded into, the second clears a bit for every     *)
(* PAGE_SIZE step through every usable entry.                              *)
(***************************************************************************)
Usable(e) ==
  /\ e.type = MULTIBOOT_MEMORY_AVAILABLE
  /\ e.addr_low >= LOW_MEMORY

UsableEntries(mmap) == {i \in DOMAIN mmap : Usable(mmap[i])}

KernelEntry(mmap) ==
  CHOOSE i \in UsableEntries(mmap) : \A j \in UsableEntries(mmap) : i <= j

PagesFrom(e) ==
  LET first == e.addr_low \div PAGE_SIZE
  IN  first .. (first + DIV_CEILING(e.len_low, PAGE_SIZE) - 1)

PageCountOf(mmap) == mmap[KernelEntry(mmap)].len_low \div PAGE_SIZE

BitmapSizeOf(mmap) == ALIGN_UP(PageCountOf(mmap) \div 8, PAGE_SIZE)

\* Mutant: the entry is cut to start after the image, where the bitmap is.
TrimmedToImage(mmap) ==
  LET e == mmap[KernelEntry(mmap)]
  IN  [e EXCEPT !.len_low = @ - (KernelEnd - e.addr_low),
                !.addr_low = KernelEnd]

\* The kernel's entry once it has been cut to start after the bitmap.
Trimmed(mmap) ==
  LET e == mmap[KernelEntry(mmap)]
  IN  [e EXCEPT !.len_low = @ - (KernelEnd - e.addr_low),
                !.addr_low = KernelEnd + BitmapSizeOf(mmap)]

PagesCleared(mmap) ==
  LET others == UsableEntries(mmap) \ {KernelEntry(mmap)}
  IN  PagesFrom(Trimmed(mmap)) \union UNION {PagesFrom(mmap[i]) : i \in others}

(***************************************************************************)
(* What the boot loader guarantees: a map with a usable entry describes    *)
(* the entry the kernel image was loaded into, with room for the bitmap    *)
(* behind the image; the usable entries after it lie above it; and the     *)
(* bitmap has no more bits than there are page numbers.                    *)
(***************************************************************************)
WellFormed(mmap) ==
  LET k == mmap[KernelEntry(mmap)]
  IN  /\ k.addr_low <= KernelEnd
      /\ KernelEnd + BitmapSizeOf(mmap) <= k.addr_low + k.len_low
      /\ \A i \in UsableEntries(mmap) \ {KernelEntry(mmap)} :
           k.addr_low + k.len_low <= mmap[i].addr_low
      /\ 8 * BitmapSizeOf(mmap) <= MaxPage + 1

ASSUME PageSizeAssumption == PAGE_SIZE \in Nat \ {0}

ASSUME AddressAssumption ==
  /\ LOW_MEMORY \in Nat
  /\ LOW_MEMORY >= PAGE_SIZE
  /\ KernelEnd \in Nat
  /\ KernelEnd >= LOW_MEMORY
  /\ KernelEnd % PAGE_SIZE = 0
  /\ MaxPage \in Nat

ASSUME BootInfosAssumption ==
  /\ BootInfos \subseteq BootInfo
  /\ \A mbd \in BootInfos :
       UsableEntries(mbd.mmap) # {} => WellFormed(mbd.mmap)

ASSUME PageCountsAssumption == PageCounts \subseteq Nat

-----------------------------------------------------------------------------
VARIABLES
  pmm_bitmap,       \* the pages whose bit is 1
  pmm_last_page,    \* the rover: where the next search begins
  pmm_page_count,
  pmm_bitmap_size,  \* in bytes
  pmm_usable_mem,
  pc,               \* what the processor is executing of pmm.c
  page_count,       \* the argument of the call in progress
  pages,            \* locals of pmm_find_pages
  first_page,
  found,            \* what pmm_find_pages returned
  attempt,          \* 1 or 2: the search pmm_alloc is waiting for
  runs,             \* ghost: the runs the callers hold
  reserved,         \* ghost: the bits pmm_install left at 1
  start             \* ghost: the rover when the current search began

globals == <<pmm_page_count, pmm_bitmap_size, pmm_usable_mem>>
locals  == <<page_count, pages, first_page, found, attempt>>
ghosts  == <<runs, reserved, start>>
vars    == <<pmm_bitmap, pmm_last_page, globals, pc, locals, ghosts>>

\* The page numbers that have a bit in the bitmap.
Bits == 0 .. (8 * pmm_bitmap_size - 1)

Run == [first : 0 .. MaxPage, count : PageCounts \ {0}]

PagesIn(run) == run.first .. (run.first + run.count - 1)

RunAt(first) == [first |-> first, count |-> page_count]

\* The processor has left pmm.c for good: panic's halt loop, the halt loop
\* of the undefined behaviour sanitizer, or a search beyond the bitmap.
Stopped == {"panic", "halt", "wild"}

TypeOK ==
  /\ pmm_bitmap \subseteq Bits
  /\ pmm_last_page \in Nat
  /\ pmm_page_count \in Nat
  /\ pmm_bitmap_size \in Nat
  /\ 8 * pmm_bitmap_size <= MaxPage + 1
  /\ pmm_usable_mem \in Nat
  /\ pc \in {"off", "ready", "find", "return"} \union Stopped
  /\ page_count \in PageCounts \union {0}
  /\ pages \in Nat
  /\ first_page \in Nat
  /\ found \in Nat
  /\ attempt \in 0 .. 2
  /\ runs \subseteq Run
  /\ reserved \subseteq Bits
  /\ start \in Nat

Init ==
  /\ pmm_bitmap = {}
  /\ pmm_last_page = 0
  /\ pmm_page_count = 0
  /\ pmm_bitmap_size = 0
  /\ pmm_usable_mem = 0
  /\ pc = "off"
  /\ page_count = 0
  /\ pages = 0
  /\ first_page = 0
  /\ found = 0
  /\ attempt = 0
  /\ runs = {}
  /\ reserved = {}
  /\ start = 0

-----------------------------------------------------------------------------
(***************************************************************************)
(* pmm_install.  A map that flags bit 6 does not vouch for is a panic; a   *)
(* map without a usable entry leaves kernel_mmmt at NULL, and reading its  *)
(* len_low halts in the sanitizer's null check.  A bit beyond the bitmap   *)
(* is cleared in memory nobody owns yet, which changes no state here.      *)
(***************************************************************************)
InstallPanics(mbd) ==
  /\ pc = "off"
  /\ ~mbd.mmap_valid
  /\ pc' = "panic"
  /\ UNCHANGED <<pmm_bitmap, pmm_last_page, globals, locals, ghosts>>

InstallHalts(mbd) ==
  /\ pc = "off"
  /\ mbd.mmap_valid
  /\ UsableEntries(mbd.mmap) = {}
  /\ pc' = "halt"
  /\ UNCHANGED <<pmm_bitmap, pmm_last_page, globals, locals, ghosts>>

pmm_install(mbd) ==
  /\ pc = "off"
  /\ mbd.mmap_valid
  /\ UsableEntries(mbd.mmap) # {}
  /\ pc' = "ready"
  /\ pmm_usable_mem' = mbd.mmap[KernelEntry(mbd.mmap)].len_low
  /\ pmm_page_count' = PageCountOf(mbd.mmap)
  /\ pmm_bitmap_size' = BitmapSizeOf(mbd.mmap)
  /\ pmm_bitmap' = Bits' \ PagesCleared(mbd.mmap)
  /\ reserved' = pmm_bitmap'
  /\ UNCHANGED <<pmm_last_page, locals, runs, start>>

(***************************************************************************)
(* pmm_alloc calls pmm_find_pages, and calls it again from page 0 when the *)
(* first call returned 0.                                                  *)
(***************************************************************************)
pmm_alloc(n) ==
  /\ pc = "ready"
  /\ pc' = "find"
  /\ page_count' = n
  /\ pages' = 0
  /\ first_page' = pmm_last_page
  /\ attempt' = 1
  /\ start' = pmm_last_page
  /\ UNCHANGED <<pmm_bitmap, pmm_last_page, globals, found, runs, reserved>>

AllocRetries ==
  /\ pc = "return"
  /\ found = 0
  /\ attempt = 1
  /\ pc' = "find"
  /\ pmm_last_page' = 0
  /\ pages' = 0
  /\ first_page' = 0
  /\ attempt' = 2
  /\ start' = 0
  /\ UNCHANGED <<pmm_bitmap, globals, page_count, found, runs, reserved>>

\* The caller gets the address of page found; 0 pages are no run at all.
AllocReturns ==
  /\ pc = "return"
  /\ found # 0 \/ attempt = 2
  /\ pc' = "ready"
  /\ runs' = IF page_count = 0 THEN runs ELSE runs \union {RunAt(found)}
  /\ page_count' = 0
  /\ pages' = 0
  /\ first_page' = 0
  /\ found' = 0
  /\ attempt' = 0
  /\ start' = 0
  /\ UNCHANGED <<pmm_bitmap, pmm_last_page, globals, reserved>>

(***************************************************************************)
(* pmm_find_pages: the passes of its while loop, in the order in which the *)
(* code tests for them.                                                    *)
(***************************************************************************)
InLoop == pc = "find" /\ pages < page_count

Probe == pmm_last_page + pages   \* the page whose bit this pass looks at

\* Mutants: one bit too few, and one too many.
PagesMarkedOneShort == first_page .. (first_page + page_count - 2)
PagesMarkedOneOver == first_page .. (first_page + page_count)

\* The bits a successful search sets.
PagesMarked == PagesIn(RunAt(first_page))

\* Mutants: give up on as many pages as were asked for; never move on from
\* a used page.
StrideOfRequest == page_count
StrideOfRun == pages

\* How far a search moves on when it meets a used page.
Stride == IF pages = 0 THEN 1 ELSE pages

FindNothing ==
  /\ pc = "find"
  /\ ~(pages < page_count)
  /\ pc' = "return"
  /\ found' = 0
  /\ UNCHANGED <<pmm_bitmap, pmm_last_page, globals, page_count, pages,
                 first_page, attempt, ghosts>>

FindPanics ==
  /\ InLoop
  /\ pmm_last_page = pmm_page_count
  /\ pc' = "panic"
  /\ UNCHANGED <<pmm_bitmap, pmm_last_page, globals, locals, ghosts>>

Probing == InLoop /\ pmm_last_page # pmm_page_count

\* The search has left the bitmap and takes whatever memory follows it for
\* more of it.  The model stops here and claims nothing of what follows.
FindRunsWild ==
  /\ Probing
  /\ Probe \notin Bits
  /\ pc' = "wild"
  /\ UNCHANGED <<pmm_bitmap, pmm_last_page, globals, locals, ghosts>>

FindExtends ==
  /\ Probing
  /\ Probe \in Bits \ pmm_bitmap
  /\ pages + 1 # page_count
  /\ pages' = pages + 1
  /\ UNCHANGED <<pmm_bitmap, pmm_last_page, globals, pc, page_count,
                 first_page, found, attempt, ghosts>>

FindTakes ==
  /\ Probing
  /\ Probe \in Bits \ pmm_bitmap
  /\ pages + 1 = page_count
  /\ pc' = "return"
  /\ pages' = pages + 1
  /\ pmm_bitmap' = pmm_bitmap \union PagesMarked
  /\ pmm_last_page' = pmm_last_page + page_count
  /\ found' = first_page
  /\ UNCHANGED <<globals, page_count, first_page, attempt, ghosts>>

FindSkips ==
  /\ Probing
  /\ Probe \in pmm_bitmap
  /\ pmm_last_page' = pmm_last_page + Stride
  /\ first_page' = pmm_last_page'
  /\ pages' = 0
  /\ UNCHANGED <<pmm_bitmap, globals, pc, page_count, found, attempt, ghosts>>

pmm_find_pages ==
  \/ FindNothing
  \/ FindPanics
  \/ FindRunsWild
  \/ FindExtends
  \/ FindTakes
  \/ FindSkips

(***************************************************************************)
(* pmm_free.  Its callers return a whole run they were given.              *)
(***************************************************************************)
\* Mutant: the last page of the run stays marked.
PagesFreedOneShort(run) == run.first .. (run.first + run.count - 2)

PagesFreed(run) == PagesIn(run)

pmm_free(run) ==
  /\ pc = "ready"
  /\ run \in runs
  /\ pmm_bitmap' = pmm_bitmap \ PagesFreed(run)
  /\ runs' = runs \ {run}
  /\ UNCHANGED <<pmm_last_page, globals, pc, locals, reserved, start>>

-----------------------------------------------------------------------------
Install(mbd) == InstallPanics(mbd) \/ InstallHalts(mbd) \/ pmm_install(mbd)

\* What the processor does by itself once pmm_alloc has been called.
AllocStep == pmm_find_pages \/ AllocRetries \/ AllocReturns

Next ==
  \/ \E mbd \in BootInfos : Install(mbd)
  \/ \E n \in PageCounts : pmm_alloc(n)
  \/ AllocStep
  \/ \E run \in runs : pmm_free(run)

\* A call that has been made is executed: the kernel has one processor, and
\* no interrupt handler calls pmm.c or fails to return to it.
Spec == Init /\ [][Next]_vars /\ WF_vars(AllocStep)

-----------------------------------------------------------------------------
\* The run a search has marked in the bitmap and not yet handed over.
InFlight == IF pc = "return" /\ found # 0 THEN {RunAt(found)} ELSE {}

Held == UNION {PagesIn(run) : run \in runs \union InFlight}

(***************************************************************************)
(* The bitmap is an exact ledger: a bit is 1 iff its page was never free   *)
(* memory or is held by a caller, and never both.  A page that is marked   *)
(* and that nobody holds is lost for good; a page that is held and not     *)
(* marked is given away twice.  (bitmap_set in pmm_find_pages,             *)
(* bitmap_clear in pmm_free, and what pmm_get_used_mem counts.)            *)
(***************************************************************************)
Ledger ==
  /\ pmm_bitmap = reserved \union Held
  /\ reserved \intersect Held = {}

(***************************************************************************)
(* Two runs in the hands of callers share no page: pmm_find_pages returns  *)
(* only pages that were free.                                              *)
(***************************************************************************)
NoOverlap ==
  \A r, s \in runs \union InFlight :
    r # s => PagesIn(r) \intersect PagesIn(s) = {}

(***************************************************************************)
(* Nobody is ever given a page below the end of the bitmap: not the first  *)
(* megabyte, not the kernel image, not the bitmap itself.  Page 0 is one   *)
(* of them, so that the return value 0 of pmm_find_pages cannot be a page. *)
(***************************************************************************)
KernelIsSafe ==
  \A p \in Held : p * PAGE_SIZE >= KernelEnd + pmm_bitmap_size

\* The n pages from p are free, apart from the run just taken.
FreeRunAt(p, n) ==
  \A i \in 0 .. (n - 1) :
    /\ p + i \in Bits
    /\ p + i \notin pmm_bitmap \ UNION {PagesIn(run) : run \in InFlight}

(***************************************************************************)
(* The search is next fit and skips nothing: where it stands, the pages it *)
(* has counted are free, and no run of the requested length begins between *)
(* the rover's value at the call and the place it has reached (returned,   *)
(* or panicked at).  Skipping `pages' pages at a used bit is right because *)
(* every shorter start runs into the same bit.                             *)
(***************************************************************************)
NextFit ==
  LET reached == IF pc = "return" THEN found ELSE pmm_last_page
  IN  /\ pc = "find" =>
           /\ first_page = pmm_last_page
           /\ FreeRunAt(first_page, pages)
      /\ pc \in {"find", "panic"} \/ InFlight # {} =>
           \A p \in start .. (reached - 1) : ~FreeRunAt(p, page_count)

(***************************************************************************)
(* The rover goes back only to 0, and only because a search found nothing; *)
(* freeing a page never moves it (pmm_last_page is assigned in             *)
(* pmm_find_pages and before the second search of pmm_alloc only).         *)
(***************************************************************************)
RoverAdvances ==
  [][ \/ pmm_last_page' >= pmm_last_page
      \/ pmm_last_page' = 0 /\ found = 0 /\ attempt' = 2 ]_vars

(***************************************************************************)
(* Every call of pmm_alloc comes to an end: it returns, or the kernel has  *)
(* stopped.                                                                *)
(***************************************************************************)
AllocEnds == pc = "find" ~> pc \in {"ready"} \union Stopped

-----------------------------------------------------------------------------
(***************************************************************************)
(* pmm.c implements PageAllocator: every step of it is a step of the       *)
(* abstract allocator or changes nothing there.                            *)
(***************************************************************************)
Abstract == INSTANCE PageAllocator WITH
  Pages      <- 0 .. MaxPage,
  RunLengths <- PageCounts,
  free       <- Bits \ pmm_bitmap,
  runs       <- runs \union InFlight,
  up         <- pc # "off"

ImplementsPageAllocator == Abstract!Spec

-----------------------------------------------------------------------------
(***************************************************************************)
(* What pmm.c says of itself and does not do; each is the one property of  *)
(* a run that refutes it.                                                  *)
(***************************************************************************)

(***************************************************************************)
(* pmm.c:79 panics with "out of memory": then no run of the requested      *)
(* length is free below the page count.                                    *)
(***************************************************************************)
OutOfMemoryIsTrue ==
  pc = "panic" /\ page_count # 0 =>
    \A p \in 0 .. (pmm_page_count - page_count) : ~FreeRunAt(p, page_count)

(***************************************************************************)
(* pmm.c:64 frees memory of type MULTIBOOT_MEMORY_AVAILABLE: after         *)
(* pmm_install a free page lies in an entry of that type.                  *)
(***************************************************************************)
FreeIsAvailable ==
  pc = "ready" =>
    \E mbd \in BootInfos :
      Bits \ pmm_bitmap \subseteq
        UNION {PagesFrom(mbd.mmap[i]) : i \in UsableEntries(mbd.mmap)}
=============================================================================
