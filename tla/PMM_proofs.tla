----------------------------- MODULE PMM_proofs -----------------------------
(***************************************************************************)
(* Proofs about PMM, for every page size, memory map and set of requests.  *)
(***************************************************************************)
EXTENDS PMM, WellFoundedInduction, TLAPS

(***************************************************************************)
(* Facts about numbers.                                                    *)
(***************************************************************************)
\* Division by the page size, and its inverse on multiples of it.
LEMMA PageDivision ==
  ASSUME NEW x \in Nat
  PROVE  /\ x \div PAGE_SIZE \in Nat
         /\ (x \div PAGE_SIZE) * PAGE_SIZE \in Nat
         /\ (x \div PAGE_SIZE) * PAGE_SIZE <= x
         /\ x % PAGE_SIZE = 0 => (x \div PAGE_SIZE) * PAGE_SIZE = x
  BY PageSizeAssumption

LEMMA PageMonotonic ==
  ASSUME NEW p \in Nat, NEW q \in Nat, p <= q
  PROVE  p * PAGE_SIZE <= q * PAGE_SIZE
  BY PageSizeAssumption

LEMMA DivisionMonotonic ==
  ASSUME NEW x \in Nat, NEW y \in Nat, x <= y
  PROVE  x \div PAGE_SIZE <= y \div PAGE_SIZE
  BY PageSizeAssumption

LEMMA PageQuotient ==
  ASSUME NEW x \in Nat, x % PAGE_SIZE = 0
  PROVE  \E q \in Nat : x = q * PAGE_SIZE
  BY PageSizeAssumption

LEMMA PageProduct ==
  ASSUME NEW q \in Nat
  PROVE  q * PAGE_SIZE \in Nat /\ (q * PAGE_SIZE) % PAGE_SIZE = 0
  BY PageSizeAssumption

LEMMA PageSum ==
  ASSUME NEW x \in Nat, NEW y \in Nat, x % PAGE_SIZE = 0
  PROVE  (x + y * PAGE_SIZE) % PAGE_SIZE = 0
<1>1. PICK q \in Nat : x = q * PAGE_SIZE
  BY PageQuotient
<1>2. x + y * PAGE_SIZE = (q + y) * PAGE_SIZE
  BY <1>1, PageSizeAssumption
<1> QED
  BY <1>2, PageProduct

-----------------------------------------------------------------------------
(***************************************************************************)
(* Facts about the memory map: the kernel's entry is one of the map, the   *)
(* bitmap is a whole number of pages, and pmm_install clears no bit below  *)
(* the end of the bitmap.                                                  *)
(***************************************************************************)
LEMMA KernelEntryExists ==
  ASSUME NEW mbd \in BootInfos, UsableEntries(mbd.mmap) # {}
  PROVE  /\ KernelEntry(mbd.mmap) \in UsableEntries(mbd.mmap)
         /\ UsableEntries(mbd.mmap) \subseteq DOMAIN mbd.mmap
         /\ \A i \in DOMAIN mbd.mmap :
              /\ mbd.mmap[i] = [type |-> mbd.mmap[i].type,
                                addr_low |-> mbd.mmap[i].addr_low,
                                len_low |-> mbd.mmap[i].len_low]
              /\ mbd.mmap[i].addr_low \in Nat
              /\ mbd.mmap[i].len_low \in Nat
<1> DEFINE S == UsableEntries(mbd.mmap)
<1>1. mbd.mmap \in Seq(Entry)
  BY BootInfosAssumption DEF BootInfo
<1>2. S \subseteq DOMAIN mbd.mmap
  BY DEF UsableEntries
<1>3. S \in SUBSET Nat
  BY <1>1, <1>2
<1>4. \E i \in S : \A j \in S : i <= j
  <2>1. PICK i \in S : \A j \in S : <<j, i>> \notin OpToRel(<, Nat)
    BY <1>3, NatLessThanWellFounded, WFMin
  <2>2. \A j \in S : ~(j < i)
    BY <1>3, <2>1 DEF OpToRel
  <2> QED
    BY <1>3, <2>2
<1>5. KernelEntry(mbd.mmap) \in S
  BY <1>4 DEF KernelEntry
<1>6. \A i \in DOMAIN mbd.mmap : mbd.mmap[i] \in Entry
  BY <1>1
<1> QED
  BY <1>2, <1>5, <1>6 DEF Entry

LEMMA SizesTyped ==
  ASSUME NEW mbd \in BootInfos, UsableEntries(mbd.mmap) # {}
  PROVE  /\ PageCountOf(mbd.mmap) \in Nat
         /\ BitmapSizeOf(mbd.mmap) \in Nat
         /\ BitmapSizeOf(mbd.mmap) % PAGE_SIZE = 0
         /\ 8 * BitmapSizeOf(mbd.mmap) <= MaxPage + 1
         /\ mbd.mmap[KernelEntry(mbd.mmap)].len_low \in Nat
<1> DEFINE n == PageCountOf(mbd.mmap)
           b == n \div 8
           q == DIV_CEILING(b, PAGE_SIZE)
<1>1. n \in Nat
  BY KernelEntryExists, PageDivision DEF PageCountOf
<1>2. b \in Nat
  BY <1>1
<1> HIDE DEF n
<1>3. b + (PAGE_SIZE - 1) \in Nat
  BY <1>2, PageSizeAssumption
<1> HIDE DEF b
<1>4. q \in Nat
  BY <1>3, PageDivision DEF DIV_CEILING
<1>5. BitmapSizeOf(mbd.mmap) = q * PAGE_SIZE
  BY DEF BitmapSizeOf, ALIGN_UP, n, b
<1> HIDE DEF q
<1>6. WellFormed(mbd.mmap)
  BY BootInfosAssumption
<1> QED
  BY <1>1, <1>4, <1>5, <1>6, PageProduct, KernelEntryExists DEF n, WellFormed

LEMMA ClearedAboveBitmap ==
  ASSUME NEW mbd \in BootInfos, UsableEntries(mbd.mmap) # {},
         NEW p \in PagesCleared(mbd.mmap)
  PROVE  p \in Nat /\ KernelEnd + BitmapSizeOf(mbd.mmap) <= p * PAGE_SIZE
<1> DEFINE mmap == mbd.mmap
           k == KernelEntry(mmap)
           low == KernelEnd + BitmapSizeOf(mmap)
<1>1. /\ low \in Nat
      /\ low % PAGE_SIZE = 0
  <2>1. PICK q \in Nat : BitmapSizeOf(mmap) = q * PAGE_SIZE
    BY SizesTyped, PageQuotient
  <2>2. KernelEnd \in Nat /\ KernelEnd % PAGE_SIZE = 0 /\ q * PAGE_SIZE \in Nat
    BY AddressAssumption, PageProduct
  <2>3. (KernelEnd + q * PAGE_SIZE) % PAGE_SIZE = 0
    BY <2>2, PageSum
  <2> QED
    BY <2>1, <2>2, <2>3
\* Whatever entry p comes from, the entry begins at low or above it.
<1>2. PICK e : /\ e.addr_low \in Nat
               /\ low <= e.addr_low
               /\ p \in PagesFrom(e)
  <2>1. CASE p \in PagesFrom(Trimmed(mmap))
    <3>1. Trimmed(mmap).addr_low = low
      BY KernelEntryExists DEF Trimmed
    <3> QED
      BY <1>1, <2>1, <3>1
  <2>2. CASE \E i \in UsableEntries(mmap) \ {k} : p \in PagesFrom(mmap[i])
    <3>1. PICK i \in UsableEntries(mmap) \ {k} : p \in PagesFrom(mmap[i])
      BY <2>2
    <3>2. WellFormed(mmap)
      BY BootInfosAssumption
    <3>3. /\ low <= mmap[k].addr_low + mmap[k].len_low
          /\ mmap[k].addr_low + mmap[k].len_low <= mmap[i].addr_low
      BY <3>1, <3>2 DEF WellFormed
    <3>4. /\ i \in DOMAIN mmap
          /\ k \in DOMAIN mmap
          /\ mmap[i].addr_low \in Nat
          /\ mmap[k].addr_low \in Nat
          /\ mmap[k].len_low \in Nat
      BY <3>1, KernelEntryExists
    <3>5. low <= mmap[i].addr_low
      BY <1>1, <3>3, <3>4
    <3> QED
      BY <3>1, <3>4, <3>5
  <2> QED
    BY <2>1, <2>2 DEF PagesCleared
<1> DEFINE first == e.addr_low \div PAGE_SIZE
<1>3. first \in Nat /\ p \in Nat /\ first <= p
  <2>1. first \in Nat
    BY <1>2, PageDivision
  <2> QED
    BY <1>2, <2>1 DEF PagesFrom
<1>4. low \div PAGE_SIZE \in Nat /\ low \div PAGE_SIZE <= first
  BY <1>1, <1>2, PageDivision, DivisionMonotonic
<1>5. (low \div PAGE_SIZE) * PAGE_SIZE = low
  BY <1>1, PageDivision
<1>6. low \div PAGE_SIZE <= p
  BY <1>3, <1>4
<1> HIDE DEF low, first
<1>7. (low \div PAGE_SIZE) * PAGE_SIZE <= p * PAGE_SIZE
  BY <1>3, <1>4, <1>6, PageMonotonic
<1> QED
  BY <1>3, <1>5, <1>7 DEF low
-----------------------------------------------------------------------------
(***************************************************************************)
(* The inductive invariant.  Ledger and NoOverlap are not inductive alone: *)
(* that the run being taken was free needs what the search knows at the    *)
(* moment (NextFit), that the run taken is not mistaken for the return     *)
(* value 0 needs page 0 to be reserved (ReservedLow), and that what is     *)
(* handed over is a run of the requested length needs the bookkeeping of   *)
(* the call (CallState).                                                   *)
(***************************************************************************)
ReservedLow ==
  \A p \in Bits \ reserved : KernelEnd + pmm_bitmap_size <= p * PAGE_SIZE

CallState ==
  /\ pc = "off" => /\ pmm_bitmap = {} /\ reserved = {} /\ runs = {}
                   /\ pmm_bitmap_size = 0 /\ pmm_last_page = 0 /\ start = 0
                   /\ page_count = 0
  /\ pc = "find" => pages < page_count \/ (pages = 0 /\ page_count = 0)
  /\ pc = "return" => (found = 0 <=> page_count = 0)
  /\ InFlight \subseteq Run

IInv ==
  /\ TypeOK
  /\ Ledger
  /\ NoOverlap
  /\ NextFit
  /\ ReservedLow
  /\ CallState
-----------------------------------------------------------------------------
LEMMA InitIInv == Init => IInv
<1> SUFFICES ASSUME Init
             PROVE  IInv
  OBVIOUS
<1> USE DEF Init
<1>1. InFlight = {} /\ Held = {} /\ Bits = {}
  BY DEF InFlight, Held, Bits
<1>2. TypeOK
  BY AddressAssumption DEF TypeOK, Stopped
<1>3. Ledger
  BY <1>1 DEF Ledger
<1>4. NoOverlap
  BY <1>1 DEF NoOverlap
<1>5. NextFit
  BY <1>1 DEF NextFit
<1>6. ReservedLow
  BY <1>1 DEF ReservedLow
<1>7. CallState
  BY <1>1 DEF CallState
<1> QED
  BY <1>2, <1>3, <1>4, <1>5, <1>6, <1>7 DEF IInv

\* Before pmm_install has run nothing is reserved, held or being searched.
LEMMA InstallIInv ==
  ASSUME IInv, NEW mbd \in BootInfos, Install(mbd)
  PROVE  IInv'
<1> USE DEF IInv
<1>0. /\ pc = "off" /\ pmm_bitmap = {} /\ reserved = {} /\ runs = {}
      /\ pmm_last_page = 0 /\ start = 0 /\ page_count = 0
      /\ pmm_bitmap_size = 0
  BY DEF Install, InstallPanics, InstallHalts, pmm_install, CallState
<1>1. CASE InstallPanics(mbd) \/ InstallHalts(mbd)
  <2>1. /\ pc' \in {"panic", "halt"}
        /\ UNCHANGED <<pmm_bitmap, pmm_last_page, globals, locals, ghosts>>
    BY <1>1 DEF InstallPanics, InstallHalts
  <2> USE <2>1 DEF globals, locals, ghosts
  <2>2. InFlight' = {} /\ Held' = {} /\ Bits' = {}
    BY <1>0 DEF InFlight, Held, Bits
  <2>3. TypeOK'
    BY <2>2, <1>0 DEF TypeOK, Stopped, Run
  <2>4. Ledger' /\ NoOverlap' /\ ReservedLow' /\ CallState'
    BY <2>2, <1>0 DEF Ledger, NoOverlap, ReservedLow, CallState
  <2>5. NextFit'
    BY <2>2, <1>0 DEF NextFit
  <2> QED
    BY <2>3, <2>4, <2>5
<1>2. CASE pmm_install(mbd)
  <2> USE <1>2 DEF pmm_install, locals
  <2>1. InFlight' = {} /\ Held' = {}
    BY <1>0 DEF InFlight, Held
  <2>2. TypeOK'
    <3>1. /\ pmm_page_count' \in Nat
          /\ pmm_bitmap_size' \in Nat
          /\ 8 * pmm_bitmap_size' <= MaxPage + 1
          /\ pmm_usable_mem' \in Nat
      BY SizesTyped
    <3>2. pmm_bitmap' \subseteq Bits' /\ reserved' \subseteq Bits'
      OBVIOUS
    <3> QED
      BY <3>1, <3>2, <1>0 DEF TypeOK, Run
  <2>3. Ledger' /\ NoOverlap' /\ NextFit' /\ CallState'
    BY <2>1, <1>0 DEF Ledger, NoOverlap, NextFit, CallState
  <2>4. ReservedLow'
    <3> SUFFICES ASSUME NEW p \in Bits' \ reserved'
                 PROVE  KernelEnd + BitmapSizeOf(mbd.mmap) <= p * PAGE_SIZE
      BY DEF ReservedLow
    <3>1. p \in PagesCleared(mbd.mmap)
      OBVIOUS
    <3> QED
      BY <3>1, ClearedAboveBitmap
  <2> QED
    BY <2>2, <2>3, <2>4
<1> QED
  BY <1>1, <1>2 DEF Install

LEMMA AllocIInv ==
  ASSUME IInv, NEW n \in PageCounts, pmm_alloc(n)
  PROVE  IInv'
<1> USE DEF IInv, pmm_alloc, globals
<1>1. InFlight = {} /\ InFlight' = {} /\ Held' = Held /\ Bits' = Bits
  BY DEF InFlight, Held, Bits
<1>2. TypeOK'
  BY <1>1, PageCountsAssumption DEF TypeOK, Run
<1>3. Ledger' /\ NoOverlap' /\ ReservedLow'
  BY <1>1 DEF Ledger, NoOverlap, ReservedLow
<1>4. NextFit'
  BY <1>1 DEF NextFit, FreeRunAt, TypeOK
<1>5. CallState'
  BY <1>1, PageCountsAssumption DEF CallState
<1> QED
  BY <1>2, <1>3, <1>4, <1>5

LEMMA RetriesIInv ==
  ASSUME IInv, AllocRetries
  PROVE  IInv'
<1> USE DEF IInv, AllocRetries, globals
<1>1. InFlight = {} /\ InFlight' = {} /\ Held' = Held /\ Bits' = Bits
  BY DEF InFlight, Held, Bits
<1>2. TypeOK'
  BY <1>1 DEF TypeOK, Run
<1>3. Ledger' /\ NoOverlap' /\ ReservedLow'
  BY <1>1 DEF Ledger, NoOverlap, ReservedLow
<1>4. NextFit'
  BY <1>1 DEF NextFit, FreeRunAt
<1>5. CallState'
  BY <1>1 DEF CallState
<1> QED
  BY <1>2, <1>3, <1>4, <1>5

\* The run in flight becomes a run of the caller's.
LEMMA ReturnsIInv ==
  ASSUME IInv, AllocReturns
  PROVE  IInv'
<1> USE DEF IInv, AllocReturns, globals
<1>1. runs' \union InFlight' = runs \union InFlight
  BY DEF InFlight, CallState
<1>2. Held' = Held /\ Bits' = Bits /\ InFlight' = {}
  BY <1>1 DEF Held, Bits, InFlight
<1>3. TypeOK'
  <2>1. runs' \subseteq Run
    BY <1>1, <1>2 DEF TypeOK, CallState
  <2> QED
    BY <1>2, <2>1 DEF TypeOK, Run
<1>4. Ledger' /\ ReservedLow'
  BY <1>2 DEF Ledger, ReservedLow
<1>5. NoOverlap'
  BY <1>1 DEF NoOverlap, PagesIn
<1>6. NextFit' /\ CallState'
  BY <1>2 DEF NextFit, CallState
<1> QED
  BY <1>3, <1>4, <1>5, <1>6

\* The bits of the run are cleared and the run is held no more; no other
\* run had a page in it, because runs do not overlap.
LEMMA FreeIInv ==
  ASSUME IInv, NEW run \in runs, pmm_free(run)
  PROVE  IInv'
<1> USE DEF IInv, pmm_free, PagesFreed, globals, locals
<1>1. InFlight = {} /\ InFlight' = {} /\ Bits' = Bits
  BY DEF InFlight, Bits
<1>2. Held' = Held \ PagesIn(run)
  <2>1. \A r \in runs \ {run} : PagesIn(r) \intersect PagesIn(run) = {}
    BY <1>1 DEF NoOverlap
  <2>2. \A r : PagesIn(r)' = PagesIn(r)
    BY DEF PagesIn
  <2> QED
    BY <1>1, <2>1, <2>2 DEF Held
<1>3. TypeOK'
  BY <1>1 DEF TypeOK, Run
<1>4. Ledger'
  <2>1. PagesIn(run) \subseteq Held
    BY DEF Held
  <2> QED
    BY <1>2, <2>1 DEF Ledger
<1>5. NoOverlap'
  BY <1>1 DEF NoOverlap, PagesIn
<1>6. NextFit' /\ CallState' /\ ReservedLow'
  BY <1>1 DEF NextFit, CallState, ReservedLow
<1> QED
  BY <1>3, <1>4, <1>5, <1>6
-----------------------------------------------------------------------------
(***************************************************************************)
(* The passes of pmm_find_pages.                                           *)
(***************************************************************************)
LEMMA NothingIInv ==
  ASSUME IInv, FindNothing
  PROVE  IInv'
<1> USE DEF IInv, FindNothing, globals, ghosts
<1>1. page_count = 0 /\ pages = 0
  BY DEF CallState, TypeOK
<1>2. InFlight = {} /\ InFlight' = {} /\ Held' = Held /\ Bits' = Bits
  BY DEF InFlight, Held, Bits
<1>3. TypeOK'
  BY <1>2 DEF TypeOK, Run
<1>4. Ledger' /\ NoOverlap' /\ ReservedLow'
  BY <1>2 DEF Ledger, NoOverlap, ReservedLow
<1>5. NextFit' /\ CallState'
  BY <1>1, <1>2 DEF NextFit, CallState
<1> QED
  BY <1>3, <1>4, <1>5

\* The search ends in panic or leaves the bitmap: what it knew stays true.
LEMMA StopsIInv ==
  ASSUME IInv, FindPanics \/ FindRunsWild
  PROVE  IInv'
<1> USE DEF IInv
<1>1. /\ pc = "find" /\ pc' \in {"panic", "wild"}
      /\ UNCHANGED <<pmm_bitmap, pmm_last_page, globals, locals, ghosts>>
  BY DEF FindPanics, FindRunsWild, InLoop, Probing
<1> USE <1>1 DEF globals, locals, ghosts
<1>2. InFlight = {} /\ InFlight' = {} /\ Held' = Held /\ Bits' = Bits
  BY DEF InFlight, Held, Bits
<1>3. TypeOK'
  BY <1>2 DEF TypeOK, Run, Stopped
<1>4. Ledger' /\ NoOverlap' /\ ReservedLow'
  BY <1>2 DEF Ledger, NoOverlap, ReservedLow
<1>5. NextFit'
  BY <1>2 DEF NextFit, FreeRunAt
<1>6. CallState'
  BY <1>2 DEF CallState, Run
<1> QED
  BY <1>3, <1>4, <1>5, <1>6

\* One more page is known to be free.
LEMMA ExtendsIInv ==
  ASSUME IInv, FindExtends
  PROVE  IInv'
<1> USE DEF IInv, FindExtends, Probing, InLoop, globals, ghosts
<1>1. InFlight = {} /\ InFlight' = {} /\ Held' = Held /\ Bits' = Bits
  BY DEF InFlight, Held, Bits
<1>2. /\ page_count \in Nat /\ pages \in Nat /\ pages < page_count
      /\ pages' \in Nat /\ pages' < page_count
  BY PageCountsAssumption DEF TypeOK
<1>3. TypeOK'
  BY <1>1, <1>2 DEF TypeOK, Run
<1>4. Ledger' /\ NoOverlap' /\ ReservedLow'
  BY <1>1 DEF Ledger, NoOverlap, ReservedLow
<1>5. NextFit'
  <2>1. FreeRunAt(first_page, pages) /\ first_page = pmm_last_page
    BY DEF NextFit
  <2>2. \A i \in 0 .. (pages' - 1) : i \in 0 .. (pages - 1) \/ i = pages
    BY <1>2
  <2>3. FreeRunAt(first_page, pages')
    BY <1>1, <1>2, <2>1, <2>2 DEF FreeRunAt, Probe
  <2> QED
    BY <1>1, <2>1, <2>3 DEF NextFit, FreeRunAt
<1>6. CallState'
  BY <1>1, <1>2 DEF CallState
<1> QED
  BY <1>3, <1>4, <1>5, <1>6

\* Giving up on the run counted so far: each start up to the used bit has
\* that bit in its run, so that none of them is the beginning of a free run.
LEMMA SkipsIInv ==
  ASSUME IInv, FindSkips
  PROVE  IInv'
<1> USE DEF IInv, FindSkips, Stride, Probing, InLoop, globals, ghosts
<1>1. InFlight = {} /\ InFlight' = {} /\ Held' = Held /\ Bits' = Bits
  BY DEF InFlight, Held, Bits
<1>2. /\ page_count \in Nat /\ pages \in Nat /\ pages < page_count
      /\ pmm_last_page \in Nat /\ pmm_last_page' \in Nat /\ start \in Nat
  BY PageCountsAssumption DEF TypeOK
<1>3. TypeOK'
  BY <1>1, <1>2 DEF TypeOK, Run
<1>4. Ledger' /\ NoOverlap' /\ ReservedLow'
  BY <1>1 DEF Ledger, NoOverlap, ReservedLow
<1>5. NextFit'
  <2>1. \A p \in start .. (pmm_last_page - 1) : ~FreeRunAt(p, page_count)
    BY DEF NextFit
  <2>2. ASSUME NEW p \in pmm_last_page .. (pmm_last_page' - 1)
        PROVE  ~FreeRunAt(p, page_count)
    <3> DEFINE i == pmm_last_page + pages - p
    <3>1. i \in 0 .. (page_count - 1) /\ p + i = Probe
      BY <1>2 DEF Probe
    <3>2. Probe \in pmm_bitmap
      OBVIOUS
    <3> HIDE DEF i
    <3> QED
      BY <1>1, <3>1, <3>2 DEF FreeRunAt
  <2>3. \A p \in start .. (pmm_last_page' - 1) :
          \/ p \in start .. (pmm_last_page - 1)
          \/ p \in pmm_last_page .. (pmm_last_page' - 1)
    BY <1>2
  <2>4. \A p \in start .. (pmm_last_page' - 1) : ~FreeRunAt(p, page_count)
    BY <2>1, <2>2, <2>3
  <2>5. \A p, n : FreeRunAt(p, n)' <=> FreeRunAt(p, n)
    BY <1>1 DEF FreeRunAt
  <2>6. FreeRunAt(first_page', 0)
    BY DEF FreeRunAt
  <2> QED
    BY <1>1, <2>4, <2>5, <2>6 DEF NextFit
<1>6. CallState'
  BY <1>1, <1>2 DEF CallState
<1> QED
  BY <1>3, <1>4, <1>5, <1>6

\* The run taken was free up to its last page, the page this pass has seen.
LEMMA TakenWasFree ==
  ASSUME IInv, FindTakes
  PROVE  /\ PagesIn(RunAt(first_page)) \subseteq Bits \ pmm_bitmap
         /\ RunAt(first_page) \in Run
         /\ first_page # 0
<1> USE DEF IInv, FindTakes, PagesMarked, Probing, InLoop
<1>1. /\ page_count \in Nat /\ pages \in Nat /\ page_count = pages + 1
      /\ first_page \in Nat /\ first_page = pmm_last_page
      /\ page_count \in PageCounts \ {0}
  BY PageCountsAssumption DEF TypeOK, NextFit
<1>2. InFlight = {}
  BY DEF InFlight
<1>3. ASSUME NEW p \in PagesIn(RunAt(first_page))
      PROVE  p \in Bits \ pmm_bitmap
  <2> DEFINE i == p - first_page
  <2>1. p \in Nat /\ p = first_page + i /\ (i \in 0 .. (pages - 1) \/ i = pages)
    BY <1>1 DEF PagesIn, RunAt
  <2>2. CASE i \in 0 .. (pages - 1)
    <3>1. FreeRunAt(first_page, pages)
      BY DEF NextFit
    <3> HIDE DEF i
    <3>2. first_page + i \in Bits /\ first_page + i \notin pmm_bitmap
      BY <1>2, <2>2, <3>1 DEF FreeRunAt
    <3> QED
      BY <2>1, <3>2
  <2>3. CASE i = pages
    BY <1>1, <2>1, <2>3 DEF Probe
  <2> QED
    BY <2>1, <2>2, <2>3
<1>4. first_page \in PagesIn(RunAt(first_page))
  BY <1>1 DEF PagesIn, RunAt
<1>5. first_page \in Bits \ pmm_bitmap
  BY <1>3, <1>4
<1>6. first_page \in 0 .. MaxPage
  BY <1>5, AddressAssumption DEF Bits, TypeOK
<1>7. first_page # 0
  <2> SUFFICES ASSUME first_page = 0
               PROVE  FALSE
    OBVIOUS
  <2>1. 0 \in Bits \ reserved
    BY <1>5 DEF Ledger
  <2>2. 0 * PAGE_SIZE = 0
    BY PageSizeAssumption
  <2>3. KernelEnd + pmm_bitmap_size <= 0
    BY <2>1, <2>2 DEF ReservedLow
  <2> QED
    BY <2>3, AddressAssumption, PageSizeAssumption DEF TypeOK
<1> QED
  BY <1>1, <1>3, <1>6, <1>7 DEF Run, RunAt

LEMMA TakesIInv ==
  ASSUME IInv, FindTakes
  PROVE  IInv'
<1> DEFINE taken == RunAt(first_page)
<1> USE DEF IInv, FindTakes, PagesMarked, Probing, InLoop, globals, ghosts
<1>1. /\ PagesIn(taken) \subseteq Bits \ pmm_bitmap
      /\ taken \in Run
      /\ first_page # 0
  BY TakenWasFree
<1>2. /\ page_count \in Nat /\ pages \in Nat /\ page_count = pages + 1
      /\ first_page \in Nat /\ first_page = pmm_last_page
  BY PageCountsAssumption DEF TypeOK, NextFit
<1>3. /\ InFlight = {} /\ InFlight' = {taken} /\ Bits' = Bits
      /\ Held' = Held \union PagesIn(taken)
  <2>1. InFlight = {} /\ InFlight' = {taken} /\ Bits' = Bits
    BY <1>1 DEF InFlight, Bits, RunAt
  <2> QED
    BY <2>1 DEF Held, PagesIn
<1>4. TypeOK'
  BY <1>1, <1>2, <1>3 DEF TypeOK, Run
<1>5. Ledger' /\ ReservedLow'
  BY <1>1, <1>3 DEF Ledger, ReservedLow
<1>6. NoOverlap'
  <2>1. \A r \in runs : PagesIn(r) \subseteq pmm_bitmap
    BY DEF Ledger, Held
  <2>2. \A r : PagesIn(r)' = PagesIn(r)
    BY DEF PagesIn
  <2>3. \A r \in runs : PagesIn(r) \intersect PagesIn(taken) = {}
    BY <1>1, <2>1
  <2>4. \A r, s \in runs : r # s => PagesIn(r) \intersect PagesIn(s) = {}
    BY DEF NoOverlap
  <2>5. \A r, s \in runs \union {taken} :
          r # s => PagesIn(r) \intersect PagesIn(s) = {}
    BY <2>3, <2>4
  <2> QED
    BY <1>3, <2>5 DEF NoOverlap, PagesIn
<1>7. NextFit'
  <2>1. pmm_bitmap' \ UNION {PagesIn(run) : run \in InFlight'} = pmm_bitmap
    BY <1>1, <1>3 DEF PagesIn
  <2>2. \A p, n : FreeRunAt(p, n)' <=> FreeRunAt(p, n)
    BY <1>3, <2>1 DEF FreeRunAt, PagesIn
  <2>3. \A p \in start .. (first_page - 1) : ~FreeRunAt(p, page_count)
    BY <1>2 DEF NextFit
  <2> QED
    BY <2>2, <2>3 DEF NextFit
<1>8. CallState'
  BY <1>1, <1>2, <1>3 DEF CallState, Run
<1> QED
  BY <1>4, <1>5, <1>6, <1>7, <1>8

LEMMA StutterIInv ==
  ASSUME IInv, UNCHANGED vars
  PROVE  IInv'
<1> USE DEF IInv, vars, globals, locals, ghosts
<1>1. /\ InFlight' = InFlight /\ Held' = Held /\ Bits' = Bits
      /\ \A p, n : FreeRunAt(p, n)' <=> FreeRunAt(p, n)
  BY DEF InFlight, Held, Bits, RunAt, FreeRunAt, PagesIn
<1>2. TypeOK'
  BY <1>1 DEF TypeOK, Run, Stopped
<1>3. Ledger' /\ NoOverlap' /\ ReservedLow'
  BY <1>1 DEF Ledger, NoOverlap, ReservedLow, PagesIn
<1>4. NextFit'
  BY <1>1 DEF NextFit
<1>5. CallState'
  BY <1>1 DEF CallState, Run
<1> QED
  BY <1>2, <1>3, <1>4, <1>5

LEMMA NextIInv == IInv /\ [Next]_vars => IInv'
<1> SUFFICES ASSUME IInv, [Next]_vars
             PROVE  IInv'
  OBVIOUS
<1>1. CASE \E mbd \in BootInfos : Install(mbd)
  BY <1>1, InstallIInv
<1>2. CASE \E n \in PageCounts : pmm_alloc(n)
  BY <1>2, AllocIInv
<1>3. CASE AllocStep
  BY <1>3, NothingIInv, StopsIInv, ExtendsIInv, SkipsIInv, TakesIInv,
     RetriesIInv, ReturnsIInv DEF AllocStep, pmm_find_pages
<1>4. CASE \E run \in runs : pmm_free(run)
  BY <1>4, FreeIInv
<1>5. CASE UNCHANGED vars
  BY <1>5, StutterIInv
<1> QED
  BY <1>1, <1>2, <1>3, <1>4, <1>5 DEF Next
-----------------------------------------------------------------------------
LEMMA IInvHolds == Spec => []IInv
<1>1. Init => IInv
  BY InitIInv
<1>2. IInv /\ [Next]_vars => IInv'
  BY NextIInv
<1> QED
  BY <1>1, <1>2, PTL DEF Spec

(***************************************************************************)
(* The state of pmm.c is well typed in every reachable state: above all,   *)
(* no bit outside the bitmap is ever set (bitmap_set at pmm.c:86).         *)
(***************************************************************************)
THEOREM TypeCorrect == Spec => []TypeOK
<1>1. IInv => TypeOK
  BY DEF IInv
<1> QED
  BY <1>1, IInvHolds, PTL

(***************************************************************************)
(* The bitmap is an exact ledger of what pmm_alloc has handed out and      *)
(* pmm_free has not taken back, for every page size, memory map and        *)
(* sequence of calls.                                                      *)
(***************************************************************************)
THEOREM LedgerIsExact == Spec => []Ledger
<1>1. IInv => Ledger
  BY DEF IInv
<1> QED
  BY <1>1, IInvHolds, PTL

(***************************************************************************)
(* pmm_alloc never hands out a page that a caller holds already.           *)
(***************************************************************************)
THEOREM RunsAreDisjoint == Spec => []NoOverlap
<1>1. IInv => NoOverlap
  BY DEF IInv
<1> QED
  BY <1>1, IInvHolds, PTL

(***************************************************************************)
(* The loop of pmm_find_pages passes over no free run of the requested     *)
(* length that begins at the rover or above it.                            *)
(***************************************************************************)
THEOREM SearchIsNextFit == Spec => []NextFit
<1>1. IInv => NextFit
  BY DEF IInv
<1> QED
  BY <1>1, IInvHolds, PTL

(***************************************************************************)
(* pmm_alloc hands out no page of the first megabyte, the kernel image or  *)
(* the bitmap: pmm_install has cleared no bit there, and pmm_free clears   *)
(* only bits that pmm_alloc set.                                           *)
(***************************************************************************)
THEOREM KernelIsNeverGivenOut == Spec => []KernelIsSafe
<1>1. IInv => KernelIsSafe
  <2> SUFFICES ASSUME IInv, NEW p \in Held
               PROVE  p * PAGE_SIZE >= KernelEnd + pmm_bitmap_size
    BY DEF KernelIsSafe
  <2>1. p \in Bits \ reserved
    BY DEF IInv, TypeOK, Ledger
  <2>2. p \in Nat /\ p * PAGE_SIZE \in Nat
    BY <2>1, PageProduct DEF Bits, IInv, TypeOK
  <2> QED
    BY <2>1, <2>2, AddressAssumption DEF IInv, ReservedLow, TypeOK
<1> QED
  BY <1>1, IInvHolds, PTL

(***************************************************************************)
(* pmm_last_page moves backwards in one place only: before the second      *)
(* search of pmm_alloc, and only when the first returned 0.                *)
(***************************************************************************)
THEOREM RoverOnlyAdvances == Spec => RoverAdvances
<1> DEFINE A == \/ pmm_last_page' >= pmm_last_page
                \/ pmm_last_page' = 0 /\ found = 0 /\ attempt' = 2
<1>1. IInv /\ [Next]_vars => [A]_vars
  <2> SUFFICES ASSUME IInv, Next
               PROVE  A
    BY DEF vars
  <2>1. pmm_last_page \in Nat /\ page_count \in Nat /\ pages \in Nat
    BY PageCountsAssumption DEF IInv, TypeOK
  <2>2. CASE UNCHANGED pmm_last_page
    BY <2>1, <2>2
  <2>3. CASE AllocRetries
    BY <2>3 DEF AllocRetries
  <2>4. CASE FindTakes \/ FindSkips
    BY <2>1, <2>4 DEF FindTakes, FindSkips, Stride
  <2> QED
    BY <2>2, <2>3, <2>4 DEF Next, Install, InstallPanics, InstallHalts,
       pmm_install, pmm_alloc, AllocStep, AllocReturns, pmm_find_pages,
       FindNothing, FindPanics, FindRunsWild, FindExtends, pmm_free
<1> QED
  BY <1>1, IInvHolds, PTL DEF Spec, RoverAdvances

-----------------------------------------------------------------------------
(***************************************************************************)
(* The refinement: pmm_install opens the abstract allocator, the pass that *)
(* takes a run is its Alloc, pmm_free is its Release, and every other step *)
(* changes nothing there.                                                  *)
(***************************************************************************)
LEMMA BitsArePages ==
  ASSUME NEW n \in Nat, 8 * n <= MaxPage + 1
  PROVE  0 .. (8 * n - 1) \subseteq 0 .. MaxPage
<1> SUFFICES ASSUME NEW p \in 0 .. (8 * n - 1)
             PROVE  p \in 0 .. MaxPage
  OBVIOUS
<1> QED
  BY AddressAssumption

LEMMA InstallRefines ==
  ASSUME IInv, IInv', NEW mbd \in BootInfos, Install(mbd)
  PROVE  Abstract!Next
<1>1. Bits' \subseteq 0 .. MaxPage
  <2>1. pmm_bitmap_size' \in Nat /\ 8 * pmm_bitmap_size' <= MaxPage + 1
    BY DEF IInv, TypeOK
  <2>2. Bits' = 0 .. (8 * pmm_bitmap_size' - 1)
    BY DEF Bits
  <2> QED
    BY <2>1, <2>2, BitsArePages
<1> USE DEF Install, InstallPanics, InstallHalts, pmm_install, ghosts, locals,
            globals
<1>2. runs' \union InFlight' = runs \union InFlight
  BY DEF InFlight
<1>3. pc = "off" /\ pc' # "off"
  OBVIOUS
<1>4. (Bits \ pmm_bitmap)' \subseteq 0 .. MaxPage
  BY <1>1
<1> QED
  BY <1>2, <1>3, <1>4 DEF Abstract!Next, Abstract!Open

LEMMA AllocStepRefines ==
  ASSUME IInv, AllocStep
  PROVE  [Abstract!Next]_(Abstract!vars)
<1> USE DEF globals, ghosts, locals
<1>1. pc # "off" /\ pc' # "off" /\ Bits' = Bits
  BY DEF AllocStep, AllocRetries, AllocReturns, pmm_find_pages, FindNothing,
     FindPanics, FindRunsWild, FindExtends, FindTakes, FindSkips, InLoop,
     Probing, Bits
<1>2. CASE FindTakes
  <2> DEFINE taken == RunAt(first_page)
  <2>1. /\ PagesIn(taken) \subseteq Bits \ pmm_bitmap
        /\ taken \in Run
        /\ first_page # 0
    BY <1>2, TakenWasFree
  <2>2. InFlight = {} /\ InFlight' = {taken} /\ runs' = runs
    BY <1>2, <2>1 DEF FindTakes, Probing, InLoop, InFlight, RunAt
  <2>3. (Bits \ pmm_bitmap)' = (Bits \ pmm_bitmap) \ PagesIn(taken)
    BY <1>1, <1>2 DEF FindTakes, PagesMarked
  <2>4. Abstract!PagesIn(taken) = PagesIn(taken) /\ taken \in Abstract!Run
    BY <2>1 DEF Abstract!PagesIn, PagesIn, Abstract!Run, Run
  <2> HIDE DEF taken
  <2>5. Abstract!Alloc(taken)
    BY <1>1, <2>1, <2>2, <2>3, <2>4 DEF Abstract!Alloc
  <2> QED
    BY <2>4, <2>5 DEF Abstract!Next
<1>3. CASE AllocReturns
  <2>1. runs' \union InFlight' = runs \union InFlight /\ pmm_bitmap' = pmm_bitmap
    BY <1>3 DEF AllocReturns, InFlight, IInv, CallState
  <2> QED
    BY <1>1, <2>1 DEF Abstract!vars
<1>4. CASE AllocRetries \/ FindNothing \/ FindPanics \/ FindRunsWild
           \/ FindExtends \/ FindSkips
  <2>1. runs' \union InFlight' = runs \union InFlight /\ pmm_bitmap' = pmm_bitmap
    BY <1>4 DEF AllocRetries, FindNothing, FindPanics, FindRunsWild,
       FindExtends, FindSkips, InLoop, Probing, InFlight
  <2> QED
    BY <1>1, <2>1 DEF Abstract!vars
<1> QED
  BY <1>2, <1>3, <1>4 DEF AllocStep, pmm_find_pages

LEMMA FreeRefines ==
  ASSUME IInv, NEW run \in runs, pmm_free(run)
  PROVE  Abstract!Next
<1> USE DEF pmm_free, PagesFreed, globals, locals
<1>1. InFlight = {} /\ InFlight' = {} /\ Bits' = Bits
  BY DEF InFlight, Bits
<1>2. PagesIn(run) \subseteq Bits
  BY DEF IInv, TypeOK, Ledger, Held
<1>3. (Bits \ pmm_bitmap)' = (Bits \ pmm_bitmap) \union PagesIn(run)
  BY <1>1, <1>2
<1>4. run \in Abstract!Run /\ Abstract!PagesIn(run) = PagesIn(run)
  BY DEF IInv, TypeOK, Abstract!Run, Run, Abstract!PagesIn, PagesIn
<1>5. Abstract!Release(run)
  BY <1>1, <1>3, <1>4 DEF Abstract!Release
<1> QED
  BY <1>4, <1>5 DEF Abstract!Next

(***************************************************************************)
(* pmm.c implements the allocator its callers rely on (PageAllocator), for *)
(* every page size, memory map and set of request lengths.                 *)
(***************************************************************************)
THEOREM Refinement == Spec => ImplementsPageAllocator
<1>1. Init => Abstract!Init
  BY DEF Init, Abstract!Init, Bits, InFlight
<1>2. IInv /\ IInv' /\ [Next]_vars => [Abstract!Next]_(Abstract!vars)
  <2> SUFFICES ASSUME IInv, IInv', [Next]_vars
               PROVE  [Abstract!Next]_(Abstract!vars)
    OBVIOUS
  <2>1. CASE UNCHANGED vars
    BY <2>1 DEF vars, globals, locals, ghosts, Abstract!vars, Bits, InFlight,
       RunAt
  <2>2. CASE \E mbd \in BootInfos : Install(mbd)
    BY <2>2, InstallRefines
  <2>3. CASE \E n \in PageCounts : pmm_alloc(n)
    BY <2>3 DEF pmm_alloc, globals, Abstract!vars, Bits, InFlight
  <2>4. CASE AllocStep
    BY <2>4, AllocStepRefines
  <2>5. CASE \E run \in runs : pmm_free(run)
    BY <2>5, FreeRefines
  <2> QED
    BY <2>1, <2>2, <2>3, <2>4, <2>5 DEF Next
<1> QED
  BY <1>1, <1>2, IInvHolds, PTL DEF Spec, ImplementsPageAllocator, Abstract!Spec

-----------------------------------------------------------------------------
(***************************************************************************)
(* The safety of AllocEnds: a call of pmm_alloc cannot go on for ever.     *)
(* The passes and returns it still has before it are at most StepsLeft.    *)
(* A pass that counts a page moves Probe by one, one that gives a run up   *)
(* moves the rover by at least as much as it takes back from pages and, if *)
(* that is nothing, by one; and only the first search is followed by       *)
(* another.                                                                *)
(***************************************************************************)
BitCount == 8 * pmm_bitmap_size

PassesLeft == 2 * BitCount - (2 * pmm_last_page + pages)

StepsLeft ==
  CASE pc = "find" /\ attempt = 1 -> PassesLeft + 2 * BitCount + 4
    [] pc = "return" /\ attempt = 1 -> 2 * BitCount + 3
    [] pc = "find" /\ attempt = 2 -> PassesLeft + 2
    [] pc = "return" /\ attempt = 2 -> 1
    [] OTHER -> 0

RoverBound ==
  /\ pmm_last_page <= BitCount
  /\ pc = "find" => pmm_last_page + pages <= BitCount
  /\ pc \in {"find", "return"} => attempt \in {1, 2}

StepsAreFewer == [][AllocStep => StepsLeft' < StepsLeft]_vars

\* What the search compares are unsigned numbers.
LEMMA SearchNumbers ==
  ASSUME IInv
  PROVE  /\ pmm_last_page \in Nat /\ pages \in Nat /\ page_count \in Nat
         /\ pmm_bitmap_size \in Nat /\ pmm_page_count \in Nat
         /\ BitCount \in Nat /\ BitCount <= MaxPage + 1
         /\ \A p \in Bits : p \in Nat /\ p < BitCount
  BY PageCountsAssumption DEF IInv, TypeOK, BitCount, Bits

LEMMA RoverBoundKept ==
  ASSUME IInv, IInv', RoverBound, [Next]_vars
  PROVE  RoverBound'
<1> USE SearchNumbers DEF RoverBound
<1>1. CASE \E mbd \in BootInfos : Install(mbd)
  <2>1. pmm_last_page' = 0 /\ pc' \notin {"find", "return"}
    BY <1>1 DEF Install, InstallPanics, InstallHalts, pmm_install, IInv, CallState
  <2>2. pmm_bitmap_size' \in Nat
    BY ONLY IInv' DEF IInv, TypeOK
  <2>3. BitCount' \in Nat
    <3>1. \A n \in Nat : 8 * n \in Nat
      OBVIOUS
    <3>2. BitCount' = 8 * pmm_bitmap_size'
      BY ONLY DEF BitCount
    <3> QED
      BY ONLY <2>2, <3>1, <3>2
  <2> QED
    BY <2>1, <2>3
<1>2. CASE \E n \in PageCounts : pmm_alloc(n)
  BY <1>2 DEF pmm_alloc, globals, BitCount
<1>3. CASE AllocRetries \/ AllocReturns
  BY <1>3 DEF AllocRetries, AllocReturns, globals, BitCount
<1>4. CASE FindNothing \/ FindPanics \/ FindRunsWild
  BY <1>4 DEF FindNothing, FindPanics, FindRunsWild, InLoop, Probing,
     globals, locals, BitCount
<1>5. CASE FindExtends
  BY <1>5 DEF FindExtends, InLoop, Probing, Probe, globals, BitCount
<1>6. CASE FindTakes
  BY <1>6 DEF FindTakes, InLoop, Probing, Probe, globals, BitCount
<1>7. CASE FindSkips
  <2>1. Probe \in Bits
    BY <1>7 DEF FindSkips, IInv, TypeOK
  <2> QED
    BY <1>7, <2>1 DEF FindSkips, Stride, InLoop, Probing, Probe, globals, BitCount
<1>8. CASE \E run \in runs : pmm_free(run)
  BY <1>8 DEF pmm_free, globals, locals, BitCount
<1>9. CASE UNCHANGED vars
  BY <1>9 DEF vars, globals, locals, BitCount
<1> QED
  BY <1>1, <1>2, <1>3, <1>4, <1>5, <1>6, <1>7, <1>8, <1>9
  DEF Next, AllocStep, pmm_find_pages

\* Where StepsLeft is, by where the call is.
Measured ==
  /\ StepsLeft \in 0 .. (4 * BitCount + 4)
  /\ pc = "find" => /\ PassesLeft \in 0 .. (2 * BitCount)
                    /\ \/ attempt = 1 /\ StepsLeft = PassesLeft + (2 * BitCount + 4)
                       \/ attempt = 2 /\ StepsLeft = PassesLeft + 2
  /\ pc = "return" => \/ attempt = 1 /\ StepsLeft = 2 * BitCount + 3
                      \/ attempt = 2 /\ StepsLeft = 1
  /\ pc \notin {"find", "return"} => StepsLeft = 0

LEMMA SearchIsMeasured == IInv /\ RoverBound => Measured
<1> SUFFICES ASSUME IInv, RoverBound
             PROVE  Measured
  OBVIOUS
<1>1. pc = "find" => PassesLeft \in 0 .. (2 * BitCount)
  BY SearchNumbers DEF RoverBound, PassesLeft
<1>2. pc \in {"find", "return"} => attempt \in {1, 2}
  BY DEF RoverBound
<1>3. BitCount \in Nat
  BY SearchNumbers
<1> QED
  BY <1>1, <1>2, <1>3 DEF Measured, StepsLeft

LEMMA StepIsFewer ==
  ASSUME IInv, Measured, Measured', AllocStep
  PROVE  StepsLeft' < StepsLeft
<1>1. /\ pmm_last_page \in Nat /\ pages \in Nat /\ page_count \in Nat
      /\ BitCount \in Nat
  BY SearchNumbers
<1>2. CASE AllocRetries
  <2>1. /\ pc' = "find" /\ attempt' = 2 /\ pc = "return" /\ attempt = 1
        /\ BitCount' = BitCount
    BY <1>2 DEF AllocRetries, globals, BitCount
  <2>2. StepsLeft' <= 2 * BitCount + 2 /\ StepsLeft = 2 * BitCount + 3
    BY <1>1, <2>1 DEF Measured
  <2> QED
    BY <1>1, <2>2, <2>1 DEF Measured
<1>3. CASE AllocReturns \/ FindPanics \/ FindRunsWild
  <2>1. pc \in {"find", "return"} /\ pc' \notin {"find", "return"}
    BY <1>3 DEF AllocReturns, FindPanics, FindRunsWild, Probing, InLoop
  <2> QED
    BY <1>1, <2>1 DEF Measured
<1>4. CASE FindNothing \/ FindTakes
  <2>1. /\ pc = "find" /\ pc' = "return" /\ attempt' = attempt
        /\ BitCount' = BitCount
    BY <1>4 DEF FindNothing, FindTakes, Probing, InLoop, globals, BitCount
  <2> QED
    BY <1>1, <2>1 DEF Measured
<1>5. CASE FindExtends \/ FindSkips
  <2>1. /\ pc = "find" /\ pc' = "find" /\ attempt' = attempt
        /\ BitCount' = BitCount
    BY <1>5 DEF FindExtends, FindSkips, Probing, InLoop, globals, BitCount
  <2>2. 2 * pmm_last_page' + pages' > 2 * pmm_last_page + pages
    BY <1>1, <1>5 DEF FindExtends, FindSkips, Stride
  <2>3. pmm_last_page' \in Nat /\ pages' \in Nat
    BY <1>1, <1>5 DEF FindExtends, FindSkips, Stride
  <2>4. \A b, m, n \in Nat : m > n => 2 * b - m < 2 * b - n
    OBVIOUS
  <2>5. PassesLeft' < PassesLeft
    <3> DEFINE now  == 2 * pmm_last_page + pages
               then == 2 * pmm_last_page' + pages'
    <3> HIDE DEF now, then
    <3>1. now \in Nat /\ then \in Nat
      <4>1. \A m, n \in Nat : 2 * m + n \in Nat
        OBVIOUS
      <4> QED
        BY ONLY <1>1, <2>3, <4>1 DEF now, then
    <3>2. then > now
      BY ONLY <2>2 DEF now, then
    <3>3. PassesLeft = 2 * BitCount - now /\ PassesLeft' = 2 * BitCount - then
      BY ONLY <2>1 DEF PassesLeft, now, then
    <3> QED
      BY ONLY <1>1, <2>4, <3>1, <3>2, <3>3
  <2> QED
    BY <1>1, <2>1, <2>5 DEF Measured
<1> QED
  BY <1>2, <1>3, <1>4, <1>5 DEF AllocStep, pmm_find_pages

(***************************************************************************)
(* Every call of pmm_alloc is over after at most 4 * BitCount + 4 passes   *)
(* and returns, for every page size, memory map and sequence of calls:     *)
(* each step of a call leaves fewer of them to take (the while loop of     *)
(* pmm_find_pages and the second search of pmm_alloc).                     *)
(***************************************************************************)
THEOREM AllocIsBounded ==
  Spec => [](StepsLeft \in 0 .. (4 * BitCount + 4)) /\ StepsAreFewer
<1>1. Init => RoverBound
  BY DEF Init, RoverBound, BitCount
<1>2. IInv /\ IInv' /\ RoverBound /\ [Next]_vars => RoverBound'
  BY RoverBoundKept
<1>3. Spec => [](IInv /\ RoverBound /\ Measured)
  BY <1>1, <1>2, IInvHolds, SearchIsMeasured, PTL DEF Spec
<1>4. Measured => StepsLeft \in 0 .. (4 * BitCount + 4)
  BY DEF Measured
<1>5. IInv /\ Measured /\ Measured' => [AllocStep => StepsLeft' < StepsLeft]_vars
  BY StepIsFewer
<1> QED
  BY <1>3, <1>4, <1>5, PTL DEF StepsAreFewer
=============================================================================
