------------------------- MODULE KernelHeap_proofs -------------------------
(***************************************************************************)
(* Proofs about KernelHeap, for any number of frames and entries, any size *)
(* of page, header and word, and any arguments of kmalloc.  What vmm.c     *)
(* guarantees its callers is taken from the invariant of VMM_proofs, which *)
(* the steps of heap.c keep as well.                                       *)
(***************************************************************************)
EXTENDS KernelHeap, VMM_proofs

\* kmalloc has a run that it has not yet given to its caller.
InHand  == heap_pc \in {"map", "write"} /\ PagesFor(size) # 0
HandRun == [first |-> block, count |-> PagesFor(size)]

InUnmapSteps == {"clear", "release", "detach"}

\* vmm_map has a frame that is not yet in the directory.
NewTable == vmm_pc \in {"zero", "publish"}

\* The frames that runs begin with: of blocks, and of page tables.
Firsts     == {b.first : b \in Owning} \union (IF InHand THEN {block} ELSE {})
TablesHeld == TableFrames \union (IF NewTable THEN {new_pt} ELSE {})

\* Frame 0, which a block of no pages is said to be at, is nobody's.
ZeroIsNobodys ==
  /\ 0 \notin free
  /\ 0 \notin TablesHeld
  /\ \A r \in runs : 0 \notin Pmm!PagesIn(r)

(***************************************************************************)
(* Where heap.c is, vmm.c is with it, and works on the page of the block.  *)
(* head is 0 until heap_create has returned.                               *)
(***************************************************************************)
HeapCall ==
  /\ heap_pc \notin {"write", "return"} => vmm_pc = "idle"
  /\ heap_pc = "off" => head = 0
  /\ heap_pc \in {"idle", "map", "write", "unmap", "return"} => head # 0
  /\ heap_pc \in {"map", "write"} =>
       size \in Sizes /\ (PagesFor(size) = 0 => block = 0)
  /\ heap_pc = "write" =>
       /\ vmm_pc \notin InUnmapSteps
       /\ vmm_pc # "idle" => virt = HIGHER_HALF(block) /\ target = block
       /\ vmm_pc \in {"idle", "flush"} => mapped[HIGHER_HALF(block)] = block
  /\ heap_pc = "return" =>
       /\ vmm_pc \in {"idle", "flush"} \union InUnmapSteps
       /\ vmm_pc # "idle" => virt = HIGHER_HALF(block)
       /\ vmm_pc # "clear" => mapped[HIGHER_HALF(block)] = NotPresent
  /\ heap_pc \in {"unmap", "return"} => \A b \in blocks : b.first # block

\* Every run has one owner, and no two owners have runs at the same frame.
OwnersApart ==
  /\ Firsts \intersect TablesHeld = {}
  /\ \A b \in Owning : RunOf(b) \in runs /\ (InHand => b.first # block)
  /\ \A b, c \in Owning : b.first = c.first => b = c
  /\ InHand => HandRun \in runs
  /\ vmm_pc = "detach" => pt \in free

HeapsOwn ==
  IF head = 0
  THEN blocks = {} /\ runs = {} /\ header = [f \in Frames |-> NoHeader]
  ELSE /\ heap # head
       /\ {Single(heap), Single(head)} \subseteq runs
       /\ {heap, head} \intersect (Firsts \union TablesHeld) = {}

EveryRunIsOwned ==
  vmm_pc \notin Stopped =>
    \A r \in runs :
      \/ r \in {Single(heap), Single(head)}
      \/ r \in BlockRuns
      \/ InHand /\ r = HandRun
      \/ NewTable /\ r = Single(new_pt)
      \/ \E s \in Slots : /\ page_directory[s] # NotPresent
                          /\ ~(vmm_pc = "detach" /\ s = pdindex)
                          /\ r = Single(page_directory[s])

\* heap_alloc leaves the list as heap_create has made it: every header ever
\* written points to the first block, both ways.
HeadersAreTrue ==
  /\ \A f \in Frames :
       header[f] # NoHeader => header[f].next = head /\ header[f].prev = head
  /\ head # 0 => header[head] # NoHeader
  /\ \A b \in blocks :
       /\ b.count = PagesFor(b.size)
       /\ b.count = 0 => b.first = 0
       /\ header[b.first] # NoHeader
       /\ PagesFor(header[b.first].size) = b.count
       /\ b.count # 0 => header[b.first].size = b.size

\* What is mapped is the block in front of which a header is, and nothing else.
BlocksAreMapped ==
  /\ \A b \in blocks : mapped[HIGHER_HALF(b.first)] = b.first
  /\ \A v \in Pages :
       mapped[v] # NotPresent =>
         \E f \in Frames :
           /\ v = HIGHER_HALF(f)
           /\ mapped[v] = f
           /\ \/ \E b \in blocks : f = b.first
              \/ heap_pc \in {"write", "unmap", "return"} /\ f = block

HInv ==
  /\ IInv
  /\ HeapTypeOK
  /\ ZeroIsNobodys
  /\ HeapCall
  /\ OwnersApart
  /\ HeapsOwn
  /\ EveryRunIsOwned
  /\ HeadersAreTrue
  /\ BlocksAreMapped

-----------------------------------------------------------------------------
(***************************************************************************)
(* Facts about the state.                                                  *)
(***************************************************************************)
LEMMA HigherHalfFacts ==
  ASSUME NEW f \in Frames
  PROVE  HIGHER_HALF(f) \in Pages
<1>1. /\ f \div EntryCount \in Slots /\ Entries = 0 .. (EntryCount - 1)
      /\ EntryCount \in Nat \ {0}
  BY HeapAssumption, Zenon
<1>2. f % EntryCount \in 0 .. (EntryCount - 1)
  BY <1>1, FramesAssumption
<1> QED
  BY <1>1, <1>2 DEF HIGHER_HALF, Pages

LEMMA HigherHalfInjective ==
  ASSUME NEW f \in Frames, NEW g \in Frames, HIGHER_HALF(f) = HIGHER_HALF(g)
  PROVE  f = g
<1>1. f \in Nat /\ g \in Nat /\ EntryCount \in Nat \ {0}
  BY FramesAssumption, HeapAssumption
<1>2. f \div EntryCount = g \div EntryCount /\ f % EntryCount = g % EntryCount
  BY DEF HIGHER_HALF
<1>3. f = EntryCount * (f \div EntryCount) + (f % EntryCount)
  BY <1>1
<1>4. g = EntryCount * (g \div EntryCount) + (g % EntryCount)
  BY <1>1
<1> QED
  BY <1>2, <1>3, <1>4

LEMMA PagesForFacts ==
  ASSUME NEW n \in Sizes
  PROVE  PagesFor(n) \in RunLengths \union {0} /\ PagesFor(n) \in Nat
<1>1. PagesFor(n) \in RunLengths \union {0}
  BY HeapAssumption, Zenon
<1>2. \A m \in RunLengths \union {0} : m \in Nat
  BY RunLengthsAssumption
<1> QED
  BY <1>1, <1>2, Zenon

LEMMA ZeroFacts == 0 \in Frames /\ 0 \in Identity /\ 0 \in Nat
BY HeapAssumption, FramesAssumption

LEMMA TargetFacts ==
  ASSUME NEW f \in Frames
  PROVE  f \in Targets /\ f # NotPresent /\ f # Garbage /\ f \in Nat
BY HeapAssumption, EntriesAssumption, FramesAssumption

\* The run of a block is a run of the allocator, and its first page is its own.
LEMMA OwningFacts ==
  ASSUME HeapTypeOK, NEW b \in Owning
  PROVE  /\ b \in blocks /\ b.first \in Frames /\ b.count # 0
         /\ b.count \in RunLengths /\ b.count \in Nat
         /\ b.size \in Sizes
         /\ RunOf(b) \in Pmm!Run
         /\ RunOf(b).first = b.first
         /\ b.first \in Pmm!PagesIn(RunOf(b))
<1>1. b \in blocks /\ b.count # 0 /\ b \in Block
  BY DEF Owning, HeapTypeOK
<1>2. /\ b.first \in Frames /\ b.count \in RunLengths /\ b.size \in Sizes
      /\ b.count \in Nat /\ b.first \in Nat
  BY <1>1, RunLengthsAssumption, FramesAssumption DEF Block
<1> QED
  BY <1>1, <1>2 DEF RunOf, Pmm!Run, Pmm!PagesIn

LEMMA HandFacts ==
  ASSUME HeapTypeOK, HeapCall, InHand
  PROVE  /\ block \in Frames
         /\ PagesFor(size) \in RunLengths \ {0} /\ PagesFor(size) \in Nat
         /\ HandRun \in Pmm!Run
         /\ HandRun.first = block
         /\ block \in Pmm!PagesIn(HandRun)
<1>1. size \in Sizes /\ PagesFor(size) # 0 /\ block \in Frames
  BY DEF HeapCall, InHand, HeapTypeOK
<1>2. PagesFor(size) \in RunLengths \ {0} /\ PagesFor(size) \in Nat
  BY <1>1, PagesForFacts
<1>3. block \in Nat
  BY <1>1, TargetFacts
<1> QED
  BY <1>1, <1>2, <1>3 DEF HandRun, Pmm!Run, Pmm!PagesIn

\* What heap_free gets past its check of the magic for: blocks that are held.
LEMMA SeenIsHeld ==
  ASSUME HInv, heap_pc = "idle", NEW f \in Frames,
         Sees(HIGHER_HALF(f)) = {f}
  PROVE  \E b \in blocks : b.first = f
<1>1. HIGHER_HALF(f) \in Pages
  BY HigherHalfFacts
<1>2. vmm_pc = "idle"
  BY DEF HInv, HeapCall
<1>3. f = mapped[HIGHER_HALF(f)]
  BY <1>1, <1>2, IInvIsEnough DEF HInv, NothingStale
<1>4. mapped[HIGHER_HALF(f)] # NotPresent
  BY <1>3, TargetFacts
<1>5. PICK g \in Frames :
        /\ HIGHER_HALF(f) = HIGHER_HALF(g)
        /\ \E b \in blocks : g = b.first
  BY <1>1, <1>4 DEF HInv, BlocksAreMapped
<1>6. f = g
  BY <1>5, HigherHalfInjective
<1> QED
  BY <1>5, <1>6

LEMMA TablesHeldFacts ==
  ASSUME IInv, NEW f \in TablesHeld
  PROVE  f \in Frames /\ f # NotPresent
<1>1. CASE f \in TableFrames
  BY <1>1, TableFacts DEF TableFrames
<1>2. CASE NewTable /\ f = new_pt
  BY <1>2, TargetFacts DEF IInv, CallState, NewTable
<1> QED
  BY <1>1, <1>2 DEF TablesHeld

-----------------------------------------------------------------------------
(***************************************************************************)
(* The steps of heap.c that vmm.c has no part in keep its invariant.       *)
(***************************************************************************)
LEMMA TakingKeepsIInv ==
  ASSUME IInv, vmm_pc = "idle", runs \subseteq runs',
         Pmm!TypeOK', Pmm!Exclusive', RunsExist',
         UNCHANGED <<tables, mmu_vars, call, ghosts>>
  PROVE  IInv'
<1> USE EntriesAssumption, FramesAssumption DEF Stopped, Pages, pdindex,
    ptindex, pt, pmm_vars, mmu_vars, tables, call, ghosts
<1>1. TypeOK'
  BY DEF IInv, TypeOK
<1>2. TablesSayWhatIsMapped'
  BY DEF IInv, TypeOK, TablesSayWhatIsMapped
<1>3. TablesAreOwned'
  BY DEF IInv, TypeOK, TablesAreOwned, Single
<1>4. CacheAgrees' /\ TlbAgrees'
  BY DEF IInv, TypeOK, CacheAgrees, TlbAgrees, Clear
<1>5. CallState' /\ TablesInUse'
  BY DEF IInv, TypeOK, CallState, TablesInUse, InMap, InUnmap, Clear
<1> QED
  BY <1>1, <1>2, <1>3, <1>4, <1>5 DEF IInv

LEMMA WritingKeepsIInv ==
  ASSUME IInv, vmm_pc = "idle", NEW f \in Frames, f \notin TableFrames,
         memory' = [memory EXCEPT ![f] = [e \in Entries |-> Garbage]],
         UNCHANGED <<pmm_vars, page_directory, mmu_vars, call, ghosts>>
  PROVE  IInv'
<1> USE EntriesAssumption, FramesAssumption DEF Stopped, Pages, pdindex,
    ptindex, pt, pmm_vars, mmu_vars, tables, call, ghosts
<1>1. TypeOK' /\ Pmm!Exclusive' /\ RunsExist'
  BY DEF IInv, TypeOK, Pmm!TypeOK, Pmm!Exclusive, RunsExist, Pmm!PagesIn
<1>2. TablesSayWhatIsMapped'
  <2> SUFFICES ASSUME NEW v \in Pages
               PROVE  mapped'[v] = IF page_directory'[v[1]] = NotPresent
                                   THEN NotPresent
                                   ELSE memory'[page_directory'[v[1]]][v[2]]
    BY DEF TablesSayWhatIsMapped
  <2>1. v[1] \in Slots /\ v[2] \in Entries
    BY PageFacts
  <2>2. ASSUME page_directory[v[1]] # NotPresent
        PROVE  memory'[page_directory[v[1]]] = memory[page_directory[v[1]]]
    BY <2>1, <2>2, TableFacts DEF TableFrames, IInv, TypeOK
  <2> QED
    BY <2>2, Translation
<1>3. TablesAreOwned'
  BY DEF IInv, TypeOK, TablesAreOwned, Single
<1>4. CacheAgrees' /\ TlbAgrees'
  BY DEF IInv, TypeOK, CacheAgrees, TlbAgrees, Clear
<1>5. CallState' /\ TablesInUse'
  BY DEF IInv, TypeOK, CallState, TablesInUse, InMap, InUnmap, Clear
<1> QED
  BY <1>1, <1>2, <1>3, <1>4, <1>5 DEF IInv

LEMMA CreateKeeps ==
  ASSUME HInv, NEW h \in Frames, NEW first \in Frames, heap_create(h, first)
  PROVE  HInv'
<1> USE DEF pmm_vars, mmu_vars, tables, call, ghosts
<1>1. /\ head = 0 /\ vmm_pc = "idle" /\ blocks = {} /\ runs = {}
      /\ header = [f \in Frames |-> NoHeader]
  BY DEF HInv, HeapCall, HeapsOwn, heap_create
<1>2. /\ h # first /\ h \in Identity /\ first \in Identity
      /\ h \in free /\ first \in free
      /\ heap' = h /\ head' = first /\ heap_pc' = "idle"
      /\ runs' = {Single(h), Single(first)}
      /\ free' = free \ {h, first}
      /\ UNCHANGED <<tables, mmu_vars, call, ghosts, block, size, blocks>>
  BY <1>1 DEF heap_create
<1>3. /\ Single(h) \in Pmm!Run /\ Pmm!PagesIn(Single(h)) = {h}
      /\ Single(first) \in Pmm!Run /\ Pmm!PagesIn(Single(first)) = {first}
  BY SingleFacts
<1>4. /\ h # 0 /\ first # 0
      /\ 0 \notin free /\ 0 \notin TablesHeld
  BY <1>2 DEF HInv, ZeroIsNobodys
<1>5. TablesHeld = {} /\ TablesHeld' = {}
  <2>1. ASSUME NEW s \in Slots
        PROVE  page_directory[s] = NotPresent
    BY <1>1, TablesAreNotFree DEF HInv
  <2> QED
    BY <1>1, <1>2, <2>1 DEF TablesHeld, NewTable, TableFrames
<1>6. Owning' = {} /\ ~InHand' /\ Firsts' = {}
  BY <1>1, <1>2 DEF Owning, InHand, Firsts
<1>7. IInv'
  <2>1. Pmm!TypeOK'
    BY <1>2, <1>3 DEF HInv, IInv, TypeOK, Pmm!TypeOK
  <2>2. Pmm!PagesIn(Single(h)) \intersect free' = {}
        /\ Pmm!PagesIn(Single(first)) \intersect free' = {}
        /\ Pmm!PagesIn(Single(h)) \intersect Pmm!PagesIn(Single(first)) = {}
    BY <1>2, <1>3
  <2>3. Pmm!Exclusive'
    BY <1>2, <2>2 DEF Pmm!Exclusive, Pmm!PagesIn
  <2>4. RunsExist'
    BY <1>2, <1>3 DEF RunsExist, Pmm!PagesIn
  <2> QED
    BY <1>1, <1>2, <2>1, <2>3, <2>4, TakingKeepsIInv DEF HInv
<1>8. header' = [header EXCEPT ![first] =
                   [next |-> first, prev |-> first, size |-> 0]]
  BY DEF heap_create
<1>9. HeapTypeOK'
  BY <1>1, <1>2, <1>7, <1>8 DEF HInv, HeapTypeOK, IInv, Header
<1>10. ZeroIsNobodys'
  BY <1>2, <1>3, <1>4, <1>5 DEF ZeroIsNobodys, Pmm!PagesIn
<1>11. HeapCall'
  BY <1>1, <1>2, <1>4 DEF HeapCall
<1>12. OwnersApart'
  BY <1>1, <1>2, <1>5, <1>6 DEF OwnersApart
<1>13. HeapsOwn'
  BY <1>2, <1>4, <1>5, <1>6 DEF HeapsOwn, Single
<1>14. EveryRunIsOwned'
  BY <1>2 DEF EveryRunIsOwned, Single
<1>15. HeadersAreTrue'
  <2>1. [next |-> first, prev |-> first, size |-> 0] # NoHeader
    BY HeapAssumption DEF Header
  <2> QED
    BY <1>1, <1>2, <1>8, <2>1 DEF HeadersAreTrue
<1>16. BlocksAreMapped'
  BY <1>1, <1>2 DEF HInv, BlocksAreMapped, HeapCall, heap_create
<1> QED
  BY <1>7, <1>9, <1>10, <1>11, <1>12, <1>13, <1>14, <1>15, <1>16 DEF HInv

\* The kernel stops in heap.c, or refuses a pointer: nothing else changes.
LEMMA StoppingKeeps ==
  ASSUME HInv, heap_pc \in {"off", "idle"},
         heap_pc' \in HeapStopped,
         UNCHANGED <<vmm_vars, heap, head, block, size, header, blocks>>
  PROVE  HInv'
<1> USE DEF vmm_vars, pmm_vars, mmu_vars, tables, call, ghosts, HeapStopped
<1>1. IInv'
  BY StutterKeeps DEF HInv
<1>2. ~InHand /\ ~InHand' /\ Owning' = Owning /\ vmm_pc = "idle"
  BY DEF InHand, Owning, Stopped, HInv, HeapCall
<1>3. Firsts' = Firsts /\ TablesHeld' = TablesHeld
  BY <1>2 DEF Firsts, TablesHeld, TableFrames, NewTable
<1>4. HeapTypeOK'
  BY <1>1 DEF HInv, HeapTypeOK, IInv
<1>5. ZeroIsNobodys'
  BY <1>3 DEF HInv, ZeroIsNobodys, Pmm!PagesIn
<1>6. HeapCall'
  BY DEF HInv, HeapCall, Stopped
<1>7. OwnersApart'
  BY <1>2, <1>3 DEF HInv, OwnersApart, RunOf
<1>8. HeapsOwn'
  BY <1>3 DEF HInv, HeapsOwn, Single
<1>9. EveryRunIsOwned'
  BY <1>2 DEF HInv, EveryRunIsOwned, BlockRuns, RunOf, Single, NewTable, pdindex
<1>10. HeadersAreTrue'
  BY DEF HInv, HeadersAreTrue
<1>11. BlocksAreMapped'
  BY DEF HInv, BlocksAreMapped, Stopped
<1> QED
  BY <1>1, <1>4, <1>5, <1>6, <1>7, <1>8, <1>9, <1>10, <1>11 DEF HInv

LEMMA StutteringKeeps ==
  ASSUME HInv, UNCHANGED vars
  PROVE  HInv'
<1> USE DEF vars, heap_vars, vmm_vars, pmm_vars, mmu_vars, tables, call, ghosts
<1>1. IInv'
  BY StutterKeeps DEF HInv
<1>2. InHand' = InHand /\ Owning' = Owning /\ HandRun' = HandRun
  BY DEF InHand, Owning, HandRun
<1>3. Firsts' = Firsts /\ TablesHeld' = TablesHeld
  BY <1>2 DEF Firsts, TablesHeld, TableFrames, NewTable
<1>4. HeapTypeOK'
  BY <1>1 DEF HInv, HeapTypeOK, IInv
<1>5. ZeroIsNobodys'
  BY <1>3 DEF HInv, ZeroIsNobodys, Pmm!PagesIn
<1>6. HeapCall'
  BY DEF HInv, HeapCall
<1>7. OwnersApart'
  BY <1>2, <1>3 DEF HInv, OwnersApart, RunOf, pt, pdindex
<1>8. HeapsOwn'
  BY <1>3 DEF HInv, HeapsOwn, Single
<1>9. EveryRunIsOwned'
  BY <1>2 DEF HInv, EveryRunIsOwned, BlockRuns, RunOf, Single, NewTable, pdindex
<1>10. HeadersAreTrue'
  BY DEF HInv, HeadersAreTrue
<1>11. BlocksAreMapped'
  BY DEF HInv, BlocksAreMapped
<1> QED
  BY <1>1, <1>4, <1>5, <1>6, <1>7, <1>8, <1>9, <1>10, <1>11 DEF HInv

(***************************************************************************)
(* heap_alloc: the run it is given is nobody else's.                       *)
(***************************************************************************)
LEMMA HeapAllocKeeps ==
  ASSUME HInv, NEW n \in Sizes, NEW first \in Frames, heap_alloc(n, first)
  PROVE  HInv'
<1> USE DEF pmm_vars, mmu_vars, tables, call, ghosts
<1> DEFINE run == [first |-> first, count |-> PagesFor(n)]
<1>1. /\ heap_pc = "idle" /\ vmm_pc = "idle" /\ head # 0
      /\ block' = first /\ size' = n /\ heap_pc' = "map"
      /\ UNCHANGED <<tables, mmu_vars, call, ghosts, heap, head, header, blocks>>
  BY DEF HInv, HeapCall, heap_alloc
<1>2. /\ ~InHand /\ Owning' = Owning /\ BlockRuns' = BlockRuns
      /\ TablesHeld' = TablesHeld
      /\ Firsts = {b.first : b \in Owning}
  BY <1>1 DEF InHand, Owning, BlockRuns, RunOf, TablesHeld, TableFrames,
     NewTable, Firsts
<1>3. PagesFor(n) \in Nat /\ PagesFor(n) \in RunLengths \union {0}
  BY PagesForFacts
<1>4. CASE PagesFor(n) = 0
  <2>1. first = 0 /\ UNCHANGED pmm_vars /\ ~InHand'
    BY <1>1, <1>4 DEF heap_alloc, InHand
  <2>2. IInv'
    BY <1>1, <2>1, StutterKeeps DEF HInv, vmm_vars
  <2>3. Firsts' = Firsts
    BY <1>2, <2>1 DEF Firsts
  <2>4. HeapTypeOK'
    BY <1>1, <2>2 DEF HInv, HeapTypeOK, IInv
  <2>5. ZeroIsNobodys'
    BY <1>2, <2>1 DEF HInv, ZeroIsNobodys, Pmm!PagesIn
  <2>6. HeapCall'
    BY <1>1, <2>1 DEF HInv, HeapCall
  <2>7. OwnersApart'
    BY <1>1, <1>2, <2>1, <2>3 DEF HInv, OwnersApart, RunOf
  <2>8. HeapsOwn'
    BY <1>1, <1>2, <2>1, <2>3 DEF HInv, HeapsOwn, Single
  <2>9. EveryRunIsOwned'
    BY <1>1, <1>2, <2>1 DEF HInv, EveryRunIsOwned, Single, NewTable, pdindex
  <2>10. HeadersAreTrue'
    BY <1>1 DEF HInv, HeadersAreTrue
  <2>11. BlocksAreMapped'
    BY <1>1 DEF HInv, BlocksAreMapped
  <2> QED
    BY <2>2, <2>4, <2>5, <2>6, <2>7, <2>8, <2>9, <2>10, <2>11 DEF HInv
<1>5. CASE PagesFor(n) # 0
  <2>1. /\ run \in Pmm!Run /\ run.first = first
        /\ Pmm!Alloc(run) /\ first \in Pmm!PagesIn(run)
    BY <1>1, <1>3, <1>5, TargetFacts DEF heap_alloc, Pmm!Run, Pmm!PagesIn
  <2>2. /\ Pmm!PagesIn(run) \subseteq free
        /\ free' = free \ Pmm!PagesIn(run)
        /\ runs' = runs \union {run}
        /\ first \in free
    BY <2>1 DEF Pmm!Alloc
  <2>3. IInv'
    <3>1. Pmm!TypeOK' /\ Pmm!Exclusive' /\ RunsExist'
      BY <2>1, AllocKeeps DEF HInv, IInv, TypeOK
    <3> QED
      BY <1>1, <2>2, <3>1, TakingKeepsIInv DEF HInv
  <2>4. InHand' /\ HandRun' = run /\ Firsts' = Firsts \union {first}
    BY <1>1, <1>2, <1>5 DEF InHand, HandRun, Firsts
  \* No run that is out begins at a frame that was free.
  <2>5. ASSUME NEW r \in runs, r \in Pmm!Run
        PROVE  r.first # first
    <3>0. r.first \in Frames /\ r.count \in RunLengths \ {0}
      BY <2>5 DEF Pmm!Run
    <3>a. r.first \in Nat /\ r.count \in Nat /\ r.count # 0
      BY <3>0, RunLengthsAssumption, FramesAssumption
    <3>1. r.first \in Pmm!PagesIn(r)
      BY <3>a DEF Pmm!PagesIn
    <3> QED
      BY <2>2, <3>1 DEF HInv, IInv, Pmm!Exclusive
  <2>6. \A r \in runs : r.first # first
    BY <2>5 DEF HInv, IInv, TypeOK, Pmm!TypeOK
  <2>7. first \notin TablesHeld
    <3>1. ASSUME NEW s \in Slots, page_directory[s] # NotPresent
          PROVE  page_directory[s] # first
      BY <1>1, <2>2, <3>1, TablesAreNotFree DEF HInv
    <3> QED
      BY <1>1, <3>1 DEF TablesHeld, TableFrames, NewTable
  <2>8. first \notin Firsts /\ first # heap /\ first # head
    <3>1. ASSUME NEW b \in Owning
          PROVE  b.first # first
      BY <2>6 DEF HInv, OwnersApart, RunOf
    <3>2. first # heap /\ first # head
      BY <1>1, <2>6 DEF HInv, HeapsOwn, Single
    <3> QED
      BY <1>2, <3>1, <3>2
  <2>9. HeapTypeOK'
    BY <1>1, <2>3 DEF HInv, HeapTypeOK, IInv
  <2>10. ZeroIsNobodys'
    BY <1>2, <2>2 DEF HInv, ZeroIsNobodys, Pmm!PagesIn
  <2>11. HeapCall'
    BY <1>1, <1>5 DEF HInv, HeapCall
  <2>12. OwnersApart'
    <3>1. Firsts' \intersect TablesHeld' = {}
      BY <1>2, <2>4, <2>7 DEF HInv, OwnersApart
    <3>2. ASSUME NEW b \in Owning
          PROVE  RunOf(b) \in runs' /\ b.first # block'
      BY <1>1, <1>2, <2>2, <2>8 DEF HInv, OwnersApart
    <3>3. \A b, c \in Owning : b.first = c.first => b = c
      BY DEF HInv, OwnersApart
    <3>4. HandRun' \in runs' /\ vmm_pc' # "detach"
      BY <1>1, <2>2, <2>4
    <3> QED
      BY <1>2, <3>1, <3>2, <3>3, <3>4 DEF OwnersApart, RunOf
  <2>13. HeapsOwn'
    BY <1>1, <1>2, <2>2, <2>4, <2>8 DEF HInv, HeapsOwn, Single
  <2>14. EveryRunIsOwned'
    BY <1>1, <1>2, <2>2, <2>4 DEF HInv, EveryRunIsOwned, Single, NewTable, pdindex
  <2>15. HeadersAreTrue'
    BY <1>1 DEF HInv, HeadersAreTrue
  <2>16. BlocksAreMapped'
    BY <1>1 DEF HInv, BlocksAreMapped
  <2> QED
    BY <2>3, <2>9, <2>10, <2>11, <2>12, <2>13, <2>14, <2>15, <2>16 DEF HInv
<1> QED
  BY <1>4, <1>5

(***************************************************************************)
(* vmm_map and vmm_unmap are called for the page of the block.             *)
(***************************************************************************)
LEMMA AllocMapsKeeps ==
  ASSUME HInv, AllocMaps
  PROVE  HInv'
<1> USE DEF pmm_vars, mmu_vars, tables, call, ghosts
<1>1. /\ heap_pc = "map" /\ heap_pc' = "write" /\ head # 0
      /\ vmm_map(block, HIGHER_HALF(block))
      /\ UNCHANGED <<heap, head, block, size, header, blocks>>
  BY DEF HInv, HeapCall, AllocMaps
<1>2. block \in Frames /\ block \in Targets /\ HIGHER_HALF(block) \in Pages
  BY HigherHalfFacts, TargetFacts DEF HInv, HeapTypeOK
<1>3. IInv'
  BY <1>1, <1>2, VmmMapKeeps DEF HInv
<1>4. /\ vmm_pc = "idle" /\ vmm_pc' \in {"alloc", "enter"}
      /\ virt' = HIGHER_HALF(block) /\ target' = block
      /\ UNCHANGED <<pmm_vars, tables, mmu_vars, new_pt, mapped>>
  BY <1>1 DEF vmm_map
<1>5. /\ InHand' = InHand /\ Owning' = Owning /\ HandRun' = HandRun
      /\ BlockRuns' = BlockRuns /\ ~NewTable /\ ~NewTable'
  BY <1>1, <1>4 DEF InHand, Owning, HandRun, BlockRuns, RunOf, NewTable
<1>6. Firsts' = Firsts /\ TablesHeld' = TablesHeld
  BY <1>1, <1>4, <1>5 DEF Firsts, TablesHeld, TableFrames
<1>7. HeapTypeOK'
  BY <1>1, <1>3 DEF HInv, HeapTypeOK, IInv
<1>8. ZeroIsNobodys'
  BY <1>4, <1>6 DEF HInv, ZeroIsNobodys, Pmm!PagesIn
<1>9. HeapCall'
  BY <1>1, <1>4 DEF HInv, HeapCall, InUnmapSteps, HIGHER_HALF
<1>10. OwnersApart'
  BY <1>1, <1>4, <1>5, <1>6 DEF HInv, OwnersApart, RunOf
<1>11. HeapsOwn'
  BY <1>1, <1>4, <1>6 DEF HInv, HeapsOwn, Single
<1>12. EveryRunIsOwned'
  BY <1>1, <1>4, <1>5 DEF HInv, EveryRunIsOwned, Single, Stopped
<1>13. HeadersAreTrue'
  BY <1>1 DEF HInv, HeadersAreTrue
<1>14. BlocksAreMapped'
  BY <1>1, <1>4 DEF HInv, BlocksAreMapped
<1> QED
  BY <1>3, <1>7, <1>8, <1>9, <1>10, <1>11, <1>12, <1>13, <1>14 DEF HInv

LEMMA FreeUnmapsKeeps ==
  ASSUME HInv, FreeUnmaps
  PROVE  HInv'
<1> USE DEF pmm_vars, mmu_vars, tables, call, ghosts
<1>1. /\ heap_pc = "unmap" /\ heap_pc' = "return" /\ head # 0
      /\ vmm_unmap(HIGHER_HALF(block))
      /\ UNCHANGED <<heap, head, block, size, header, blocks>>
  BY DEF HInv, HeapCall, FreeUnmaps
<1>2. block \in Frames /\ HIGHER_HALF(block) \in Pages
  BY HigherHalfFacts DEF HInv, HeapTypeOK
<1>3. IInv'
  BY <1>1, <1>2, VmmUnmapKeeps DEF HInv
<1>4. /\ vmm_pc = "idle"
      /\ vmm_pc' = IF page_directory[HIGHER_HALF(block)[1]] = NotPresent
                   THEN "flush" ELSE "clear"
      /\ virt' = HIGHER_HALF(block)
      /\ UNCHANGED <<pmm_vars, tables, mmu_vars, new_pt, mapped>>
  BY <1>1 DEF vmm_unmap
<1>5. /\ ~InHand /\ ~InHand' /\ Owning' = Owning
      /\ BlockRuns' = BlockRuns /\ ~NewTable /\ ~NewTable'
  BY <1>1, <1>4 DEF InHand, Owning, BlockRuns, RunOf, NewTable
<1>6. Firsts' = Firsts /\ TablesHeld' = TablesHeld
  BY <1>1, <1>4, <1>5 DEF Firsts, TablesHeld, TableFrames
<1>7. HeapTypeOK'
  BY <1>1, <1>3 DEF HInv, HeapTypeOK, IInv
<1>8. ZeroIsNobodys'
  BY <1>4, <1>6 DEF HInv, ZeroIsNobodys, Pmm!PagesIn
<1>9. HeapCall'
  <2>1. vmm_pc' = "flush" => mapped[HIGHER_HALF(block)] = NotPresent
    BY <1>2, <1>4, Translation DEF HInv
  <2> QED
    BY <1>1, <1>4, <2>1 DEF HInv, HeapCall, InUnmapSteps, HIGHER_HALF
<1>10. OwnersApart'
  BY <1>1, <1>4, <1>5, <1>6 DEF HInv, OwnersApart, RunOf
<1>11. HeapsOwn'
  BY <1>1, <1>4, <1>6 DEF HInv, HeapsOwn, Single
<1>12. EveryRunIsOwned'
  BY <1>1, <1>4, <1>5 DEF HInv, EveryRunIsOwned, Single, Stopped
<1>13. HeadersAreTrue'
  BY <1>1 DEF HInv, HeadersAreTrue
<1>14. BlocksAreMapped'
  BY <1>1, <1>4 DEF HInv, BlocksAreMapped
<1> QED
  BY <1>3, <1>7, <1>8, <1>9, <1>10, <1>11, <1>12, <1>13, <1>14 DEF HInv

(***************************************************************************)
(* heap_alloc returns: its run becomes a block of the caller's.            *)
(***************************************************************************)
LEMMA AllocReturnsKeeps ==
  ASSUME HInv, AllocReturns
  PROVE  HInv'
<1> USE DEF pmm_vars, mmu_vars, tables, call, ghosts
<1> DEFINE new == [first |-> block, count |-> PagesFor(size), size |-> size]
<1>1. /\ heap_pc = "write" /\ heap_pc' = "idle" /\ head # 0
      /\ vmm_pc = "idle"
      /\ header' = [header EXCEPT ![block] = NewHeader]
      /\ memory' = [memory EXCEPT ![block] = [e \in Entries |-> Garbage]]
      /\ blocks' = blocks \union {new}
      /\ block' = 0 /\ size' = 0
      /\ UNCHANGED <<pmm_vars, page_directory, mmu_vars, call, ghosts, heap, head>>
  BY DEF HInv, HeapCall, AllocReturns
<1>2. /\ block \in Frames /\ size \in Sizes
      /\ PagesFor(size) \in RunLengths \union {0}
      /\ PagesFor(size) = 0 => block = 0
      /\ mapped[HIGHER_HALF(block)] = block
  BY <1>1, PagesForFacts DEF HInv, HeapCall, HeapTypeOK
<1>3. /\ InHand <=> PagesFor(size) # 0
      /\ ~InHand' /\ ~NewTable /\ ~NewTable'
      /\ new.first = block /\ new.count = PagesFor(size) /\ new.size = size
      /\ RunOf(new) = HandRun
  BY <1>1 DEF InHand, NewTable, RunOf, HandRun
<1>4. Owning' = Owning \union (IF InHand THEN {new} ELSE {})
  BY <1>1, <1>3 DEF Owning
<1>5. Firsts' = Firsts
  BY <1>3, <1>4 DEF Firsts
<1>6. TablesHeld' = TablesHeld
  BY <1>1, <1>3 DEF TablesHeld, TableFrames
<1>7. block \notin TablesHeld
  BY <1>2, <1>3 DEF HInv, ZeroIsNobodys, OwnersApart, Firsts
<1>8. IInv'
  BY <1>1, <1>2, <1>7, WritingKeepsIInv DEF HInv, TablesHeld
<1>9. block # head
  <2>1. ASSUME head = 0
        PROVE  FALSE
    BY <1>1, <2>1
  <2>2. CASE InHand
    BY <1>1, <2>2 DEF HInv, HeapsOwn, Firsts
  <2>3. CASE ~InHand
    BY <1>1, <1>2, <1>3, <2>3
  <2> QED
    BY <2>2, <2>3
<1>10. /\ NewHeader = [next |-> head, prev |-> head, size |-> size]
       /\ NewHeader \in Header /\ NewHeader # NoHeader
  <2>1. header[head].prev = head /\ head \in Frames
    BY <1>1, FramesAssumption DEF HInv, HeadersAreTrue, HeapTypeOK
  <2> QED
    BY <1>2, <2>1, HeapAssumption DEF NewHeader, Header
<1>11. HeapTypeOK'
  <2>1. new \in Block
    BY <1>2 DEF Block
  <2> QED
    BY <1>1, <1>8, <1>10, <2>1, ZeroFacts DEF HInv, HeapTypeOK, IInv
<1>12. ZeroIsNobodys'
  BY <1>1, <1>6 DEF HInv, ZeroIsNobodys, Pmm!PagesIn
<1>13. HeapCall'
  BY <1>1 DEF HInv, HeapCall
<1>14. OwnersApart'
  <2>1. ASSUME NEW b \in Owning'
        PROVE  RunOf(b) \in runs'
    BY <1>1, <1>3, <1>4 DEF HInv, OwnersApart
  <2>2. ASSUME NEW b \in Owning', NEW c \in Owning', b.first = c.first
        PROVE  b = c
    BY <1>3, <1>4, <2>2 DEF HInv, OwnersApart
  <2> QED
    BY <1>1, <1>3, <1>5, <1>6, <2>1, <2>2 DEF HInv, OwnersApart, RunOf
<1>15. HeapsOwn'
  BY <1>1, <1>5, <1>6 DEF HInv, HeapsOwn, Single
<1>16. EveryRunIsOwned'
  <2>1. BlockRuns' = BlockRuns \union (IF InHand THEN {HandRun} ELSE {})
    BY <1>3, <1>4 DEF BlockRuns, RunOf
  <2> QED
    BY <1>1, <1>3, <2>1 DEF HInv, EveryRunIsOwned, Single
<1>17. HeadersAreTrue'
  <2>1. ASSUME NEW f \in Frames, f # block
        PROVE  header'[f] = header[f]
    BY <1>1, <2>1 DEF HInv, HeapTypeOK
  <2>2. header'[block] = NewHeader
    BY <1>1, <1>2 DEF HInv, HeapTypeOK
  <2>3. ASSUME NEW f \in Frames, header'[f] # NoHeader
        PROVE  header'[f].next = head /\ header'[f].prev = head
    BY <1>10, <2>1, <2>2, <2>3 DEF HInv, HeadersAreTrue
  <2>4. header'[head] # NoHeader
    BY <1>1, <1>9, <2>1, FramesAssumption DEF HInv, HeadersAreTrue, HeapTypeOK
  <2>5. ASSUME NEW b \in blocks
        PROVE  /\ b.first \in Frames
               /\ b.count = PagesFor(b.size)
               /\ b.count = 0 => b.first = 0
               /\ header[b.first] # NoHeader
               /\ PagesFor(header[b.first].size) = b.count
               /\ b.count # 0 => header[b.first].size = b.size
    BY DEF HInv, HeadersAreTrue, HeapTypeOK, Block
  \* Only a block of no pages can be written over, by another.
  <2>6. ASSUME NEW b \in blocks, b.first = block
        PROVE  b.count = 0 /\ PagesFor(size) = 0
    <3>1. CASE InHand
      <4>1. block \in Pmm!PagesIn(HandRun) /\ HandRun \in runs
        BY <3>1, HandFacts DEF HInv, OwnersApart
      <4>2. block # 0
        BY <4>1 DEF HInv, ZeroIsNobodys
      <4>3. b \in Owning
        BY <2>5, <2>6, <4>2 DEF Owning
      <4> QED
        BY <2>6, <3>1, <4>3 DEF HInv, OwnersApart
    <3>2. CASE ~InHand
      <4>1. block = 0 /\ PagesFor(size) = 0
        BY <1>2, <1>3, <3>2
      <4>2. CASE b.count # 0
        <5>1. b \in Owning
          BY <4>2 DEF Owning
        <5>2. 0 \in Pmm!PagesIn(RunOf(b))
          BY <2>6, <4>1, <5>1, OwningFacts DEF HInv
        <5> QED
          BY <5>1, <5>2 DEF HInv, OwnersApart, ZeroIsNobodys
      <4> QED
        BY <4>1, <4>2
    <3> QED
      BY <3>1, <3>2
  <2>7. ASSUME NEW b \in blocks'
        PROVE  /\ b.count = PagesFor(b.size)
               /\ b.count = 0 => b.first = 0
               /\ header'[b.first] # NoHeader
               /\ PagesFor(header'[b.first].size) = b.count
               /\ b.count # 0 => header'[b.first].size = b.size
    <3>1. CASE b = new
      BY <1>2, <1>3, <1>10, <2>2, <3>1
    <3>2. CASE b \in blocks /\ b.first # block
      BY <2>1, <2>5, <3>2
    <3>3. CASE b \in blocks /\ b.first = block
      BY <1>10, <2>2, <2>5, <2>6, <3>3
    <3> QED
      BY <1>1, <3>1, <3>2, <3>3
  <2> QED
    BY <1>1, <2>3, <2>4, <2>7 DEF HeadersAreTrue
<1>18. BlocksAreMapped'
  BY <1>1, <1>2, <1>3 DEF HInv, BlocksAreMapped, HIGHER_HALF
<1> QED
  BY <1>8, <1>11, <1>12, <1>13, <1>14, <1>15, <1>16, <1>17, <1>18 DEF HInv

(***************************************************************************)
(* heap_free.  What is behind the pointer is a block; the run that its     *)
(* header yields is the block's, or has no pages.                          *)
(***************************************************************************)
\* heap_free takes nothing out of the list that is in it.
LEMMA HeadersStay ==
  ASSUME HInv, heap_pc = "idle", NEW f \in Frames, header[f] # NoHeader,
         header' = [header EXCEPT ![header[f].prev].next = header[f].next,
                                  ![header[f].next].prev = header[f].prev]
  PROVE  header' = header
<1>1. header[f].prev = head /\ header[f].next = head
  BY DEF HInv, HeadersAreTrue
<1>2. head \in Frames /\ header[head] # NoHeader
  BY FramesAssumption DEF HInv, HeapCall, HeapTypeOK, HeadersAreTrue
<1>3. /\ header[head] \in Header
      /\ header[head].next = head /\ header[head].prev = head
  BY <1>2 DEF HInv, HeapTypeOK, HeadersAreTrue
<1>4. [header[head] EXCEPT !.next = head] = header[head]
  BY <1>3 DEF Header
<1>5. [header[head] EXCEPT !.prev = head] = header[head]
  BY <1>3 DEF Header
<1>6. header \in [Frames -> Header \union {NoHeader}]
  BY DEF HInv, HeapTypeOK
<1>7. [header EXCEPT ![head].next = head] = header
  BY <1>2, <1>4, <1>6
<1>8. [header EXCEPT ![head].prev = head] = header
  BY <1>2, <1>5, <1>6
<1>9. header' = [[header EXCEPT ![head].next = head] EXCEPT ![head].prev = head]
  BY <1>1
<1> QED
  BY <1>7, <1>8, <1>9

\* The run that heap_free gives back.
FreedRun(f) == [first |-> f, count |-> PagesOf(header[f])]

\* It is the run of the block that is freed; a block of no pages has none.
LEMMA FreedRunFacts ==
  ASSUME HInv, NEW b \in blocks
  PROVE  \/ /\ b \in Owning
            /\ FreedRun(b.first) = RunOf(b)
            /\ RunOf(b) \in runs
         \/ /\ b.first = 0
            /\ Pmm!PagesIn(FreedRun(b.first)) = {}
            /\ FreedRun(b.first) \notin runs
            /\ \A c \in Owning : c.first # b.first
<1>1. PagesFor(header[b.first].size) = b.count
  BY DEF HInv, HeadersAreTrue
<1>2. FreedRun(b.first) = [first |-> b.first, count |-> b.count]
  BY <1>1 DEF FreedRun, PagesOf
<1>3. CASE b.count # 0
  BY <1>2, <1>3 DEF Owning, RunOf, HInv, OwnersApart
<1>4. CASE b.count = 0
  <2>1. b.first = 0
    BY <1>4 DEF HInv, HeadersAreTrue
  <2>2. Pmm!PagesIn(FreedRun(b.first)) = {}
    BY <1>2, <1>4, <2>1 DEF Pmm!PagesIn
  <2>3. FreedRun(b.first) \notin runs
    BY <1>2, <1>4 DEF HInv, IInv, TypeOK, Pmm!TypeOK, Pmm!Run
  <2>4. ASSUME NEW c \in Owning
        PROVE  c.first # 0
    <3>1. c.first \in Pmm!PagesIn(RunOf(c)) /\ RunOf(c) \in runs
      BY OwningFacts DEF HInv, OwnersApart
    <3> QED
      BY <3>1 DEF HInv, ZeroIsNobodys
  <2> QED
    BY <2>1, <2>2, <2>3, <2>4
<1> QED
  BY <1>3, <1>4

LEMMA HeapFreeKeeps ==
  ASSUME HInv, NEW f \in Frames, heap_free(f)
  PROVE  HInv'
<1> USE DEF pmm_vars, mmu_vars, tables, call, ghosts
<1>1. /\ heap_pc = "idle" /\ heap_pc' = "unmap" /\ head # 0
      /\ vmm_pc = "idle"
      /\ Sees(HIGHER_HALF(f)) = {f} /\ header[f] # NoHeader
      /\ header' = header
      /\ free' = free \union Pmm!PagesIn(FreedRun(f))
      /\ runs' = runs \ {FreedRun(f)}
      /\ blocks' = {b \in blocks : b.first # f}
      /\ block' = f
      /\ UNCHANGED <<tables, mmu_vars, call, ghosts, heap, head, size>>
  BY HeadersStay DEF HInv, HeapCall, heap_free, FreedRun
<1>2. PICK b \in blocks : b.first = f
  BY <1>1, SeenIsHeld
<1>3. /\ ~InHand /\ ~InHand' /\ ~NewTable /\ ~NewTable'
      /\ Owning' = {c \in Owning : c.first # f}
      /\ Firsts' = Firsts \ {f}
      /\ TablesHeld' = TablesHeld
  BY <1>1 DEF InHand, NewTable, Owning, Firsts, TablesHeld, TableFrames
<1>4. /\ IInv'
      /\ 0 \notin free'
      /\ \A c \in Owning' : RunOf(c) \in runs'
      /\ {Single(heap), Single(head)} \subseteq runs'
      /\ \A r \in runs' : r \in BlockRuns => r \in BlockRuns'
  <2>1. CASE b \in Owning /\ FreedRun(f) = RunOf(b) /\ RunOf(b) \in runs
    <3>1. Pmm!Release(RunOf(b))
      BY <1>1, <2>1 DEF Pmm!Release
    <3>2. RunOf(b) \notin {Single(t) : t \in TableFrames}
      BY <1>2, <2>1 DEF HInv, OwnersApart, Firsts, TablesHeld, RunOf, Single
    <3>3. OwnersReturn(RunOf(b))
      BY <1>1, <3>1, <3>2 DEF OwnersReturn
    <3>4. IInv'
      BY <2>1, <3>3, OwnersReturnKeeps DEF HInv
    <3>5. 0 \notin free'
      BY <1>1, <2>1 DEF HInv, ZeroIsNobodys
    <3>6. ASSUME NEW c \in Owning, c.first # f
          PROVE  RunOf(c) # RunOf(b)
      BY <1>2, <3>6 DEF RunOf
    <3>7. {Single(heap), Single(head)} \subseteq runs'
      BY <1>1, <1>2, <2>1 DEF HInv, HeapsOwn, Firsts, RunOf, Single
    <3>8. ASSUME NEW r \in runs', r \in BlockRuns
          PROVE  r \in BlockRuns'
      <4>1. PICK c \in Owning : r = RunOf(c)
        BY <3>8 DEF BlockRuns
      <4>2. c # b
        BY <1>1, <2>1, <3>8, <4>1
      <4>3. c.first # f
        BY <1>2, <2>1, <4>2 DEF HInv, OwnersApart
      <4> QED
        BY <1>3, <4>1, <4>3 DEF BlockRuns, RunOf
    <3> QED
      BY <1>1, <1>3, <2>1, <3>4, <3>5, <3>6, <3>7, <3>8 DEF HInv, OwnersApart
  <2>2. CASE /\ f = 0
             /\ Pmm!PagesIn(FreedRun(f)) = {}
             /\ FreedRun(f) \notin runs
             /\ \A c \in Owning : c.first # f
    <3>1. UNCHANGED vmm_vars
      BY <1>1, <2>2 DEF vmm_vars
    <3>2. IInv'
      BY <3>1, StutterKeeps DEF HInv
    <3>3. Owning' = Owning /\ BlockRuns' = BlockRuns
      BY <1>3, <2>2 DEF BlockRuns, RunOf
    <3> QED
      BY <3>1, <3>2, <3>3, <1>1 DEF HInv, ZeroIsNobodys, OwnersApart, HeapsOwn,
         vmm_vars
  <2> QED
    BY <1>2, <2>1, <2>2, FreedRunFacts
<1>5. runs' \subseteq runs
  BY <1>1
<1>6. HeapTypeOK'
  BY <1>1, <1>4 DEF HInv, HeapTypeOK, IInv
<1>7. ZeroIsNobodys'
  BY <1>3, <1>4, <1>5 DEF HInv, ZeroIsNobodys, Pmm!PagesIn
<1>8. HeapCall'
  BY <1>1 DEF HInv, HeapCall
<1>9. OwnersApart'
  BY <1>1, <1>3, <1>4 DEF HInv, OwnersApart, RunOf
<1>10. HeapsOwn'
  BY <1>1, <1>3, <1>4 DEF HInv, HeapsOwn, Single
<1>11. EveryRunIsOwned'
  BY <1>1, <1>3, <1>4, <1>5 DEF HInv, EveryRunIsOwned, Single, Stopped
<1>12. HeadersAreTrue'
  BY <1>1 DEF HInv, HeadersAreTrue
<1>13. BlocksAreMapped'
  <2>1. ASSUME NEW v \in Pages, mapped[v] # NotPresent
        PROVE  \E g \in Frames :
                 /\ v = HIGHER_HALF(g)
                 /\ mapped[v] = g
                 /\ \/ \E c \in blocks' : g = c.first
                    \/ g = f
    BY <1>1, <2>1 DEF HInv, BlocksAreMapped
  <2>2. \A c \in blocks' : mapped[HIGHER_HALF(c.first)] = c.first
    BY <1>1 DEF HInv, BlocksAreMapped
  <2> QED
    BY <1>1, <2>1, <2>2 DEF BlocksAreMapped, HIGHER_HALF
<1> QED
  BY <1>4, <1>6, <1>7, <1>8, <1>9, <1>10, <1>11, <1>12, <1>13 DEF HInv

LEMMA FreeReturnsKeeps ==
  ASSUME HInv, FreeReturns
  PROVE  HInv'
<1> USE DEF vmm_vars, pmm_vars, mmu_vars, tables, call, ghosts
<1>1. /\ heap_pc = "return" /\ heap_pc' = "idle" /\ head # 0
      /\ vmm_pc = "idle" /\ block' = 0
      /\ mapped[HIGHER_HALF(block)] = NotPresent
      /\ UNCHANGED <<vmm_vars, heap, head, size, header, blocks>>
  BY DEF HInv, HeapCall, FreeReturns
<1>2. IInv'
  BY <1>1, StutterKeeps DEF HInv
<1>3. /\ ~InHand /\ ~InHand' /\ Owning' = Owning /\ BlockRuns' = BlockRuns
      /\ ~NewTable /\ ~NewTable'
  BY <1>1 DEF InHand, Owning, BlockRuns, RunOf, NewTable
<1>4. Firsts' = Firsts /\ TablesHeld' = TablesHeld
  BY <1>1, <1>3 DEF Firsts, TablesHeld, TableFrames
<1>5. HeapTypeOK'
  BY <1>1, <1>2, ZeroFacts DEF HInv, HeapTypeOK, IInv
<1>6. ZeroIsNobodys'
  BY <1>1, <1>4 DEF HInv, ZeroIsNobodys, Pmm!PagesIn
<1>7. HeapCall'
  BY <1>1 DEF HInv, HeapCall
<1>8. OwnersApart'
  BY <1>1, <1>3, <1>4 DEF HInv, OwnersApart, RunOf
<1>9. HeapsOwn'
  BY <1>1, <1>4 DEF HInv, HeapsOwn, Single
<1>10. EveryRunIsOwned'
  BY <1>1, <1>3 DEF HInv, EveryRunIsOwned, Single
<1>11. HeadersAreTrue'
  BY <1>1 DEF HInv, HeadersAreTrue
<1>12. BlocksAreMapped'
  <2>1. ASSUME NEW v \in Pages, mapped[v] # NotPresent
        PROVE  \E g \in Frames :
                 /\ v = HIGHER_HALF(g)
                 /\ mapped[v] = g
                 /\ \E c \in blocks : g = c.first
    BY <1>1, <2>1 DEF HInv, BlocksAreMapped
  <2>2. \A c \in blocks : mapped[HIGHER_HALF(c.first)] = c.first
    BY DEF HInv, BlocksAreMapped
  <2> QED
    BY <1>1, <2>1, <2>2 DEF BlocksAreMapped, HIGHER_HALF
<1> QED
  BY <1>2, <1>5, <1>6, <1>7, <1>8, <1>9, <1>10, <1>11, <1>12 DEF HInv

LEMMA ProcessorWalksKeeps ==
  ASSUME HInv, ProcessorWalks
  PROVE  HInv'
<1> USE DEF vmm_vars, pmm_vars, mmu_vars, tables, call, ghosts
<1>1. PICK v \in Pages : Walk(v)
  BY DEF ProcessorWalks
<1>2. IInv'
  BY <1>1, WalkKeeps DEF HInv
<1>3. UNCHANGED <<pmm_vars, tables, call, ghosts, heap_vars>>
  BY <1>1 DEF Walk, ProcessorWalks
<1> USE DEF heap_vars
<1>4. InHand' = InHand /\ Owning' = Owning /\ HandRun' = HandRun
  BY <1>3 DEF InHand, Owning, HandRun
<1>5. Firsts' = Firsts /\ TablesHeld' = TablesHeld
  BY <1>3, <1>4 DEF Firsts, TablesHeld, TableFrames, NewTable
<1>6. HeapTypeOK'
  BY <1>2, <1>3 DEF HInv, HeapTypeOK, IInv
<1>7. ZeroIsNobodys'
  BY <1>3, <1>5 DEF HInv, ZeroIsNobodys, Pmm!PagesIn
<1>8. HeapCall'
  BY <1>3 DEF HInv, HeapCall
<1>9. OwnersApart'
  BY <1>3, <1>4, <1>5 DEF HInv, OwnersApart, RunOf, pt, pdindex
<1>10. HeapsOwn'
  BY <1>3, <1>5 DEF HInv, HeapsOwn, Single
<1>11. EveryRunIsOwned'
  BY <1>3, <1>4 DEF HInv, EveryRunIsOwned, BlockRuns, RunOf, Single, NewTable, pdindex
<1>12. HeadersAreTrue'
  BY <1>3 DEF HInv, HeadersAreTrue
<1>13. BlocksAreMapped'
  BY <1>3 DEF HInv, BlocksAreMapped
<1> QED
  BY <1>2, <1>6, <1>7, <1>8, <1>9, <1>10, <1>11, <1>12, <1>13 DEF HInv

-----------------------------------------------------------------------------
(***************************************************************************)
(* So do the steps of vmm.c.                                               *)
(***************************************************************************)
\* What VmmExecutes does to heap.c's part of the state.
HeapsPart ==
  /\ header' = [f \in Frames |->
                  IF memory'[f] # memory[f] THEN NoHeader ELSE header[f]]
  /\ UNCHANGED <<heap_pc, heap, head, block, size, blocks>>

LEMMA HeapsPartFacts ==
  ASSUME HeapsPart
  PROVE  /\ (InHand <=> InHand') /\ HandRun' = HandRun
         /\ Owning' = Owning /\ BlockRuns' = BlockRuns
         /\ Firsts' = Firsts
<1>1. (InHand <=> InHand') /\ Owning' = Owning /\ HandRun' = HandRun
  BY DEF HeapsPart, InHand, Owning, HandRun
<1> QED
  BY <1>1 DEF HeapsPart, BlockRuns, RunOf, Firsts

\* vmm.c writes into page tables only, and those have no owner in heap.c.
LEMMA HeadersSurvive ==
  ASSUME HInv, HeapsPart,
         \A f \in Frames : memory'[f] # memory[f] => f \in TablesHeld
  PROVE  HeadersAreTrue' /\ header' \in [Frames -> Header \union {NoHeader}]
<1>1. ASSUME NEW f \in Frames
      PROVE  header'[f] = header[f] \/ header'[f] = NoHeader
  BY DEF HeapsPart
<1>2. ASSUME NEW f \in Frames, f \notin TablesHeld
      PROVE  header'[f] = header[f]
  BY <1>2 DEF HeapsPart
<1>3. header' \in [Frames -> Header \union {NoHeader}]
  BY DEF HeapsPart, HInv, HeapTypeOK
<1>4. head \in Frames /\ (head # 0 => header'[head] # NoHeader)
  <2>1. head \in Frames
    BY FramesAssumption DEF HInv, HeapTypeOK
  <2>2. head # 0 => head \notin TablesHeld
    BY DEF HInv, HeapsOwn
  <2> QED
    BY <1>2, <2>1, <2>2 DEF HInv, HeadersAreTrue
<1>5. ASSUME NEW b \in blocks
      PROVE  b.first \in Frames /\ header'[b.first] = header[b.first]
  <2>1. b.first \in Frames
    BY DEF HInv, HeapTypeOK, Block
  <2>2. CASE b \in Owning
    BY <1>2, <2>1, <2>2 DEF HInv, OwnersApart, Firsts
  <2>3. CASE b \notin Owning
    BY <1>2, <2>1, <2>3 DEF Owning, HInv, HeadersAreTrue, ZeroIsNobodys
  <2> QED
    BY <2>1, <2>2, <2>3
<1>6. UNCHANGED <<head, blocks>>
  BY DEF HeapsPart
<1>7. \A f \in Frames :
        header'[f] # NoHeader => header'[f].next = head /\ header'[f].prev = head
  BY <1>1 DEF HInv, HeadersAreTrue
<1>8. \A b \in blocks :
        /\ b.count = PagesFor(b.size)
        /\ b.count = 0 => b.first = 0
        /\ header'[b.first] # NoHeader
        /\ PagesFor(header'[b.first].size) = b.count
        /\ b.count # 0 => header'[b.first].size = b.size
  BY <1>5 DEF HInv, HeadersAreTrue
<1> QED
  BY <1>3, <1>4, <1>6, <1>7, <1>8 DEF HeadersAreTrue

(***************************************************************************)
(* A step of vmm.c that takes and gives back no frame, and maps nothing.   *)
(***************************************************************************)
LEMMA QuietStepKeeps ==
  ASSUME HInv, IInv', HeapsPart, heap_pc \in {"write", "return"},
         vmm_pc \notin Stopped, vmm_pc # "detach", vmm_pc' # "detach",
         UNCHANGED <<pmm_vars, page_directory, mapped>>,
         \A f \in Frames : memory'[f] # memory[f] => f \in TablesHeld,
         NewTable /\ vmm_pc' \notin Stopped <=> NewTable', new_pt' = new_pt,
         HeapCall'
  PROVE  HInv'
<1> USE DEF pmm_vars
<1>1. /\ (InHand <=> InHand') /\ HandRun' = HandRun
      /\ Owning' = Owning /\ BlockRuns' = BlockRuns
      /\ Firsts' = Firsts
      /\ UNCHANGED <<heap_pc, heap, head, block, size, blocks>>
  BY HeapsPartFacts DEF HeapsPart
<1>2. TablesHeld' \subseteq TablesHeld
  BY DEF TablesHeld, TableFrames
<1>3. HeadersAreTrue' /\ header' \in [Frames -> Header \union {NoHeader}]
  BY HeadersSurvive
<1>4. HeapTypeOK'
  BY <1>1, <1>3 DEF HInv, HeapTypeOK, IInv
<1>5. ZeroIsNobodys'
  BY <1>2 DEF HInv, ZeroIsNobodys, Pmm!PagesIn
<1>6. OwnersApart'
  BY <1>1, <1>2 DEF HInv, OwnersApart, RunOf
<1>7. head # 0
  BY DEF HInv, HeapCall
<1>8. HeapsOwn'
  BY <1>1, <1>2, <1>7 DEF HInv, HeapsOwn, Single
<1>9. EveryRunIsOwned'
  <2> SUFFICES ASSUME vmm_pc' \notin Stopped, NEW r \in runs
               PROVE  \/ r \in {Single(heap), Single(head)}
                      \/ r \in BlockRuns
                      \/ InHand /\ r = HandRun
                      \/ NewTable' /\ r = Single(new_pt)
                      \/ \E s \in Slots : /\ page_directory[s] # NotPresent
                                          /\ r = Single(page_directory[s])
    BY <1>1 DEF EveryRunIsOwned, Single
  <2> QED
    BY DEF HInv, EveryRunIsOwned
<1>10. BlocksAreMapped'
  BY <1>1 DEF HInv, BlocksAreMapped
<1> QED
  BY <1>3, <1>4, <1>5, <1>6, <1>8, <1>9, <1>10 DEF HInv

\* heap.c waits for vmm.c in kmalloc, or in kfree.
LEMMA CallerOf ==
  ASSUME HInv, vmm_pc # "idle"
  PROVE  /\ heap_pc \in {"write", "return"} /\ head # 0
         /\ virt = HIGHER_HALF(block)
         /\ block \in Frames /\ virt \in Pages
<1>1. heap_pc \in {"write", "return"}
  BY DEF HInv, HeapCall
<1>2. block \in Frames
  BY DEF HInv, HeapTypeOK
<1> QED
  BY <1>1, <1>2, HigherHalfFacts DEF HInv, HeapCall

LEMMA MapPanicsOrFaultsKeeps ==
  ASSUME HInv, HeapsPart, MapPanics \/ MapFaults
  PROVE  HInv'
<1> USE DEF pmm_vars, mmu_vars, tables, call, ghosts
<1>1. IInv'
  BY MapPanicsKeeps, MapFaultsKeeps DEF HInv
<1>2. /\ vmm_pc \in {"alloc", "zero"} /\ vmm_pc' \in Stopped
      /\ UNCHANGED <<pmm_vars, tables, mmu_vars, virt, target, new_pt, ghosts>>
  BY DEF MapPanics, MapFaults, Stopped
<1>3. heap_pc = "write"
  BY <1>2 DEF HInv, HeapCall, InUnmapSteps
<1>4. HeapCall'
  BY <1>2, <1>3 DEF HInv, HeapCall, HeapsPart, InUnmapSteps, Stopped, HIGHER_HALF
<1>5. ~NewTable' /\ vmm_pc \notin Stopped
  BY <1>2 DEF NewTable, Stopped
<1> QED
  BY <1>1, <1>2, <1>3, <1>4, <1>5, QuietStepKeeps DEF Stopped

LEMMA HeapMapZeroesKeeps ==
  ASSUME HInv, HeapsPart, MapZeroes
  PROVE  HInv'
<1> USE DEF pmm_vars, mmu_vars, tables, call, ghosts
<1>1. IInv'
  BY MapZeroesKeeps DEF HInv
<1>2. /\ vmm_pc = "zero" /\ vmm_pc' = "publish"
      /\ UNCHANGED <<pmm_vars, page_directory, mmu_vars, virt, target, new_pt, ghosts>>
      /\ memory' = [memory EXCEPT ![new_pt] = [e \in Entries |-> NotPresent]]
  BY DEF MapZeroes
<1>3. heap_pc = "write"
  BY <1>2 DEF HInv, HeapCall, InUnmapSteps
<1>4. HeapCall'
  BY <1>2, <1>3 DEF HInv, HeapCall, HeapsPart, InUnmapSteps, Stopped, HIGHER_HALF
<1>5. NewTable /\ NewTable'
  BY <1>2 DEF NewTable
<1>6. ASSUME NEW f \in Frames, memory'[f] # memory[f]
      PROVE  f \in TablesHeld
  BY <1>2, <1>5, <1>6 DEF HInv, IInv, TypeOK, TablesHeld
<1> QED
  BY <1>1, <1>2, <1>3, <1>4, <1>5, <1>6, QuietStepKeeps DEF Stopped

LEMMA HeapFlushKeeps ==
  ASSUME HInv, HeapsPart, vmm_flush_tlb
  PROVE  HInv'
<1> USE DEF pmm_vars, mmu_vars, tables, call, ghosts
<1>1. IInv'
  BY VmmFlushTlbKeeps DEF HInv
<1>2. /\ vmm_pc = "flush" /\ vmm_pc' = "idle"
      /\ UNCHANGED <<pmm_vars, tables, new_pt, mapped>>
  BY DEF vmm_flush_tlb
<1>3. heap_pc \in {"write", "return"}
  BY <1>2 DEF HInv, HeapCall
<1>4. HeapCall'
  BY <1>2, <1>3 DEF HInv, HeapCall, HeapsPart, InUnmapSteps, Stopped, HIGHER_HALF
<1>5. ~NewTable /\ ~NewTable'
  BY <1>2 DEF NewTable
<1> QED
  BY <1>1, <1>2, <1>3, <1>4, <1>5, QuietStepKeeps DEF Stopped

\* vmm_map takes a frame that nobody owns.
LEMMA HeapMapAllocatesKeeps ==
  ASSUME HInv, HeapsPart, NEW frame \in Frames, MapAllocates(frame)
  PROVE  HInv'
<1> USE DEF pmm_vars, mmu_vars, tables, call, ghosts
<1>1. IInv'
  BY MapAllocatesKeeps DEF HInv
<1>2. /\ vmm_pc = "alloc" /\ vmm_pc' = "zero" /\ new_pt' = frame
      /\ frame \in free
      /\ free' = free \ {frame} /\ runs' = runs \union {Single(frame)}
      /\ UNCHANGED <<tables, mmu_vars, virt, target, ghosts>>
  BY SingleFacts DEF MapAllocates, Pmm!Alloc
<1>3. heap_pc = "write" /\ head # 0
  BY <1>2 DEF HInv, HeapCall, InUnmapSteps
<1>4. /\ (InHand <=> InHand') /\ HandRun' = HandRun
      /\ Owning' = Owning /\ BlockRuns' = BlockRuns
      /\ Firsts' = Firsts
      /\ UNCHANGED <<heap_pc, heap, head, block, size, blocks>>
  BY HeapsPartFacts DEF HeapsPart
<1>5. TablesHeld' = TablesHeld \union {frame} /\ NewTable' /\ ~NewTable
  BY <1>2 DEF TablesHeld, TableFrames, NewTable
<1>6. ASSUME NEW f \in Frames, Single(f) \in runs
      PROVE  f # frame
  <2>1. f \in Pmm!PagesIn(Single(f))
    BY SingleFacts
  <2> QED
    BY <1>2, <1>6, <2>1 DEF HInv, IInv, Pmm!Exclusive
<1>7. frame \notin Firsts
  <2>1. ASSUME NEW b \in Owning
        PROVE  b.first # frame
    <3>1. b.first \in Pmm!PagesIn(RunOf(b)) /\ RunOf(b) \in runs
      BY OwningFacts DEF HInv, OwnersApart
    <3> QED
      BY <1>2, <3>1 DEF HInv, IInv, Pmm!Exclusive
  <2>2. ASSUME InHand
        PROVE  block # frame
    <3>1. block \in Pmm!PagesIn(HandRun) /\ HandRun \in runs
      BY <2>2, HandFacts DEF HInv, OwnersApart
    <3> QED
      BY <1>2, <3>1 DEF HInv, IInv, Pmm!Exclusive
  <2> QED
    BY <2>1, <2>2 DEF Firsts
<1>8. frame \notin {heap, head}
  <2>1. heap \in Frames /\ head \in Frames
    BY FramesAssumption DEF HInv, HeapTypeOK
  <2> QED
    BY <1>3, <1>6, <2>1 DEF HInv, HeapsOwn
<1>9. HeadersAreTrue' /\ header' \in [Frames -> Header \union {NoHeader}]
  BY <1>2, HeadersSurvive
<1>10. HeapTypeOK'
  BY <1>1, <1>4, <1>9 DEF HInv, HeapTypeOK, IInv
<1>11. ZeroIsNobodys'
  <2>1. frame # 0 /\ Pmm!PagesIn(Single(frame)) = {frame}
    BY <1>2, SingleFacts DEF HInv, ZeroIsNobodys
  <2> QED
    BY <1>2, <1>5, <2>1 DEF HInv, ZeroIsNobodys, Pmm!PagesIn
<1>12. HeapCall'
  BY <1>2, <1>3 DEF HInv, HeapCall, HeapsPart, InUnmapSteps, Stopped, HIGHER_HALF
<1>13. OwnersApart'
  BY <1>2, <1>4, <1>5, <1>7 DEF HInv, OwnersApart, RunOf
<1>14. HeapsOwn'
  BY <1>2, <1>3, <1>4, <1>5, <1>8 DEF HInv, HeapsOwn, Single
<1>15. EveryRunIsOwned'
  BY <1>2, <1>4, <1>5 DEF HInv, EveryRunIsOwned, Single, Stopped
<1>16. BlocksAreMapped'
  BY <1>2, <1>4 DEF HInv, BlocksAreMapped
<1> QED
  BY <1>1, <1>9, <1>10, <1>11, <1>12, <1>13, <1>14, <1>15, <1>16 DEF HInv

LEMMA HeapMapPublishesKeeps ==
  ASSUME HInv, HeapsPart, MapPublishes
  PROVE  HInv'
<1> USE DEF pmm_vars, mmu_vars, tables, call, ghosts
<1>1. IInv'
  BY MapPublishesKeeps DEF HInv
<1>2. /\ vmm_pc = "publish" /\ vmm_pc' = "enter"
      /\ page_directory' = [page_directory EXCEPT ![pdindex] = new_pt]
      /\ UNCHANGED <<pmm_vars, memory, mmu_vars, virt, target, ghosts>>
  BY DEF MapPublishes
<1>3. heap_pc = "write" /\ head # 0
  BY <1>2 DEF HInv, HeapCall, InUnmapSteps
<1>4. /\ (InHand <=> InHand') /\ HandRun' = HandRun
      /\ Owning' = Owning /\ BlockRuns' = BlockRuns
      /\ Firsts' = Firsts
      /\ UNCHANGED <<heap_pc, heap, head, block, size, blocks>>
  BY HeapsPartFacts DEF HeapsPart
<1>5. /\ pdindex \in Slots /\ page_directory[pdindex] = NotPresent
      /\ new_pt # NotPresent /\ new_pt \in Frames
  <2>1. virt \in Pages /\ new_pt \in Frames /\ page_directory[pdindex] = NotPresent
    BY <1>2 DEF HInv, IInv, CallState, InMap
  <2> QED
    BY <2>1, PageFacts, TargetFacts DEF pdindex
<1>6. \A s \in Slots :
        page_directory'[s] = IF s = pdindex THEN new_pt ELSE page_directory[s]
  BY <1>2 DEF HInv, IInv, TypeOK
<1>7. TablesHeld' \subseteq TablesHeld /\ ~NewTable' /\ NewTable
  BY <1>2, <1>6 DEF TablesHeld, TableFrames, NewTable
<1>8. HeadersAreTrue' /\ header' \in [Frames -> Header \union {NoHeader}]
  BY <1>2, HeadersSurvive
<1>9. HeapTypeOK'
  BY <1>1, <1>4, <1>8 DEF HInv, HeapTypeOK, IInv
<1>10. ZeroIsNobodys'
  BY <1>2, <1>7 DEF HInv, ZeroIsNobodys, Pmm!PagesIn
<1>11. HeapCall'
  BY <1>2, <1>3 DEF HInv, HeapCall, HeapsPart, InUnmapSteps, Stopped, HIGHER_HALF
<1>12. OwnersApart'
  BY <1>2, <1>4, <1>7 DEF HInv, OwnersApart, RunOf
<1>13. HeapsOwn'
  BY <1>2, <1>3, <1>4, <1>7 DEF HInv, HeapsOwn, Single
<1>14. EveryRunIsOwned'
  <2> SUFFICES ASSUME NEW r \in runs
               PROVE  \/ r \in {Single(heap), Single(head)}
                      \/ r \in BlockRuns
                      \/ InHand /\ r = HandRun
                      \/ \E s \in Slots : /\ page_directory'[s] # NotPresent
                                          /\ r = Single(page_directory'[s])
    BY <1>2, <1>4 DEF EveryRunIsOwned, Single
  <2>1. CASE r = Single(new_pt)
    BY <1>5, <1>6, <2>1
  <2>2. ASSUME NEW s \in Slots, page_directory[s] # NotPresent
        PROVE  page_directory'[s] = page_directory[s]
    BY <1>5, <1>6, <2>2
  <2> QED
    BY <1>2, <2>1, <2>2 DEF HInv, EveryRunIsOwned, Stopped
<1>15. BlocksAreMapped'
  BY <1>2, <1>4 DEF HInv, BlocksAreMapped
<1> QED
  BY <1>1, <1>8, <1>9, <1>10, <1>11, <1>12, <1>13, <1>14, <1>15 DEF HInv

\* The table is freed, and then forgotten.
LEMMA HeapUnmapReleasesKeeps ==
  ASSUME HInv, HeapsPart, UnmapReleases
  PROVE  HInv'
<1> USE DEF pmm_vars, mmu_vars, tables, call, ghosts
<1>1. IInv'
  BY UnmapReleasesKeeps DEF HInv
<1>2. /\ pdindex \in Slots /\ pt # NotPresent /\ pt \in Frames
      /\ pt \in TablesHeld
      /\ \A s \in Slots : s # pdindex => page_directory[s] # pt
  <2>1. pdindex \in Slots /\ pt # NotPresent
    BY PageFacts DEF HInv, IInv, CallState, InUnmap, UnmapReleases, pdindex, pt
  <2> QED
    BY <2>1, TableFacts DEF HInv, TablesHeld, TableFrames, pt
<1>3. /\ vmm_pc = "release" /\ vmm_pc' = "detach"
      /\ free' = free \union {pt} /\ runs' = runs \ {Single(pt)}
      /\ UNCHANGED <<tables, mmu_vars, virt, target, new_pt, ghosts>>
  BY <1>2, SingleFacts DEF UnmapReleases, Pmm!Release
<1>4. heap_pc = "return" /\ head # 0
  BY <1>3 DEF HInv, HeapCall, InUnmapSteps
<1>5. /\ ~InHand /\ ~InHand'
      /\ Owning' = Owning /\ BlockRuns' = BlockRuns
      /\ Firsts' = Firsts
      /\ UNCHANGED <<heap_pc, heap, head, block, size, blocks>>
  BY <1>4, HeapsPartFacts DEF HeapsPart, InHand
<1>6. /\ TablesHeld' = TablesHeld /\ ~NewTable /\ ~NewTable'
      /\ pdindex' = pdindex /\ pt' = pt
  BY <1>3 DEF TablesHeld, TableFrames, NewTable, pdindex, pt
<1>7. HeadersAreTrue' /\ header' \in [Frames -> Header \union {NoHeader}]
  BY <1>3, HeadersSurvive
<1>8. HeapTypeOK'
  BY <1>1, <1>5, <1>7 DEF HInv, HeapTypeOK, IInv
<1>9. ZeroIsNobodys'
  BY <1>2, <1>3, <1>6 DEF HInv, ZeroIsNobodys, Pmm!PagesIn
<1>10. HeapCall'
  BY <1>3, <1>4 DEF HInv, HeapCall, HeapsPart, InUnmapSteps, Stopped, HIGHER_HALF
<1>11. ASSUME NEW f, f \notin TablesHeld, Single(f) \in runs
       PROVE  Single(f) \in runs'
  BY <1>2, <1>3, <1>11, SingleInjective
<1>12. ASSUME NEW b \in Owning
       PROVE  RunOf(b) \in runs'
  <2>1. RunOf(b) # Single(pt)
    BY <1>2 DEF HInv, OwnersApart, Firsts, RunOf, Single
  <2> QED
    BY <1>3, <2>1 DEF HInv, OwnersApart
<1>13. OwnersApart'
  BY <1>3, <1>5, <1>6, <1>12 DEF HInv, OwnersApart, RunOf
<1>14. HeapsOwn'
  BY <1>3, <1>4, <1>5, <1>6, <1>11 DEF HInv, HeapsOwn, Single
<1>15. EveryRunIsOwned'
  BY <1>2, <1>3, <1>5, <1>6 DEF HInv, EveryRunIsOwned, Single, Stopped, pt
<1>16. BlocksAreMapped'
  BY <1>3, <1>5 DEF HInv, BlocksAreMapped
<1> QED
  BY <1>1, <1>7, <1>8, <1>9, <1>10, <1>13, <1>14, <1>15, <1>16 DEF HInv

LEMMA HeapUnmapDetachesKeeps ==
  ASSUME HInv, HeapsPart, UnmapDetaches
  PROVE  HInv'
<1> USE DEF pmm_vars, mmu_vars, tables, call, ghosts
<1>1. IInv'
  BY UnmapDetachesKeeps DEF HInv
<1>2. /\ vmm_pc = "detach" /\ vmm_pc' = "flush"
      /\ page_directory' = [page_directory EXCEPT ![pdindex] = NotPresent]
      /\ UNCHANGED <<pmm_vars, memory, mmu_vars, virt, target, new_pt, ghosts>>
  BY DEF UnmapDetaches
<1>3. heap_pc = "return" /\ head # 0
  BY <1>2 DEF HInv, HeapCall, InUnmapSteps
<1>4. /\ ~InHand /\ ~InHand'
      /\ Owning' = Owning /\ BlockRuns' = BlockRuns
      /\ Firsts' = Firsts
      /\ UNCHANGED <<heap_pc, heap, head, block, size, blocks>>
  BY <1>3, HeapsPartFacts DEF HeapsPart, InHand
<1>5. \A s \in Slots :
        page_directory'[s] = IF s = pdindex THEN NotPresent ELSE page_directory[s]
  BY <1>2 DEF HInv, IInv, TypeOK
<1>6. TablesHeld' \subseteq TablesHeld /\ ~NewTable' /\ ~NewTable
  BY <1>2, <1>5 DEF TablesHeld, TableFrames, NewTable
<1>7. HeadersAreTrue' /\ header' \in [Frames -> Header \union {NoHeader}]
  BY <1>2, HeadersSurvive
<1>8. HeapTypeOK'
  BY <1>1, <1>4, <1>7 DEF HInv, HeapTypeOK, IInv
<1>9. ZeroIsNobodys'
  BY <1>2, <1>6 DEF HInv, ZeroIsNobodys, Pmm!PagesIn
<1>10. HeapCall'
  BY <1>2, <1>3 DEF HInv, HeapCall, HeapsPart, InUnmapSteps, Stopped, HIGHER_HALF
<1>11. OwnersApart'
  BY <1>2, <1>4, <1>6 DEF HInv, OwnersApart, RunOf
<1>12. HeapsOwn'
  BY <1>2, <1>3, <1>4, <1>6 DEF HInv, HeapsOwn, Single
<1>13. EveryRunIsOwned'
  BY <1>2, <1>4, <1>5, <1>6 DEF HInv, EveryRunIsOwned, Single, Stopped
<1>14. BlocksAreMapped'
  BY <1>2, <1>4 DEF HInv, BlocksAreMapped
<1> QED
  BY <1>1, <1>7, <1>8, <1>9, <1>10, <1>11, <1>12, <1>13, <1>14 DEF HInv

\* The entry of the page is written: the block is mapped, or no longer.
LEMMA HeapMapEntersKeeps ==
  ASSUME HInv, HeapsPart, MapEnters
  PROVE  HInv'
<1> USE DEF pmm_vars, mmu_vars, tables, call, ghosts
<1>1. IInv'
  BY MapEntersKeeps DEF HInv
<1>2. /\ vmm_pc = "enter" /\ vmm_pc' = "flush"
      /\ UNCHANGED <<pmm_vars, page_directory, mmu_vars, virt, target, new_pt, was>>
      /\ memory' = [memory EXCEPT ![pt][ptindex] = target]
      /\ mapped' = [mapped EXCEPT ![virt] = target]
  BY DEF MapEnters, SetEntry, SetMapped
<1>3. heap_pc = "write" /\ head # 0
  BY <1>2 DEF HInv, HeapCall, InUnmapSteps
<1>4. /\ virt = HIGHER_HALF(block) /\ target = block
      /\ block \in Frames /\ virt \in Pages /\ target # NotPresent
  BY <1>2, <1>3, CallerOf, TargetFacts DEF HInv, HeapCall
<1>5. pt \in TablesHeld
  BY <1>2, PageFacts DEF HInv, IInv, CallState, InUnmap, TablesHeld, TableFrames,
     pdindex, pt
<1>6. ASSUME NEW f \in Frames, memory'[f] # memory[f]
      PROVE  f \in TablesHeld
  BY <1>2, <1>5, <1>6 DEF HInv, IInv, TypeOK
<1>7. /\ (InHand <=> InHand') /\ HandRun' = HandRun
      /\ Owning' = Owning /\ BlockRuns' = BlockRuns
      /\ Firsts' = Firsts
      /\ UNCHANGED <<heap_pc, heap, head, block, size, blocks>>
  BY HeapsPartFacts DEF HeapsPart
<1>8. TablesHeld' = TablesHeld /\ ~NewTable /\ ~NewTable'
  BY <1>2 DEF TablesHeld, TableFrames, NewTable
<1>9. HeadersAreTrue' /\ header' \in [Frames -> Header \union {NoHeader}]
  BY <1>6, HeadersSurvive
<1>10. \A v \in Pages : mapped'[v] = IF v = virt THEN block ELSE mapped[v]
  BY <1>2, <1>4 DEF HInv, IInv, TypeOK
<1>11. HeapTypeOK'
  BY <1>1, <1>7, <1>9 DEF HInv, HeapTypeOK, IInv
<1>12. ZeroIsNobodys'
  BY <1>2, <1>8 DEF HInv, ZeroIsNobodys, Pmm!PagesIn
<1>13. HeapCall'
  <2>1. mapped'[HIGHER_HALF(block)] = block
    BY <1>4, <1>10
  <2> QED
    BY <1>2, <1>3, <1>4, <1>7, <2>1 DEF HInv, HeapCall, InUnmapSteps, HIGHER_HALF
<1>14. OwnersApart'
  BY <1>2, <1>7, <1>8 DEF HInv, OwnersApart, RunOf
<1>15. HeapsOwn'
  BY <1>2, <1>3, <1>7, <1>8 DEF HInv, HeapsOwn, Single
<1>16. EveryRunIsOwned'
  BY <1>2, <1>7, <1>8 DEF HInv, EveryRunIsOwned, Single, Stopped
<1>17. BlocksAreMapped'
  <2>1. ASSUME NEW b \in blocks
        PROVE  mapped'[HIGHER_HALF(b.first)] = b.first
    <3>1. b.first \in Frames
      BY DEF HInv, HeapTypeOK, Block
    <3>2. HIGHER_HALF(b.first) \in Pages
      BY <3>1, HigherHalfFacts
    <3>3. mapped[HIGHER_HALF(b.first)] = b.first
      BY DEF HInv, BlocksAreMapped
    <3>4. HIGHER_HALF(b.first) = virt => b.first = block
      BY <1>4, <3>1, HigherHalfInjective
    <3> QED
      BY <1>10, <3>2, <3>3, <3>4
  <2>2. ASSUME NEW v \in Pages, mapped'[v] # NotPresent
        PROVE  \E f \in Frames :
                 /\ v = HIGHER_HALF(f)
                 /\ mapped'[v] = f
                 /\ \/ \E b \in blocks : f = b.first
                    \/ f = block
    <3>1. CASE v = virt
      BY <1>4, <1>10, <3>1
    <3>2. CASE v # virt
      BY <1>10, <2>2, <3>2 DEF HInv, BlocksAreMapped
    <3> QED
      BY <3>1, <3>2
  <2> QED
    BY <1>3, <1>7, <2>1, <2>2 DEF BlocksAreMapped, HIGHER_HALF
<1> QED
  BY <1>1, <1>9, <1>11, <1>12, <1>13, <1>14, <1>15, <1>16, <1>17 DEF HInv

LEMMA HeapUnmapClearsKeeps ==
  ASSUME HInv, HeapsPart, UnmapClears
  PROVE  HInv'
<1> USE DEF pmm_vars, mmu_vars, tables, call, ghosts
<1>1. IInv'
  BY UnmapClearsKeeps DEF HInv
<1>2. /\ vmm_pc = "clear" /\ vmm_pc' \in {"release", "flush"}
      /\ UNCHANGED <<pmm_vars, page_directory, mmu_vars, virt, target, new_pt, was>>
      /\ memory' = [memory EXCEPT ![pt][ptindex] = NotPresent]
      /\ mapped' = [mapped EXCEPT ![virt] = NotPresent]
  BY DEF UnmapClears, SetEntry, SetMapped
<1>3. heap_pc = "return" /\ head # 0
  BY <1>2 DEF HInv, HeapCall, InUnmapSteps
<1>4. /\ virt = HIGHER_HALF(block)
      /\ block \in Frames /\ virt \in Pages
      /\ \A b \in blocks : b.first # block
  BY <1>2, <1>3, CallerOf DEF HInv, HeapCall
<1>5. pt \in TablesHeld
  BY <1>2, PageFacts DEF HInv, IInv, CallState, InUnmap, TablesHeld, TableFrames,
     pdindex, pt
<1>6. ASSUME NEW f \in Frames, memory'[f] # memory[f]
      PROVE  f \in TablesHeld
  BY <1>2, <1>5, <1>6 DEF HInv, IInv, TypeOK
<1>7. /\ ~InHand /\ ~InHand'
      /\ Owning' = Owning /\ BlockRuns' = BlockRuns
      /\ Firsts' = Firsts
      /\ UNCHANGED <<heap_pc, heap, head, block, size, blocks>>
  BY <1>3, HeapsPartFacts DEF HeapsPart, InHand
<1>8. TablesHeld' = TablesHeld /\ ~NewTable /\ ~NewTable'
  BY <1>2 DEF TablesHeld, TableFrames, NewTable
<1>9. HeadersAreTrue' /\ header' \in [Frames -> Header \union {NoHeader}]
  BY <1>6, HeadersSurvive
<1>10. \A v \in Pages : mapped'[v] = IF v = virt THEN NotPresent ELSE mapped[v]
  BY <1>2, <1>4 DEF HInv, IInv, TypeOK
<1>11. HeapTypeOK'
  BY <1>1, <1>7, <1>9 DEF HInv, HeapTypeOK, IInv
<1>12. ZeroIsNobodys'
  BY <1>2, <1>8 DEF HInv, ZeroIsNobodys, Pmm!PagesIn
<1>13. HeapCall'
  <2>1. mapped'[HIGHER_HALF(block)] = NotPresent
    BY <1>4, <1>10
  <2> QED
    BY <1>2, <1>3, <1>4, <1>7, <2>1 DEF HInv, HeapCall, InUnmapSteps, HIGHER_HALF
<1>14. OwnersApart'
  BY <1>2, <1>7, <1>8 DEF HInv, OwnersApart, RunOf
<1>15. HeapsOwn'
  BY <1>2, <1>3, <1>7, <1>8 DEF HInv, HeapsOwn, Single
<1>16. EveryRunIsOwned'
  BY <1>2, <1>7, <1>8 DEF HInv, EveryRunIsOwned, Single, Stopped
<1>17. BlocksAreMapped'
  <2>1. ASSUME NEW b \in blocks
        PROVE  mapped'[HIGHER_HALF(b.first)] = b.first
    <3>1. b.first \in Frames
      BY DEF HInv, HeapTypeOK, Block
    <3>2. HIGHER_HALF(b.first) \in Pages
      BY <3>1, HigherHalfFacts
    <3>3. HIGHER_HALF(b.first) # virt
      BY <1>4, <3>1, HigherHalfInjective
    <3> QED
      BY <1>10, <3>2, <3>3 DEF HInv, BlocksAreMapped
  <2>2. ASSUME NEW v \in Pages, mapped'[v] # NotPresent
        PROVE  mapped[v] # NotPresent /\ mapped'[v] = mapped[v]
    BY <1>10, <2>2
  <2>3. \A v \in Pages :
          mapped'[v] # NotPresent =>
            \E f \in Frames :
              /\ v = HIGHER_HALF(f)
              /\ mapped'[v] = f
              /\ \/ \E b \in blocks : f = b.first
                 \/ f = block
    BY <2>2 DEF HInv, BlocksAreMapped
  <2> QED
    BY <1>3, <1>7, <2>1, <2>3 DEF BlocksAreMapped, HIGHER_HALF
<1> QED
  BY <1>1, <1>9, <1>11, <1>12, <1>13, <1>14, <1>15, <1>16, <1>17 DEF HInv

LEMMA VmmExecutesKeeps ==
  ASSUME HInv, VmmExecutes
  PROVE  HInv'
<1>1. HeapsPart
  BY DEF VmmExecutes, HeapsPart
<1>2. ASSUME NEW frame \in Frames, MapAllocates(frame)
      PROVE  HInv'
  BY <1>1, <1>2, HeapMapAllocatesKeeps
<1> QED
  BY <1>1, <1>2, MapPanicsOrFaultsKeeps, HeapMapZeroesKeeps,
     HeapMapPublishesKeeps, HeapMapEntersKeeps, HeapUnmapClearsKeeps,
     HeapUnmapReleasesKeeps, HeapUnmapDetachesKeeps, HeapFlushKeeps
  DEF VmmExecutes, CallStep

-----------------------------------------------------------------------------
LEMMA HeapInitEstablishes ==
  ASSUME HeapInit
  PROVE  HInv
<1> USE DEF HeapInit
<1>1. TypeOK
  BY EntriesAssumption DEF TypeOK, Pmm!TypeOK
<1>2. Pmm!Exclusive /\ RunsExist
  BY DEF Pmm!Exclusive, RunsExist
<1>3. TablesSayWhatIsMapped /\ TablesAreOwned
  BY PageFacts DEF TablesSayWhatIsMapped, TablesAreOwned
<1>4. CacheAgrees /\ TlbAgrees /\ CallState /\ TablesInUse
  BY DEF CacheAgrees, TlbAgrees, CallState, InMap, InUnmap, TablesInUse
<1>5. IInv
  BY <1>1, <1>2, <1>3, <1>4 DEF IInv
<1>6. HeapTypeOK
  BY <1>1, ZeroFacts DEF HeapTypeOK
<1>7. Owning = {} /\ ~InHand /\ Firsts = {} /\ TablesHeld = {}
  BY DEF Owning, InHand, Firsts, TablesHeld, TableFrames, NewTable
<1>8. ZeroIsNobodys
  BY <1>7 DEF ZeroIsNobodys
<1>9. HeapCall
  BY DEF HeapCall
<1>10. OwnersApart /\ HeapsOwn
  BY <1>7 DEF OwnersApart, HeapsOwn
<1>11. EveryRunIsOwned /\ HeadersAreTrue /\ BlocksAreMapped
  BY DEF EveryRunIsOwned, HeadersAreTrue, BlocksAreMapped
<1> QED
  BY <1>5, <1>6, <1>8, <1>9, <1>10, <1>11 DEF HInv

LEMMA HeapNextKeeps ==
  ASSUME HInv, [HeapNext]_vars
  PROVE  HInv'
<1>1. CASE UNCHANGED vars
  BY <1>1, StutteringKeeps
<1>2. ASSUME NEW h \in Frames, NEW first \in Frames, heap_create(h, first)
      PROVE  HInv'
  BY <1>2, CreateKeeps
<1>3. CASE CreateStops \/ AllocPanics \/ FreeStrays
             \/ \E f \in Frames : FreeFaults(f)
  BY <1>3, StoppingKeeps
     DEF CreateStops, AllocPanics, FreeStrays, FreeFaults, HeapStopped, Stopped
<1>4. ASSUME NEW n \in Sizes, NEW first \in Frames, heap_alloc(n, first)
      PROVE  HInv'
  BY <1>4, HeapAllocKeeps
<1>5. CASE FreeRefuses
  BY <1>5, StutteringKeeps DEF FreeRefuses
<1>6. ASSUME NEW f \in Frames, heap_free(f)
      PROVE  HInv'
  BY <1>6, HeapFreeKeeps
<1>7. CASE HeapStep
  BY <1>7, VmmExecutesKeeps, AllocMapsKeeps, AllocReturnsKeeps,
     FreeUnmapsKeeps, FreeReturnsKeeps DEF HeapStep
<1>8. CASE ProcessorWalks
  BY <1>8, ProcessorWalksKeeps
<1> QED
  BY <1>1, <1>2, <1>3, <1>4, <1>5, <1>6, <1>7, <1>8 DEF HeapNext

LEMMA HInvHolds == HeapSpec => []HInv
<1>1. HeapInit => HInv
  BY HeapInitEstablishes
<1>2. HInv /\ [HeapNext]_vars => HInv'
  BY HeapNextKeeps
<1> QED
  BY <1>1, <1>2, PTL DEF HeapSpec

-----------------------------------------------------------------------------
(***************************************************************************)
(* The state of heap.c, and of vmm.c below it, is well typed.              *)
(***************************************************************************)
THEOREM HeapTypeCorrect == HeapSpec => []HeapTypeOK
<1>1. HInv => HeapTypeOK
  BY DEF HInv
<1> QED
  BY <1>1, HInvHolds, PTL

(***************************************************************************)
(* Between calls of kmalloc and kfree, every run that pmm.c has handed out *)
(* is the heap's own, a block's, or a page table's that is in use.         *)
(***************************************************************************)
THEOREM NothingIsEverLost == HeapSpec => []NothingIsLost
<1>1. ASSUME HInv, AtRest
      PROVE  runs = {Single(heap), Single(head)} \union BlockRuns \union TableRuns
  <2>1. /\ heap_pc = "idle" /\ vmm_pc = "idle" /\ head # 0
        /\ ~InHand /\ ~NewTable
    BY <1>1 DEF AtRest, HInv, HeapCall, InHand, NewTable
  <2>2. ASSUME NEW r \in runs
        PROVE  r \in {Single(heap), Single(head)} \union BlockRuns \union TableRuns
    BY <1>1, <2>1 DEF HInv, EveryRunIsOwned, Stopped, TableRuns, TableFrames
  <2>3. {Single(heap), Single(head)} \subseteq runs /\ BlockRuns \subseteq runs
    BY <1>1, <2>1 DEF HInv, HeapsOwn, OwnersApart, BlockRuns
  <2>4. TableRuns \subseteq runs
    BY <1>1, <2>1, TablesAreNotFree DEF HInv, TableRuns, TableFrames
  <2> QED
    BY <2>2, <2>3, <2>4
<1>2. HInv => NothingIsLost
  BY <1>1 DEF NothingIsLost
<1> QED
  BY <1>2, HInvHolds, PTL

\* A frame that is free, or has a run to itself, is in no block's run but as
\* its first page.
LEMMA RunsOfOwners ==
  ASSUME HInv, NEW b \in Owning,
         NEW f \in Frames, f # b.first, f \in free \/ Single(f) \in runs
  PROVE  f \notin Pmm!PagesIn(RunOf(b))
<1>1. RunOf(b) \in runs
  BY DEF HInv, OwnersApart
<1>2. CASE f \in free
  BY <1>1, <1>2 DEF HInv, IInv, Pmm!Exclusive
<1>3. CASE Single(f) \in runs
  <2>1. Single(f) # RunOf(b)
    BY DEF Single, RunOf
  <2>2. Pmm!PagesIn(Single(f)) = {f}
    BY SingleFacts
  <2> QED
    BY <1>1, <1>3, <2>1, <2>2 DEF HInv, IInv, Pmm!Exclusive
<1> QED
  BY <1>2, <1>3

(***************************************************************************)
(* At every instant, also within kmalloc and kfree, the pages of a block   *)
(* are in no other block, no page table and no page of the heap's own.     *)
(***************************************************************************)
THEOREM BlocksAreAlwaysApart == HeapSpec => []BlocksAreApart
<1>1. ASSUME HInv, NEW b \in Owning
      PROVE  /\ Pmm!PagesIn(RunOf(b)) \intersect
                  (free \union TableFrames \union {0, heap, head}) = {}
             /\ \A c \in Owning \ {b} :
                  Pmm!PagesIn(RunOf(b)) \intersect Pmm!PagesIn(RunOf(c)) = {}
  <2>1. RunOf(b) \in runs /\ b.first \in Firsts
    BY <1>1 DEF HInv, OwnersApart, Firsts
  <2>2. ASSUME NEW f \in free
        PROVE  f \notin Pmm!PagesIn(RunOf(b))
    BY <1>1, <2>1 DEF HInv, IInv, Pmm!Exclusive
  <2>3. ASSUME NEW f \in TableFrames
        PROVE  f \notin Pmm!PagesIn(RunOf(b))
    <3>1. PICK s \in Slots : page_directory[s] = f /\ f # NotPresent
      BY DEF TableFrames
    <3>2. f \in Frames /\ f # b.first
      BY <1>1, <2>1, <3>1, TableFacts DEF HInv, OwnersApart, TablesHeld
    <3>3. f \in free \/ Single(f) \in runs
      BY <1>1, <3>1, TablesAreNotFree DEF HInv, OwnersApart, pt
    <3> QED
      BY <1>1, <3>2, <3>3, RunsOfOwners
  <2>4. 0 \notin Pmm!PagesIn(RunOf(b))
    BY <1>1, <2>1 DEF HInv, ZeroIsNobodys
  <2>5. heap \notin Pmm!PagesIn(RunOf(b)) /\ head \notin Pmm!PagesIn(RunOf(b))
    <3>1. head # 0
      BY <1>1 DEF HInv, HeapsOwn, Owning
    <3>2. heap \in Frames /\ head \in Frames
      BY <1>1, FramesAssumption DEF HInv, HeapTypeOK
    <3>3. /\ Single(heap) \in runs /\ Single(head) \in runs
          /\ heap # b.first /\ head # b.first
      BY <1>1, <2>1, <3>1 DEF HInv, HeapsOwn
    <3> QED
      BY <1>1, <3>2, <3>3, RunsOfOwners
  <2>6. ASSUME NEW c \in Owning \ {b}
        PROVE  Pmm!PagesIn(RunOf(b)) \intersect Pmm!PagesIn(RunOf(c)) = {}
    <3>1. c.first # b.first /\ RunOf(c) \in runs
      BY <1>1 DEF HInv, OwnersApart
    <3>2. RunOf(c) # RunOf(b)
      BY <3>1 DEF RunOf
    <3> QED
      BY <1>1, <2>1, <3>1, <3>2 DEF HInv, IInv, Pmm!Exclusive
  <2> QED
    BY <2>2, <2>3, <2>4, <2>5, <2>6
<1>2. HInv => BlocksAreApart
  BY <1>1 DEF BlocksAreApart
<1> QED
  BY <1>2, HInvHolds, PTL

(***************************************************************************)
(* The header of a block is where its pointer says, and tells heap_free    *)
(* the block's size, until the block is freed.                             *)
(***************************************************************************)
THEOREM BlocksAlwaysStayUsable == HeapSpec => []BlocksStayUsable
<1>1. ASSUME HInv, AtRest, NEW b \in Owning
      PROVE  /\ Sees(HIGHER_HALF(b.first)) = {b.first}
             /\ header[b.first] # NoHeader
             /\ header[b.first].size = b.size
  <2>1. /\ b \in blocks /\ b.count # 0 /\ b.first \in Frames
        /\ b.first # NotPresent
    BY <1>1, OwningFacts, TargetFacts DEF HInv
  <2>2. HIGHER_HALF(b.first) \in Pages
    BY <2>1, HigherHalfFacts
  <2>3. mapped[HIGHER_HALF(b.first)] = b.first
    BY <1>1, <2>1 DEF HInv, BlocksAreMapped
  <2>4. Sees(HIGHER_HALF(b.first)) \subseteq {b.first}
    BY <1>1, <2>2, <2>3, IInvIsEnough DEF HInv, NothingStale, AtRest
  <2>5. b.first \in Sees(HIGHER_HALF(b.first))
    <3> DEFINE v == HIGHER_HALF(b.first)
    <3>1. /\ page_directory[v[1]] # NotPresent
          /\ memory[page_directory[v[1]]][v[2]] = b.first
      BY <1>1, <2>1, <2>2, <2>3, Translation DEF HInv
    <3>2. page_directory[v[1]] \in TablesSeen(v[1])
      BY <3>1 DEF TablesSeen
    <3> QED
      BY <2>1, <3>1, <3>2 DEF Sees
  <2> QED
    BY <1>1, <2>1, <2>4, <2>5 DEF HInv, HeadersAreTrue
<1>2. HInv => BlocksStayUsable
  BY <1>1 DEF BlocksStayUsable
<1> QED
  BY <1>2, HInvHolds, PTL

(***************************************************************************)
(* Where frames become free.                                               *)
(***************************************************************************)
LEMMA FreeTakesTheLive ==
  ASSUME HInv, NEW f \in Frames, heap_free(f)
  PROVE  FreesOneBlock
<1>1. /\ Sees(HIGHER_HALF(f)) = {f} /\ heap_pc = "idle" /\ block' = f
      /\ free' = free \union Pmm!PagesIn(FreedRun(f))
  BY DEF heap_free, FreedRun
<1>2. PICK b \in blocks : b.first = f
  BY <1>1, SeenIsHeld
<1>3. PagesFor(header[b.first].size) = b.count
  BY DEF HInv, HeadersAreTrue
<1>4. FreedRun(f) = RunOf(b)
  BY <1>2, <1>3 DEF FreedRun, PagesOf, RunOf
<1> QED
  BY <1>1, <1>2, <1>4 DEF FreesOneBlock

LEMMA OthersFreeTables ==
  ASSUME HInv, [HeapNext]_vars, \A f \in Frames : ~heap_free(f)
  PROVE  /\ ~(heap_pc = "idle" /\ heap_pc' = "unmap")
         /\ free' \ free \subseteq TableFrames
<1> USE DEF vars, heap_vars, vmm_vars, pmm_vars, mmu_vars, tables, call, ghosts
<1>1. CASE UNCHANGED vars \/ FreeRefuses
  BY <1>1 DEF FreeRefuses
<1>2. CASE CreateStops \/ AllocPanics \/ FreeStrays
             \/ \E f \in Frames : FreeFaults(f)
  BY <1>2 DEF CreateStops, AllocPanics, FreeStrays, FreeFaults
<1>3. CASE \E h, first \in Frames : heap_create(h, first)
  BY <1>3 DEF heap_create
<1>4. CASE \E n \in Sizes : \E first \in Frames : heap_alloc(n, first)
  BY <1>4 DEF heap_alloc, Pmm!Alloc
<1>5. CASE AllocMaps \/ AllocReturns \/ FreeUnmaps \/ FreeReturns
  BY <1>5 DEF AllocMaps, AllocReturns, FreeUnmaps, FreeReturns, vmm_map, vmm_unmap
<1>6. CASE ProcessorWalks
  BY <1>6 DEF ProcessorWalks, Walk
<1>7. CASE VmmExecutes
  <2>1. heap_pc' = heap_pc /\ CallStep
    BY <1>7 DEF VmmExecutes
  <2>2. CASE \E frame \in Frames : MapAllocates(frame)
    BY <2>1, <2>2 DEF MapAllocates, Pmm!Alloc
  <2>3. CASE UnmapReleases
    <3>1. vmm_pc = "release" /\ free' = free \union Pmm!PagesIn(Single(pt))
      BY <2>3 DEF UnmapReleases, Pmm!Release
    <3>2. pdindex \in Slots /\ pt # NotPresent /\ pt \in Frames
      BY <3>1, PageFacts, TableFacts DEF HInv, IInv, CallState, InUnmap, pdindex, pt
    <3> QED
      BY <2>1, <3>1, <3>2, SingleFacts DEF TableFrames, pt
  <2> QED
    BY <2>1, <2>2, <2>3 DEF CallStep, MapPanics, MapFaults, MapZeroes,
       MapPublishes, MapEnters, UnmapClears, UnmapDetaches, vmm_flush_tlb
<1> QED
  BY <1>1, <1>2, <1>3, <1>4, <1>5, <1>6, <1>7 DEF HeapNext, HeapStep

(***************************************************************************)
(* In whatever state the kernel is, a kfree that gets past its check of    *)
(* the magic gives back the pages of one live block, as many as it has,    *)
(* and no other step gives back a page but that of a page table. So a      *)
(* pointer to a freed frame that no block begins at gives nothing away;    *)
(* one to a frame with a new owner frees the new owner's block             *)
(* (heap.c:37-51).                                                         *)
(***************************************************************************)
THEOREM NothingElseIsFreed == HeapSpec => OnlyTheLiveIsFreed
<1>1. ASSUME HInv, [HeapNext]_vars
      PROVE  IF heap_pc = "idle" /\ heap_pc' = "unmap"
             THEN FreesOneBlock
             ELSE free' \ free \subseteq TableFrames
  <2>1. CASE \E f \in Frames : heap_free(f)
    <3>1. heap_pc = "idle" /\ heap_pc' = "unmap"
      BY <2>1 DEF heap_free
    <3> QED
      BY <1>1, <2>1, <3>1, FreeTakesTheLive
  <2>2. CASE \A f \in Frames : ~heap_free(f)
    BY <1>1, <2>2, OthersFreeTables
  <2> QED
    BY <2>1, <2>2
<1>2. HInv /\ [HeapNext]_vars =>
        [ IF heap_pc = "idle" /\ heap_pc' = "unmap"
          THEN FreesOneBlock
          ELSE free' \ free \subseteq TableFrames ]_vars
  BY <1>1
<1> QED
  BY <1>2, HInvHolds, PTL DEF HeapSpec, OnlyTheLiveIsFreed

(***************************************************************************)
(* What vmm.c and pmm.c promise any caller they keep for heap.c: the page  *)
(* tables say what is mapped, nothing the processor remembers is stale     *)
(* once a call has returned, and no frame has two owners.                  *)
(***************************************************************************)
THEOREM PromisesHoldForTheHeap ==
  HeapSpec => [](TablesSayWhatIsMapped /\ NothingStale /\ Pmm!Exclusive)
<1>1. HInv => TablesSayWhatIsMapped /\ NothingStale /\ Pmm!Exclusive
  BY IInvIsEnough DEF HInv, IInv
<1> QED
  BY <1>1, HInvHolds, PTL
=============================================================================
