---------------------------- MODULE KernelHeap ----------------------------
(***************************************************************************)
(* The kernel's heap, kernel/mm/heap.c with kernel/lib/alloc.c, on top of  *)
(* the virtual memory manager (VMM) and the page allocator (PageAllocator, *)
(* which PMM implements).                                                  *)
(*                                                                         *)
(* A block is a run of page frames, mapped at HIGHER_HALF of its physical  *)
(* address, that begins with its header.  A pointer to a block is the      *)
(* number of its first frame; 0 stands for physical address 0, which is    *)
(* what pmm_alloc returns for a run of no pages.                           *)
(***************************************************************************)
EXTENDS VMM

CONSTANTS
  PAGE_SIZE,   \* bytes per page
  HEADER,      \* sizeof(struct heap_block)
  WORD,        \* 2^32: the number of values of a uint32_t
  Sizes,       \* the arguments of kmalloc
  EntryCount,  \* the number of entries of a page table
  NoHeader     \* memory whose magic is not HEAP_MAGIC

VARIABLES
  heap_pc,   \* what the processor is executing of heap.c
  heap,      \* kernel_heap: the frame of the struct heap
  head,      \* heap->head: the frame of its first block
  block,     \* the local of heap_alloc and heap_free
  size,      \* the argument n of heap_alloc
  header,    \* by frame, the struct heap_block at its start
  blocks     \* ghost: the blocks callers hold

heap_vars == <<heap_pc, heap, head, block, size, header, blocks>>
vars      == <<vmm_vars, heap_vars>>

\* The page at HIGHER_HALF of a frame: 0xC0000000 is a multiple of what one
\* slot of the directory covers.
HIGHER_HALF(frame) == <<frame \div EntryCount, frame % EntryCount>>

\* DIV_CEILING(sizeof(struct heap_block) + n, PAGE_SIZE), in 32 bits.
PagesFor(n) == ((HEADER + n + (PAGE_SIZE - 1)) % WORD) \div PAGE_SIZE

Header == [next : Frames, prev : Frames, size : Sizes \union {0}]

ASSUME HeapAssumption ==
  /\ PAGE_SIZE \in Nat \ {0}
  /\ HEADER \in 1 .. PAGE_SIZE
  /\ WORD \in Nat /\ WORD > HEADER + PAGE_SIZE
  /\ Sizes \subseteq 0 .. (WORD - 1)
  /\ \A n \in Sizes : PagesFor(n) \in RunLengths \union {0}
  /\ EntryCount \in Nat \ {0}
  /\ Entries = 0 .. (EntryCount - 1)
  /\ Targets = Frames
  /\ \A f \in Frames : f \div EntryCount \in Slots
  /\ 0 \in Identity
  /\ NoHeader \notin Header

Block == [first : Frames, count : RunLengths \union {0}, size : Sizes]

RunOf(b) == [first |-> b.first, count |-> b.count]

\* Where heap.c never returns from: it, or vmm.c, has stopped, or it is about
\* to use a caller's data as a header.
HeapStopped == Stopped \union {"wild"}

HeapTypeOK ==
  /\ TypeOK
  /\ heap_pc \in {"off", "idle", "map", "write", "unmap", "return"}
                   \union HeapStopped
  /\ heap \in Identity
  /\ head \in Identity
  /\ block \in Frames
  /\ size \in Sizes \union {0}
  /\ header \in [Frames -> Header \union {NoHeader}]
  /\ blocks \subseteq Block

HeapInit ==
  /\ free = Frames \ {0}
  /\ runs = {}
  /\ page_directory = [s \in Slots |-> NotPresent]
  /\ memory = [f \in Frames |-> [e \in Entries |-> Garbage]]
  /\ tlb = [v \in Pages |-> NotPresent]
  /\ pde_cache = [s \in Slots |-> NotPresent]
  /\ vmm_pc = "idle"
  /\ virt = NotPresent
  /\ target = NotPresent
  /\ new_pt = NotPresent
  /\ mapped = [v \in Pages |-> NotPresent]
  /\ was = NotPresent
  /\ heap_pc = "off"
  /\ heap = 0
  /\ head = 0
  /\ block = 0
  /\ size = 0
  /\ header = [f \in Frames |-> NoHeader]
  /\ blocks = {}

-----------------------------------------------------------------------------
(***************************************************************************)
(* heap_create, called by malloc_init.  Both pages are used at their       *)
(* physical address.                                                       *)
(***************************************************************************)
heap_create(h, first) ==
  /\ heap_pc = "off"
  /\ h # first
  /\ {h, first} \subseteq free \intersect Identity
  /\ free' = free \ {h, first}
  /\ runs' = runs \union {Single(h), Single(first)}
  /\ heap' = h
  /\ head' = first
  /\ header' = [header EXCEPT ![first] =
                  [next |-> first, prev |-> first, size |-> 0]]
  /\ heap_pc' = "idle"
  /\ UNCHANGED <<tables, mmu_vars, call, ghosts, block, size, blocks>>

\* pmm_alloc panics - which stands, here, in AllocPanics and in VMM, for each
\* of the ways in which it does not return (PMM) - or one of the pages is
\* beyond the identity mapping.
CreateStops ==
  /\ heap_pc = "off"
  /\ heap_pc' \in {"panic"} \union
                  (IF free \subseteq Identity THEN {} ELSE {"fault"})
  /\ UNCHANGED <<vmm_vars, heap, head, block, size, header, blocks>>

(***************************************************************************)
(* heap_alloc.                                                             *)
(***************************************************************************)
heap_alloc(n, first) ==
  /\ heap_pc = "idle"
  /\ IF PagesFor(n) = 0
     THEN first = 0 /\ UNCHANGED pmm_vars
     ELSE Pmm!Alloc([first |-> first, count |-> PagesFor(n)])
  /\ block' = first
  /\ size' = n
  /\ heap_pc' = "map"
  /\ UNCHANGED <<tables, mmu_vars, call, ghosts, heap, head, header, blocks>>

AllocPanics ==
  /\ heap_pc = "idle"
  /\ heap_pc' = "panic"
  /\ UNCHANGED <<vmm_vars, heap, head, block, size, header, blocks>>

AllocMaps ==
  /\ heap_pc = "map"
  /\ vmm_map(block, HIGHER_HALF(block))
  /\ heap_pc' = "write"
  /\ UNCHANGED <<heap, head, block, size, header, blocks>>

\* Mutant: the size recorded is that of the whole block.
NewHeaderOfBlock ==
  [next |-> head, prev |-> header[head].prev, size |-> size + HEADER]

NewHeader == [next |-> head, prev |-> header[head].prev, size |-> size]

\* vmm_map has returned; the header is written, and then the caller may
\* write what it likes behind it.
AllocReturns ==
  /\ heap_pc = "write"
  /\ vmm_pc = "idle"
  /\ header' = [header EXCEPT ![block] = NewHeader]
  /\ memory' = [memory EXCEPT ![block] = [e \in Entries |-> Garbage]]
  /\ blocks' = blocks \union
       {[first |-> block, count |-> PagesFor(size), size |-> size]}
  /\ heap_pc' = "idle"
  /\ block' = 0
  /\ size' = 0
  /\ UNCHANGED <<pmm_vars, page_directory, mmu_vars, call, ghosts, heap, head>>

(***************************************************************************)
(* heap_free.  Callers pass pointers they were given, also ones that they  *)
(* have freed before, or pointers into a block.  What is behind a pointer  *)
(* is read through its virtual page: a page fault where nothing is mapped. *)
(***************************************************************************)
FreeFaults(f) ==
  /\ heap_pc = "idle"
  /\ Sees(HIGHER_HALF(f)) = {}
  /\ heap_pc' = "fault"
  /\ UNCHANGED <<vmm_vars, heap, head, block, size, header, blocks>>

\* A pointer into the middle of a block, without the magic in front of it.
FreeRefuses ==
  /\ heap_pc = "idle"
  /\ blocks # {}
  /\ UNCHANGED vars

\* The data in front of the pointer may be the magic all the same: heap_free
\* then writes where the data says.  The model claims nothing of what follows.
FreeStrays ==
  /\ heap_pc = "idle"
  /\ blocks # {}
  /\ heap_pc' = "wild"
  /\ UNCHANGED <<vmm_vars, heap, head, block, size, header, blocks>>

\* Mutants: one page is freed, whatever the block's size; one page more.
PagesOfOne(h) == 1
PagesOfMore(h) == PagesFor(h.size) + 1

\* The number of pages heap_free gives back.
PagesOf(h) == PagesFor(h.size)

heap_free(f) ==
  /\ heap_pc = "idle"
  /\ Sees(HIGHER_HALF(f)) = {f}
  /\ header[f] # NoHeader
  /\ header' = [header EXCEPT ![header[f].prev].next = header[f].next,
                              ![header[f].next].prev = header[f].prev]
  /\ LET run == [first |-> f, count |-> PagesOf(header[f])]
     IN  /\ free' = free \union Pmm!PagesIn(run)
         /\ runs' = runs \ {run}
  /\ blocks' = {b \in blocks : b.first # f}
  /\ block' = f
  /\ heap_pc' = "unmap"
  /\ UNCHANGED <<tables, mmu_vars, call, ghosts, heap, head, size>>

\* Mutant: the page of a freed block stays mapped.
FreeKeepsMapping ==
  /\ heap_pc = "unmap"
  /\ heap_pc' = "return"
  /\ UNCHANGED <<vmm_vars, heap, head, block, size, header, blocks>>

FreeUnmaps ==
  /\ heap_pc = "unmap"
  /\ vmm_unmap(HIGHER_HALF(block))
  /\ heap_pc' = "return"
  /\ UNCHANGED <<heap, head, block, size, header, blocks>>

FreeReturns ==
  /\ heap_pc = "return"
  /\ vmm_pc = "idle"
  /\ heap_pc' = "idle"
  /\ block' = 0
  /\ UNCHANGED <<vmm_vars, heap, head, size, header, blocks>>

(***************************************************************************)
(* vmm.c executes.  A frame that is cleared to be a page table has no      *)
(* header any more.                                                        *)
(***************************************************************************)
VmmExecutes ==
  /\ CallStep
  /\ header' = [f \in Frames |->
                  IF memory'[f] # memory[f] THEN NoHeader ELSE header[f]]
  /\ UNCHANGED <<heap_pc, heap, head, block, size, blocks>>

ProcessorWalks ==
  /\ heap_pc \notin HeapStopped
  /\ \E v \in Pages : Walk(v)
  /\ UNCHANGED heap_vars

HeapStep ==
  \/ VmmExecutes
  \/ AllocMaps
  \/ AllocReturns
  \/ FreeUnmaps
  \/ FreeReturns

HeapNext ==
  \/ \E h, first \in Frames : heap_create(h, first)
  \/ CreateStops
  \/ \E n \in Sizes : \E first \in Frames : heap_alloc(n, first)
  \/ AllocPanics
  \/ \E f \in Frames : FreeFaults(f)
  \/ FreeRefuses
  \/ FreeStrays
  \/ \E f \in Frames : heap_free(f)
  \/ HeapStep
  \/ ProcessorWalks

\* kmalloc and kfree are executed to their end by the one processor.
HeapSpec == HeapInit /\ [][HeapNext]_vars /\ WF_vars(HeapStep)

-----------------------------------------------------------------------------
AtRest == heap_pc = "idle" /\ vmm_pc = "idle"

\* The blocks that own memory: a size just below 2^32 yields a block of no
\* pages, at physical address 0.
Owning == {b \in blocks : b.count # 0}

BlockRuns == {RunOf(b) : b \in Owning}

TableRuns == {Single(f) : f \in TableFrames}

(***************************************************************************)
(* Nothing is lost between the three layers: when heap.c is not executing, *)
(* the runs pmm.c has handed out are the heap's own two pages, the run of  *)
(* each block a caller holds, and the page tables in the directory.  What  *)
(* heap_free works out from block->size (heap.c:47) is what heap_alloc     *)
(* worked out from n (heap.c:24), and vmm.c returns the tables it took.    *)
(***************************************************************************)
NothingIsLost ==
  AtRest => runs = {Single(heap), Single(head)} \union BlockRuns \union TableRuns

(***************************************************************************)
(* The memory of a block belongs to that block alone: no other block, page *)
(* table or page of the heap's own is in it, although heap.c, vmm.c and    *)
(* the callers that free twice share one allocator.                        *)
(***************************************************************************)
BlocksAreApart ==
  \A b \in Owning :
    LET own == Pmm!PagesIn(RunOf(b))
    IN  /\ own \intersect (free \union TableFrames \union {0, heap, head}) = {}
        /\ \A c \in Owning \ {b} : own \intersect Pmm!PagesIn(RunOf(c)) = {}

(***************************************************************************)
(* A block stays usable until it is freed: the page its header is in       *)
(* translates to the block's frame, whatever else has been mapped, freed   *)
(* or torn down since, and the header still tells heap_free the truth.     *)
(***************************************************************************)
BlocksStayUsable ==
  AtRest =>
    \A b \in Owning :
      /\ Sees(HIGHER_HALF(b.first)) = {b.first}
      /\ header[b.first] # NoHeader
      /\ header[b.first].size = b.size

(***************************************************************************)
(* A kfree gives back the pages of one block, all of them and no other,    *)
(* and nothing but a kfree or the end of a page table gives back any: a    *)
(* pointer that has been freed, and whose frame no block begins at since,  *)
(* gives nothing away. The magic is still in its frame; it is the page     *)
(* fault on block->magic that stops heap_free (heap.c:40), and so the      *)
(* unmapping of the first kfree. Whose the block is heap_free cannot tell: *)
(* if its frame has a new owner, the old pointer frees the new owner's     *)
(* block, which the property allows; nor does it speak of a pointer into a *)
(* block with the magic in front of it (FreeStrays).                       *)
(***************************************************************************)
FreesOneBlock ==
  \E b \in blocks :
    /\ b.first = block'
    /\ free' = free \union Pmm!PagesIn(RunOf(b))

OnlyTheLiveIsFreed ==
  [][ IF heap_pc = "idle" /\ heap_pc' = "unmap"
      THEN FreesOneBlock
      ELSE free' \ free \subseteq TableFrames ]_vars

(***************************************************************************)
(* Every kmalloc and kfree comes to an end: it returns, or the kernel has  *)
(* stopped.                                                                *)
(***************************************************************************)
HeapCallsEnd ==
  heap_pc \in {"map", "write", "unmap", "return"} ~>
    heap_pc = "idle" \/ vmm_pc \in Stopped
=============================================================================
