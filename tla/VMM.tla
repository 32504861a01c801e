-------------------------------- MODULE VMM --------------------------------
(***************************************************************************)
(* The virtual memory manager, kernel/mm/vmm.c, and the memory management  *)
(* unit it talks to.                                                       *)
(*                                                                         *)
(* vmm_map and vmm_unmap are split into their memory accesses, because     *)
(* between any two of them the processor may walk the page tables and      *)
(* remember what it finds: in the TLB (whole translations) and in its      *)
(* paging-structure cache (page directory entries).  Interrupt handlers    *)
(* run between them too, through whatever translations there are.          *)
(*                                                                         *)
(* A virtual page is a pair <<pdindex, ptindex>>, and a present page table *)
(* entry - a physical address with its flags - is a member of Targets.     *)
(* Page tables are found by physical address, through the identity mapping *)
(* of the first four megabytes that vmm_install sets up.                   *)
(***************************************************************************)
EXTENDS Integers

CONSTANTS
  Frames,      \* the page frame numbers there are
  Identity,    \* those below four megabytes, where virtual is physical
  Slots,       \* the indices of the page directory that callers map into
  Entries,     \* the indices of a page table
  Targets,     \* what a present page table entry can say
  RunLengths,  \* the numbers of pages pmm_alloc is asked for
  NotPresent,  \* a page directory or page table entry with bit 0 clear
  Garbage      \* an entry of memory that holds something else

ASSUME FramesAssumption == Frames \subseteq Nat /\ Identity \subseteq Frames

ASSUME EntriesAssumption ==
  /\ NotPresent \notin Frames \union Targets \union {Garbage}
  /\ Garbage \notin Targets

ASSUME RunLengthsAssumption == RunLengths \subseteq Nat /\ 1 \in RunLengths

VARIABLES
  free,            \* pmm.c, as PageAllocator: the frames nobody owns
  runs,            \* pmm.c, as PageAllocator: the runs handed out
  page_directory,  \* by slot, the frame of the page table
  memory,          \* by frame, its contents read as a page table
  tlb,             \* by page, the translation the processor remembers
  pde_cache,       \* by slot, the page table the processor remembers
  vmm_pc,          \* what the processor is executing of vmm.c
  virt,            \* the page the call in progress is about, if there is one
  target,          \* what vmm_map is to enter
  new_pt,          \* the local of vmm_map
  mapped,          \* ghost: by page, what callers have mapped
  was              \* ghost: what virt was mapped to when the call began

pmm_vars == <<free, runs>>
mmu_vars == <<tlb, pde_cache>>
tables   == <<page_directory, memory>>
call     == <<vmm_pc, virt, target, new_pt>>
ghosts   == <<mapped, was>>
vmm_vars == <<pmm_vars, tables, mmu_vars, call, ghosts>>

Pages == Slots \X Entries

\* PMM shows that pmm.c implements this allocator.
Pmm == INSTANCE PageAllocator WITH Pages <- Frames, up <- TRUE

Single(frame) == [first |-> frame, count |-> 1]

\* Where vmm.c never returns from: panic's halt loop and isr_handler's.
Stopped == {"panic", "fault"}

TypeOK ==
  /\ Pmm!TypeOK
  /\ page_directory \in [Slots -> Identity \union {NotPresent}]
  /\ memory \in [Frames -> [Entries -> Targets \union {NotPresent, Garbage}]]
  /\ tlb \in [Pages -> Targets \union {NotPresent, Garbage}]
  /\ pde_cache \in [Slots -> Frames \union {NotPresent}]
  /\ vmm_pc \in {"idle", "alloc", "zero", "publish", "enter", "clear",
                 "release", "detach", "flush"} \union Stopped
  /\ virt \in Pages \union {NotPresent}
  /\ target \in Targets \union {NotPresent}
  /\ new_pt \in Frames \union {NotPresent}
  /\ mapped \in [Pages -> Targets \union {NotPresent}]
  /\ was \in Targets \union {NotPresent}

(***************************************************************************)
(* After vmm_load_pd and vmm_enable_paging: the directory has its identity *)
(* slot, which no caller maps into, and nothing else.  Memory holds what   *)
(* the firmware and the loader left there.                                 *)
(***************************************************************************)
Init ==
  /\ free = Frames
  /\ runs = {}
  /\ page_directory = [s \in Slots |-> NotPresent]
  /\ memory = [f \in Frames |-> [e \in Entries |-> Garbage]]
  /\ tlb = [v \in Pages |-> NotPresent]
  /\ pde_cache = [s \in Slots |-> NotPresent]
  /\ vmm_pc = "idle"
  /\ virt = NotPresent
  /\ target = NotPresent
  /\ new_pt = NotPresent
  /\ mapped = [v \in Pages |-> NotPresent]
  /\ was = NotPresent

-----------------------------------------------------------------------------
pdindex == virt[1]
ptindex == virt[2]
pt      == page_directory[pdindex]

SetEntry(entry) == memory' = [memory EXCEPT ![pt][ptindex] = entry]

SetMapped(entry) == mapped' = [mapped EXCEPT ![virt] = entry]

(***************************************************************************)
(* vmm_map.                                                                *)
(***************************************************************************)
vmm_map(to, v) ==
  /\ vmm_pc = "idle"
  /\ virt' = v
  /\ target' = to
  /\ was' = mapped[v]
  /\ vmm_pc' = IF page_directory[v[1]] = NotPresent THEN "alloc" ELSE "enter"
  /\ UNCHANGED <<pmm_vars, tables, mmu_vars, new_pt, mapped>>

\* Mutant: the new table goes into the directory before it has been cleared.
MapAllocatesAndPublishes(frame) ==
  /\ vmm_pc = "alloc"
  /\ Pmm!Alloc(Single(frame))
  /\ new_pt' = frame
  /\ page_directory' = [page_directory EXCEPT ![pdindex] = frame]
  /\ vmm_pc' = "zero"
  /\ UNCHANGED <<memory, mmu_vars, virt, target, ghosts>>

MapAllocates(frame) ==
  /\ vmm_pc = "alloc"
  /\ Pmm!Alloc(Single(frame))
  /\ new_pt' = frame
  /\ vmm_pc' = "zero"
  /\ UNCHANGED <<tables, mmu_vars, virt, target, ghosts>>

\* pmm_alloc ends in panic, which it may do with free pages left (PMM).
MapPanics ==
  /\ vmm_pc = "alloc"
  /\ vmm_pc' = "panic"
  /\ UNCHANGED <<pmm_vars, tables, mmu_vars, virt, target, new_pt, ghosts>>

\* Mutant: isr_handler returns, and the access is made again.
MapFaultsAgain ==
  /\ vmm_pc = "zero"
  /\ new_pt \notin Identity
  /\ UNCHANGED vmm_vars

\* The table is written at its physical address: beyond the identity mapping
\* that is a page fault, and isr_handler halts.
MapFaults ==
  /\ vmm_pc = "zero"
  /\ new_pt \notin Identity
  /\ vmm_pc' = "fault"
  /\ UNCHANGED <<pmm_vars, tables, mmu_vars, virt, target, new_pt, ghosts>>

MapZeroes ==
  /\ vmm_pc = "zero"
  /\ new_pt \in Identity
  /\ memory' = [memory EXCEPT ![new_pt] = [e \in Entries |-> NotPresent]]
  /\ vmm_pc' = "publish"
  /\ UNCHANGED <<pmm_vars, page_directory, mmu_vars, virt, target, new_pt,
                 ghosts>>

MapPublishes ==
  /\ vmm_pc = "publish"
  /\ page_directory' = [page_directory EXCEPT ![pdindex] = new_pt]
  /\ new_pt' = NotPresent
  /\ vmm_pc' = "enter"
  /\ UNCHANGED <<pmm_vars, memory, mmu_vars, virt, target, ghosts>>

MapEnters ==
  /\ vmm_pc = "enter"
  /\ SetEntry(target)
  /\ SetMapped(target)
  /\ vmm_pc' = "flush"
  /\ UNCHANGED <<pmm_vars, page_directory, mmu_vars, virt, target, new_pt, was>>

(***************************************************************************)
(* vmm_unmap.                                                              *)
(***************************************************************************)
vmm_unmap(v) ==
  /\ vmm_pc = "idle"
  /\ virt' = v
  /\ target' = NotPresent
  /\ was' = mapped[v]
  /\ vmm_pc' = IF page_directory[v[1]] = NotPresent THEN "flush" ELSE "clear"
  /\ UNCHANGED <<pmm_vars, tables, mmu_vars, new_pt, mapped>>

\* Mutants: the loop forgets an entry; the table is never found empty.
TableEmptyButOne(table) ==
  \E e \in Entries : \A i \in Entries \ {e} : table[i] = NotPresent
TableNeverEmpty(table) == FALSE

TableEmpty(table) == \A i \in Entries : table[i] = NotPresent

UnmapClears ==
  /\ vmm_pc = "clear"
  /\ SetEntry(NotPresent)
  /\ SetMapped(NotPresent)
  /\ vmm_pc' = IF TableEmpty(memory'[pt]) THEN "release" ELSE "flush"
  /\ UNCHANGED <<pmm_vars, page_directory, mmu_vars, virt, target, new_pt, was>>

UnmapReleases ==
  /\ vmm_pc = "release"
  /\ Pmm!Release(Single(pt))
  /\ vmm_pc' = "detach"
  /\ UNCHANGED <<tables, mmu_vars, virt, target, new_pt, ghosts>>

\* Mutant: the directory keeps its entry.
UnmapForgets ==
  /\ vmm_pc = "detach"
  /\ vmm_pc' = "flush"
  /\ UNCHANGED <<pmm_vars, tables, mmu_vars, virt, target, new_pt, ghosts>>

UnmapDetaches ==
  /\ vmm_pc = "detach"
  /\ page_directory' = [page_directory EXCEPT ![pdindex] = NotPresent]
  /\ vmm_pc' = "flush"
  /\ UNCHANGED <<pmm_vars, memory, mmu_vars, virt, target, new_pt, ghosts>>

(***************************************************************************)
(* vmm_flush_tlb, with which both end.  invlpg drops the translation of    *)
(* one page, and the whole of the paging-structure cache.                  *)
(***************************************************************************)
\* Mutant: the two functions return without it.
ReturnUnflushed ==
  /\ vmm_pc = "flush"
  /\ vmm_pc' = "idle"
  /\ virt' = NotPresent
  /\ target' = NotPresent
  /\ was' = NotPresent
  /\ UNCHANGED <<pmm_vars, tables, mmu_vars, new_pt, mapped>>

vmm_flush_tlb ==
  /\ vmm_pc = "flush"
  /\ tlb' = [tlb EXCEPT ![virt] = NotPresent]
  /\ pde_cache' = [s \in Slots |-> NotPresent]
  /\ vmm_pc' = "idle"
  /\ virt' = NotPresent
  /\ target' = NotPresent
  /\ was' = NotPresent
  /\ UNCHANGED <<pmm_vars, tables, new_pt, mapped>>

-----------------------------------------------------------------------------
(***************************************************************************)
(* The processor walks to a page, for an access or ahead of one, whenever  *)
(* it likes, from the directory or from a directory entry it remembers,    *)
(* and remembers what is present.  A halted processor makes no access.     *)
(***************************************************************************)
TablesSeen(s) == {page_directory[s], pde_cache[s]} \ {NotPresent}

Walk(v) ==
  /\ vmm_pc \notin Stopped
  /\ \E table \in TablesSeen(v[1]) :
       /\ pde_cache' = [pde_cache EXCEPT ![v[1]] = table]
       /\ tlb' = IF memory[table][v[2]] = NotPresent
                 THEN tlb
                 ELSE [tlb EXCEPT ![v] = memory[table][v[2]]]
       /\ UNCHANGED <<pmm_vars, tables, call, ghosts>>

(***************************************************************************)
(* The other callers of pmm.c (heap.c, sched.c) take runs, write into them *)
(* what they like, and give them back.                                     *)
(***************************************************************************)
OwnersTake(run) ==
  /\ vmm_pc = "idle"
  /\ Pmm!Alloc(run)
  /\ memory' = [f \in Frames |->
       IF f \in Pmm!PagesIn(run) THEN [e \in Entries |-> Garbage] ELSE memory[f]]
  /\ UNCHANGED <<page_directory, mmu_vars, call, ghosts>>

TableFrames == {page_directory[s] : s \in Slots} \ {NotPresent}

OwnersReturn(run) ==
  /\ vmm_pc = "idle"
  /\ run \notin {Single(f) : f \in TableFrames}
  /\ Pmm!Release(run)
  /\ UNCHANGED <<tables, mmu_vars, call, ghosts>>

\* What the processor executes of vmm.c once one of its functions is called.
CallStep ==
  \/ \E frame \in Frames : MapAllocates(frame)
  \/ MapPanics
  \/ MapFaults
  \/ MapZeroes
  \/ MapPublishes
  \/ MapEnters
  \/ UnmapClears
  \/ UnmapReleases
  \/ UnmapDetaches
  \/ vmm_flush_tlb

Next ==
  \/ \E v \in Pages : \E to \in Targets : vmm_map(to, v)
  \/ \E v \in Pages : vmm_unmap(v)
  \/ CallStep
  \/ \E v \in Pages : Walk(v)
  \/ \E run \in Pmm!Run : OwnersTake(run)
  \/ \E run \in runs : OwnersReturn(run)

\* The processor keeps executing the function it is in: interrupt handlers
\* return to it and do not call vmm.c.
Spec == Init /\ [][Next]_vmm_vars /\ WF_vmm_vars(CallStep)

-----------------------------------------------------------------------------
(***************************************************************************)
(* At every instant, between any two accesses of vmm_map and vmm_unmap,    *)
(* the page tables translate each page to what callers mapped there, and   *)
(* no page to anything else: a table is published only when it is clear    *)
(* (vmm.c:42-45), and is torn down only when nothing is mapped through it  *)
(* (vmm.c:70-81).                                                          *)
(***************************************************************************)
TablesSayWhatIsMapped ==
  \A v \in Pages :
    mapped[v] = IF page_directory[v[1]] = NotPresent
                THEN NotPresent
                ELSE memory[page_directory[v[1]]][v[2]]

(***************************************************************************)
(* The processor never uses a translation that callers did not ask for: it *)
(* uses what is mapped or, for the one page of the call in progress, what  *)
(* was mapped there before; when the call has returned, nothing stale is   *)
(* left (vmm.c:24 "flushes TLB cache", vmm.c:52, vmm.c:84).  A page table  *)
(* that is remembered after its frame was freed is such a danger, for the  *)
(* frame's next owner writes into it.                                      *)
(***************************************************************************)
Sees(v) ==
  ({memory[table][v[2]] : table \in TablesSeen(v[1])} \union {tlb[v]})
    \ {NotPresent}

NothingStale ==
  \A v \in Pages :
    Sees(v) \subseteq
      {mapped[v]} \union (IF v = virt /\ vmm_pc # "idle" THEN {was} ELSE {})

(***************************************************************************)
(* No page table is freed while the directory points to it, and no two     *)
(* slots share one: outside the two instructions between pmm_free and the  *)
(* clearing of the entry (vmm.c:79-80), each directory entry points to a   *)
(* frame of its own that is allocated.                                     *)
(***************************************************************************)
TablesAreOwned ==
  /\ \A s \in Slots :
       page_directory[s] # NotPresent =>
         \/ Single(page_directory[s]) \in runs
         \/ vmm_pc = "detach" /\ s = pdindex
  /\ \A s, u \in Slots :
       s # u /\ page_directory[s] # NotPresent =>
         page_directory[s] # page_directory[u]

(***************************************************************************)
(* vmm.c keeps no page table that maps nothing: when a call has returned,  *)
(* each table has an entry in use (vmm.c:69 "check if the page table is    *)
(* empty and free it").                                                    *)
(***************************************************************************)
NoEmptyTable ==
  vmm_pc = "idle" =>
    \A s \in Slots :
      page_directory[s] # NotPresent =>
        \E e \in Entries : mapped[<<s, e>>] # NotPresent
=============================================================================
