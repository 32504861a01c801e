----------------------------- MODULE VMM_proofs -----------------------------
(***************************************************************************)
(* Proofs about VMM, for any number of frames, slots and entries.          *)
(***************************************************************************)
EXTENDS VMM, TLAPS

\* Nothing is mapped through this table.
Clear(table) == \A e \in Entries : memory[table][e] = NotPresent

(***************************************************************************)
(* What the processor remembers of the directory is what the directory     *)
(* says, except that between UnmapDetaches and the flush it may remember   *)
(* the table that has just been detached, which is clear.                  *)
(***************************************************************************)
CacheAgrees ==
  \A s \in Slots :
    pde_cache[s] # NotPresent =>
      \/ pde_cache[s] = page_directory[s]
      \/ /\ vmm_pc = "flush"
         /\ s = pdindex
         /\ page_directory[s] = NotPresent
         /\ Clear(pde_cache[s])

\* What it remembers of the tables is mapped, or was when the call began.
TlbAgrees ==
  \A v \in Pages :
    \/ tlb[v] \in {NotPresent, mapped[v]}
    \/ v = virt /\ vmm_pc # "idle" /\ tlb[v] = was

(***************************************************************************)
(* What is known at each point of vmm_map and vmm_unmap.                   *)
(***************************************************************************)
InMap   == vmm_pc \in {"alloc", "zero", "publish"}
InUnmap == vmm_pc \in {"clear", "release", "detach"}

CallState ==
  /\ vmm_pc # "idle" => virt \in Pages
  /\ InMap \/ vmm_pc = "enter" => target \in Targets
  /\ InMap => page_directory[pdindex] = NotPresent
  /\ InUnmap \/ vmm_pc = "enter" => page_directory[pdindex] # NotPresent
  /\ vmm_pc \in {"zero", "publish"} =>
       /\ new_pt \in Frames
       /\ Single(new_pt) \in runs
       /\ \A s \in Slots : page_directory[s] # new_pt
  /\ vmm_pc = "publish" => new_pt \in Identity /\ Clear(new_pt)
  /\ vmm_pc \in {"release", "detach"} => Clear(pt)
  /\ vmm_pc \in {"alloc", "zero", "publish", "enter", "clear"} =>
       was = mapped[virt]

\* Every table maps something, but for the table of the call in progress
\* before its first entry and after its last.
TablesInUse ==
  \A s \in Slots :
    (/\ page_directory[s] # NotPresent
     /\ ~(vmm_pc \in {"enter", "release", "detach"} /\ s = pdindex))
      => \E e \in Entries : mapped[<<s, e>>] # NotPresent

\* Only frames that exist are handed out.
RunsExist == \A run \in runs : Pmm!PagesIn(run) \subseteq Frames

IInv ==
  /\ TypeOK
  /\ Pmm!Exclusive
  /\ RunsExist
  /\ TablesSayWhatIsMapped
  /\ TablesAreOwned
  /\ CacheAgrees
  /\ TlbAgrees
  /\ CallState
  /\ TablesInUse

-----------------------------------------------------------------------------
(***************************************************************************)
(* The page allocator, as VMM uses it.                                     *)
(***************************************************************************)
LEMMA SingleFacts ==
  ASSUME NEW f \in Frames
  PROVE  /\ Single(f) \in Pmm!Run
         /\ Single(f).first = f
         /\ Pmm!PagesIn(Single(f)) = {f}
BY FramesAssumption, RunLengthsAssumption DEF Single, Pmm!Run, Pmm!PagesIn

LEMMA SingleInjective ==
  ASSUME NEW f, NEW g, Single(f) = Single(g)
  PROVE  f = g
<1>1. Single(f).first = f /\ Single(g).first = g
  BY DEF Single
<1> QED
  BY <1>1

LEMMA AllocKeeps ==
  ASSUME Pmm!TypeOK, Pmm!Exclusive, RunsExist,
         NEW run \in Pmm!Run, Pmm!Alloc(run)
  PROVE  Pmm!TypeOK' /\ Pmm!Exclusive' /\ RunsExist'
<1>1. Pmm!TypeOK'
  BY DEF Pmm!TypeOK, Pmm!Alloc
<1>2. ASSUME NEW r \in runs'
      PROVE  Pmm!PagesIn(r) \intersect free' = {}
  BY <1>2 DEF Pmm!Exclusive, Pmm!Alloc
<1>3. ASSUME NEW r \in runs', NEW s \in runs', r # s
      PROVE  Pmm!PagesIn(r) \intersect Pmm!PagesIn(s) = {}
  <2>1. CASE r \in runs /\ s \in runs
    BY <1>3, <2>1 DEF Pmm!Exclusive
  <2>2. CASE r = run
    BY <1>3, <2>2 DEF Pmm!Exclusive, Pmm!Alloc
  <2>3. CASE s = run
    BY <1>3, <2>3 DEF Pmm!Exclusive, Pmm!Alloc
  <2> QED
    BY <2>1, <2>2, <2>3 DEF Pmm!Alloc
<1>4. ASSUME NEW r \in runs'
      PROVE  Pmm!PagesIn(r) \subseteq Frames
  <2>1. Pmm!PagesIn(run) \subseteq Frames
    BY DEF Pmm!Alloc, Pmm!TypeOK
  <2> QED
    BY <2>1 DEF Pmm!Alloc, RunsExist
<1>5. Pmm!Exclusive'
  BY <1>2, <1>3 DEF Pmm!Exclusive, Pmm!PagesIn
<1>6. RunsExist'
  BY <1>4 DEF RunsExist, Pmm!PagesIn
<1> QED
  BY <1>1, <1>5, <1>6

LEMMA ReleaseKeeps ==
  ASSUME Pmm!TypeOK, Pmm!Exclusive, RunsExist, NEW run \in runs,
         Pmm!Release(run)
  PROVE  Pmm!TypeOK' /\ Pmm!Exclusive' /\ RunsExist'
<1>1. Pmm!PagesIn(run) \subseteq Frames
  BY DEF RunsExist
<1>2. Pmm!TypeOK'
  BY <1>1 DEF Pmm!TypeOK, Pmm!Release
<1>3. ASSUME NEW r \in runs'
      PROVE  Pmm!PagesIn(r) \intersect free' = {}
  BY <1>3 DEF Pmm!Exclusive, Pmm!Release
<1>4. Pmm!Exclusive'
  BY <1>3 DEF Pmm!Exclusive, Pmm!PagesIn, Pmm!Release
<1>5. RunsExist'
  BY DEF RunsExist, Pmm!PagesIn, Pmm!Release
<1> QED
  BY <1>2, <1>4, <1>5

-----------------------------------------------------------------------------
(***************************************************************************)
(* Facts about the state.                                                  *)
(***************************************************************************)
LEMMA PageFacts ==
  ASSUME NEW v \in Pages
  PROVE  v[1] \in Slots /\ v[2] \in Entries /\ v = <<v[1], v[2]>>
BY DEF Pages

\* A table in the directory is a frame that is out, and is no other slot's.
LEMMA TableFacts ==
  ASSUME IInv, NEW s \in Slots, page_directory[s] # NotPresent
  PROVE  /\ page_directory[s] \in Identity
         /\ page_directory[s] \in Frames
         /\ \A u \in Slots : u # s => page_directory[u] # page_directory[s]
BY FramesAssumption DEF IInv, TypeOK, TablesAreOwned

LEMMA TablesAreNotFree ==
  ASSUME IInv, NEW s \in Slots, page_directory[s] # NotPresent,
         ~(vmm_pc = "detach" /\ s = pdindex)
  PROVE  Single(page_directory[s]) \in runs /\ page_directory[s] \notin free
<1>1. page_directory[s] \in Frames
  BY TableFacts
<1>2. Single(page_directory[s]) \in runs
  BY DEF IInv, TablesAreOwned
<1>3. Pmm!PagesIn(Single(page_directory[s])) = {page_directory[s]}
  BY <1>1, SingleFacts
<1> QED
  BY <1>2, <1>3, Zenon DEF IInv, Pmm!Exclusive

\* A page that is translated is so by the table of its slot.
LEMMA Translation ==
  ASSUME IInv, NEW v \in Pages
  PROVE  mapped[v] = IF page_directory[v[1]] = NotPresent
                     THEN NotPresent
                     ELSE memory[page_directory[v[1]]][v[2]]
BY DEF IInv, TablesSayWhatIsMapped

\* What a walk can find behind a remembered directory entry.
LEMMA RememberedTable ==
  ASSUME IInv, NEW v \in Pages, NEW table \in TablesSeen(v[1])
  PROVE  memory[table][v[2]] \in {NotPresent, mapped[v]}
<1>1. v[1] \in Slots /\ v[2] \in Entries
  BY PageFacts
<1>2. CASE table = page_directory[v[1]]
  BY <1>2, Translation DEF TablesSeen
<1>3. CASE table # page_directory[v[1]]
  <2>1. Clear(table)
    BY <1>1, <1>3 DEF IInv, CacheAgrees, TablesSeen
  <2> QED
    BY <1>1, <2>1 DEF Clear
<1> QED
  BY <1>2, <1>3

-----------------------------------------------------------------------------
(***************************************************************************)
(* Each action keeps the invariant.                                        *)
(***************************************************************************)
LEMMA VmmMapKeeps ==
  ASSUME IInv, NEW to \in Targets, NEW v \in Pages, vmm_map(to, v)
  PROVE  IInv'
<1> USE EntriesAssumption, FramesAssumption DEF Stopped, Pages, pdindex,
    ptindex, pt, pmm_vars, mmu_vars, tables, call, ghosts
<1>1. TypeOK'
  BY DEF IInv, TypeOK, vmm_map, Pmm!TypeOK
<1>2. Pmm!Exclusive'
  BY DEF IInv, TypeOK, vmm_map, Pmm!Exclusive, Pmm!PagesIn
<1>3. RunsExist'
  BY DEF IInv, TypeOK, vmm_map, RunsExist, Pmm!PagesIn
<1>4. TablesSayWhatIsMapped'
  BY DEF IInv, TypeOK, vmm_map, TablesSayWhatIsMapped
<1>5. TablesAreOwned'
  BY DEF IInv, TypeOK, vmm_map, TablesAreOwned, Single
<1>6. CacheAgrees'
  BY DEF IInv, TypeOK, vmm_map, CacheAgrees, Clear
<1>7. TlbAgrees'
  BY DEF IInv, TypeOK, vmm_map, TlbAgrees
<1>8. CallState'
  BY DEF IInv, TypeOK, vmm_map, CallState, InMap, InUnmap, Clear
<1>9. TablesInUse'
  BY DEF IInv, TypeOK, vmm_map, TablesInUse
<1> QED
  BY <1>1, <1>2, <1>3, <1>4, <1>5, <1>6, <1>7, <1>8, <1>9 DEF IInv

LEMMA MapAllocatesKeeps ==
  ASSUME IInv, NEW frame \in Frames, MapAllocates(frame)
  PROVE  IInv'
<1> USE EntriesAssumption, FramesAssumption DEF Stopped, Pages, pdindex,
    ptindex, pt, pmm_vars, mmu_vars, tables, call, ghosts
<1>0. Single(frame) \in Pmm!Run /\ Pmm!PagesIn(Single(frame)) = {frame}
  BY SingleFacts
<1>a. Pmm!TypeOK' /\ Pmm!Exclusive' /\ RunsExist'
  BY <1>0, AllocKeeps DEF IInv, TypeOK, MapAllocates
<1>1. TypeOK'
  BY <1>a DEF IInv, TypeOK, MapAllocates
<1>2. Pmm!Exclusive'
  BY <1>a
<1>3. RunsExist'
  BY <1>a
<1>4. TablesSayWhatIsMapped'
  BY DEF IInv, TypeOK, MapAllocates, Pmm!Alloc, TablesSayWhatIsMapped
<1>5. TablesAreOwned'
  BY DEF IInv, TypeOK, MapAllocates, Pmm!Alloc, TablesAreOwned, Single
<1>6. CacheAgrees'
  BY DEF IInv, TypeOK, MapAllocates, Pmm!Alloc, CacheAgrees, Clear
<1>7. TlbAgrees'
  BY DEF IInv, TypeOK, MapAllocates, Pmm!Alloc, TlbAgrees
<1>8. CallState'
  <2>1. frame \in free
    BY <1>0 DEF MapAllocates, Pmm!Alloc
  <2>2. ASSUME NEW s \in Slots
        PROVE  page_directory[s] # frame
    BY <2>1, TablesAreNotFree DEF MapAllocates
  <2> QED
    BY <2>2 DEF IInv, TypeOK, MapAllocates, Pmm!Alloc, CallState, InMap,
       InUnmap
<1>9. TablesInUse'
  BY DEF IInv, TypeOK, MapAllocates, TablesInUse
<1> QED
  BY <1>1, <1>2, <1>3, <1>4, <1>5, <1>6, <1>7, <1>8, <1>9 DEF IInv

LEMMA MapPanicsKeeps ==
  ASSUME IInv, MapPanics
  PROVE  IInv'
<1> USE EntriesAssumption, FramesAssumption DEF Stopped, Pages, pdindex,
    ptindex, pt, pmm_vars, mmu_vars, tables, call, ghosts
<1>1. TypeOK'
  BY DEF IInv, TypeOK, MapPanics, Pmm!TypeOK
<1>2. Pmm!Exclusive'
  BY DEF IInv, TypeOK, MapPanics, Pmm!Exclusive, Pmm!PagesIn
<1>3. RunsExist'
  BY DEF IInv, TypeOK, MapPanics, RunsExist, Pmm!PagesIn
<1>4. TablesSayWhatIsMapped'
  BY DEF IInv, TypeOK, MapPanics, TablesSayWhatIsMapped
<1>5. TablesAreOwned'
  BY DEF IInv, TypeOK, MapPanics, TablesAreOwned, Single
<1>6. CacheAgrees'
  BY DEF IInv, TypeOK, MapPanics, CacheAgrees, Clear
<1>7. TlbAgrees'
  BY DEF IInv, TypeOK, MapPanics, TlbAgrees
<1>8. CallState'
  BY DEF IInv, TypeOK, MapPanics, CallState, InMap, InUnmap, Clear
<1>9. TablesInUse'
  BY DEF IInv, TypeOK, MapPanics, TablesInUse
<1> QED
  BY <1>1, <1>2, <1>3, <1>4, <1>5, <1>6, <1>7, <1>8, <1>9 DEF IInv

LEMMA MapFaultsKeeps ==
  ASSUME IInv, MapFaults
  PROVE  IInv'
<1> USE EntriesAssumption, FramesAssumption DEF Stopped, Pages, pdindex,
    ptindex, pt, pmm_vars, mmu_vars, tables, call, ghosts
<1>1. TypeOK'
  BY DEF IInv, TypeOK, MapFaults, Pmm!TypeOK
<1>2. Pmm!Exclusive'
  BY DEF IInv, TypeOK, MapFaults, Pmm!Exclusive, Pmm!PagesIn
<1>3. RunsExist'
  BY DEF IInv, TypeOK, MapFaults, RunsExist, Pmm!PagesIn
<1>4. TablesSayWhatIsMapped'
  BY DEF IInv, TypeOK, MapFaults, TablesSayWhatIsMapped
<1>5. TablesAreOwned'
  BY DEF IInv, TypeOK, MapFaults, TablesAreOwned, Single
<1>6. CacheAgrees'
  BY DEF IInv, TypeOK, MapFaults, CacheAgrees, Clear
<1>7. TlbAgrees'
  BY DEF IInv, TypeOK, MapFaults, TlbAgrees
<1>8. CallState'
  BY DEF IInv, TypeOK, MapFaults, CallState, InMap, InUnmap, Clear
<1>9. TablesInUse'
  BY DEF IInv, TypeOK, MapFaults, TablesInUse
<1> QED
  BY <1>1, <1>2, <1>3, <1>4, <1>5, <1>6, <1>7, <1>8, <1>9 DEF IInv

LEMMA MapZeroesKeeps ==
  ASSUME IInv, MapZeroes
  PROVE  IInv'
<1> USE EntriesAssumption, FramesAssumption DEF Stopped, Pages, pdindex,
    ptindex, pt, pmm_vars, mmu_vars, tables, call, ghosts
<1>1. TypeOK'
  BY DEF IInv, TypeOK, MapZeroes, Pmm!TypeOK
<1>2. Pmm!Exclusive'
  BY DEF IInv, TypeOK, MapZeroes, Pmm!Exclusive, Pmm!PagesIn
<1>3. RunsExist'
  BY DEF IInv, TypeOK, MapZeroes, RunsExist, Pmm!PagesIn
<1>4. TablesSayWhatIsMapped'
  <2> SUFFICES ASSUME NEW v \in Pages
               PROVE  mapped'[v] = IF page_directory'[v[1]] = NotPresent
                                   THEN NotPresent
                                   ELSE memory'[page_directory'[v[1]]][v[2]]
    BY DEF TablesSayWhatIsMapped
  <2>1. v[1] \in Slots /\ v[2] \in Entries /\ v = <<v[1], v[2]>>
    BY PageFacts
  <2>2. page_directory[v[1]] # new_pt
    BY <2>1 DEF IInv, CallState, MapZeroes
  <2> QED
    BY <2>1, <2>2, TableFacts, Translation DEF IInv, TypeOK, MapZeroes
<1>5. TablesAreOwned'
  BY DEF IInv, TypeOK, MapZeroes, TablesAreOwned, Single
<1>6. CacheAgrees'
  BY DEF IInv, TypeOK, MapZeroes, CacheAgrees, Clear
<1>7. TlbAgrees'
  BY DEF IInv, TypeOK, MapZeroes, TlbAgrees
<1>8. CallState'
  BY DEF IInv, TypeOK, MapZeroes, CallState, InMap, InUnmap, Clear
<1>9. TablesInUse'
  BY DEF IInv, TypeOK, MapZeroes, TablesInUse
<1> QED
  BY <1>1, <1>2, <1>3, <1>4, <1>5, <1>6, <1>7, <1>8, <1>9 DEF IInv

LEMMA MapPublishesKeeps ==
  ASSUME IInv, MapPublishes
  PROVE  IInv'
<1> USE EntriesAssumption, FramesAssumption DEF Stopped, Pages, pdindex,
    ptindex, pt, pmm_vars, mmu_vars, tables, call, ghosts
<1>0. new_pt \in Identity /\ new_pt \in Frames /\ Clear(new_pt) /\ virt \in Pages
  BY DEF IInv, CallState, MapPublishes
<1>1. TypeOK'
  BY <1>0 DEF IInv, TypeOK, MapPublishes, Pmm!TypeOK
<1>2. Pmm!Exclusive'
  BY DEF IInv, TypeOK, MapPublishes, Pmm!Exclusive, Pmm!PagesIn
<1>3. RunsExist'
  BY DEF IInv, TypeOK, MapPublishes, RunsExist, Pmm!PagesIn
<1>4. TablesSayWhatIsMapped'
  <2> SUFFICES ASSUME NEW v \in Pages
               PROVE  mapped'[v] = IF page_directory'[v[1]] = NotPresent
                                   THEN NotPresent
                                   ELSE memory'[page_directory'[v[1]]][v[2]]
    BY DEF TablesSayWhatIsMapped
  <2>1. v[1] \in Slots /\ v[2] \in Entries /\ v = <<v[1], v[2]>>
    BY PageFacts
  <2>2. CASE v[1] = pdindex
    <3>1. mapped[v] = NotPresent
      BY <2>2, Translation DEF IInv, CallState, InMap, MapPublishes
    <3>2. page_directory'[v[1]] = new_pt /\ new_pt # NotPresent
      BY <1>0, <2>1, <2>2 DEF IInv, TypeOK, MapPublishes
    <3> QED
      BY <1>0, <2>1, <3>1, <3>2 DEF Clear, MapPublishes
  <2>3. CASE v[1] # pdindex
    BY <2>1, <2>3, Translation DEF IInv, TypeOK, MapPublishes
  <2> QED
    BY <2>2, <2>3
<1>5. TablesAreOwned'
  <2>1. Single(new_pt) \in runs /\ \A s \in Slots : page_directory[s] # new_pt
    BY DEF IInv, CallState, MapPublishes
  <2>2. ASSUME NEW s \in Slots
        PROVE  page_directory'[s] = IF s = pdindex THEN new_pt ELSE page_directory[s]
    BY DEF IInv, TypeOK, MapPublishes
  <2>3. ASSUME NEW s \in Slots, page_directory'[s] # NotPresent
        PROVE  Single(page_directory'[s]) \in runs
    BY <2>1, <2>2, <2>3, TablesAreNotFree DEF MapPublishes
  <2>4. ASSUME NEW s \in Slots, NEW u \in Slots, s # u,
               page_directory'[s] # NotPresent
        PROVE  page_directory'[s] # page_directory'[u]
    BY <2>1, <2>2, <2>4, TableFacts
  <2> QED
    BY <2>3, <2>4 DEF TablesAreOwned, MapPublishes, Single
<1>6. CacheAgrees'
  <2>1. ASSUME NEW s \in Slots, pde_cache[s] # NotPresent
        PROVE  pde_cache[s] = page_directory[s] /\ s # pdindex
    BY <2>1 DEF IInv, CacheAgrees, CallState, InMap, MapPublishes
  <2> QED
    BY <2>1 DEF IInv, TypeOK, CacheAgrees, MapPublishes
<1>7. TlbAgrees'
  BY DEF IInv, TypeOK, MapPublishes, TlbAgrees
<1>8. CallState'
  BY DEF IInv, TypeOK, MapPublishes, CallState, InMap, InUnmap, Clear
<1>9. TablesInUse'
  BY DEF IInv, TypeOK, MapPublishes, TablesInUse
<1> QED
  BY <1>1, <1>2, <1>3, <1>4, <1>5, <1>6, <1>7, <1>8, <1>9 DEF IInv

LEMMA MapEntersKeeps ==
  ASSUME IInv, MapEnters
  PROVE  IInv'
<1> USE EntriesAssumption, FramesAssumption DEF Stopped, Pages, pdindex,
    ptindex, pt, pmm_vars, mmu_vars, tables, call, ghosts
<1>0. /\ virt \in Pages /\ pdindex \in Slots /\ ptindex \in Entries
      /\ pt \in Frames /\ pt # NotPresent
      /\ virt = <<pdindex, ptindex>>
  BY PageFacts, TableFacts DEF IInv, CallState, InUnmap, MapEnters
<1>1. TypeOK'
  BY <1>0 DEF IInv, TypeOK, CallState, MapEnters, Pmm!TypeOK, SetEntry,
     SetMapped
<1>2. Pmm!Exclusive'
  BY DEF IInv, TypeOK, MapEnters, SetEntry, SetMapped, TableEmpty,
     Pmm!Exclusive, Pmm!PagesIn
<1>3. RunsExist'
  BY DEF IInv, TypeOK, MapEnters, SetEntry, SetMapped, TableEmpty, RunsExist,
     Pmm!PagesIn
<1>4. TablesSayWhatIsMapped'
  <2> SUFFICES ASSUME NEW v \in Pages
               PROVE  mapped'[v] = IF page_directory'[v[1]] = NotPresent
                                   THEN NotPresent
                                   ELSE memory'[page_directory'[v[1]]][v[2]]
    BY DEF TablesSayWhatIsMapped
  <2>1. v[1] \in Slots /\ v[2] \in Entries /\ v = <<v[1], v[2]>>
    BY PageFacts
  <2>2. CASE v = virt
    <3>1. mapped'[v] = target
      BY <1>0, <2>2 DEF IInv, TypeOK, MapEnters, SetMapped
    <3>2. memory'[pt][ptindex] = target
      BY <1>0 DEF IInv, TypeOK, MapEnters, SetEntry
    <3> QED
      BY <1>0, <2>2, <3>1, <3>2 DEF MapEnters
  <2>3. CASE v # virt
    <3>1. mapped'[v] = mapped[v]
      BY <2>3 DEF IInv, TypeOK, MapEnters, SetMapped
    <3>2. ASSUME page_directory[v[1]] # NotPresent
          PROVE  memory'[page_directory[v[1]]][v[2]] = memory[page_directory[v[1]]][v[2]]
      <4>1. page_directory[v[1]] # pt \/ v[2] # ptindex
        BY <1>0, <2>1, <2>3, TableFacts
      <4>2. page_directory[v[1]] \in Frames
        BY <2>1, <3>2, TableFacts
      <4> QED
        BY <1>0, <2>1, <4>1, <4>2 DEF IInv, TypeOK, MapEnters, SetEntry
    <3> QED
      BY <3>1, <3>2, Translation DEF MapEnters
  <2> QED
    BY <2>2, <2>3
<1>5. TablesAreOwned'
  BY DEF IInv, TypeOK, MapEnters, SetEntry, SetMapped, TableEmpty,
     TablesAreOwned, Single
<1>6. CacheAgrees'
  BY DEF IInv, TypeOK, MapEnters, SetEntry, SetMapped, TableEmpty,
     CacheAgrees, Clear
<1>7. TlbAgrees'
  <2>1. was = mapped[virt]
    BY DEF IInv, CallState, MapEnters
  <2>2. ASSUME NEW v \in Pages, v # virt
        PROVE  mapped'[v] = mapped[v]
    BY <2>2 DEF IInv, TypeOK, MapEnters, SetMapped
  <2>3. ASSUME NEW v \in Pages
        PROVE  \/ tlb[v] \in {NotPresent, mapped'[v]}
               \/ v = virt /\ tlb[v] = was
    BY <2>1, <2>2 DEF IInv, TlbAgrees
  <2> QED
    BY <2>3 DEF TlbAgrees, MapEnters
<1>8. CallState'
  BY DEF IInv, TypeOK, MapEnters, SetEntry, SetMapped, TableEmpty, CallState,
     InMap, InUnmap, Clear
<1>9. TablesInUse'
  <2> SUFFICES ASSUME NEW s \in Slots, page_directory[s] # NotPresent
               PROVE  \E e \in Entries : mapped'[<<s, e>>] # NotPresent
    BY DEF TablesInUse, MapEnters
  <2>1. CASE s = pdindex
    <3>1. mapped'[<<s, ptindex>>] # NotPresent
      BY <1>0, <2>1 DEF IInv, TypeOK, CallState, MapEnters, SetMapped
    <3> QED
      BY <1>0, <3>1
  <2>2. CASE s # pdindex
    <3>1. PICK e \in Entries : mapped[<<s, e>>] # NotPresent
      BY <2>2 DEF IInv, TablesInUse
    <3>2. <<s, e>> \in Pages /\ <<s, e>> # virt
      BY <1>0, <2>2
    <3>3. mapped'[<<s, e>>] = mapped[<<s, e>>]
      BY <3>2 DEF IInv, TypeOK, MapEnters, SetMapped
    <3> QED
      BY <3>1, <3>3
  <2> QED
    BY <2>1, <2>2
<1> QED
  BY <1>1, <1>2, <1>3, <1>4, <1>5, <1>6, <1>7, <1>8, <1>9 DEF IInv

LEMMA UnmapClearsKeeps ==
  ASSUME IInv, UnmapClears
  PROVE  IInv'
<1> USE EntriesAssumption, FramesAssumption DEF Stopped, Pages, pdindex,
    ptindex, pt, pmm_vars, mmu_vars, tables, call, ghosts
<1>0. /\ virt \in Pages /\ pdindex \in Slots /\ ptindex \in Entries
      /\ pt \in Frames /\ pt # NotPresent
      /\ virt = <<pdindex, ptindex>>
  BY PageFacts, TableFacts DEF IInv, CallState, InUnmap, UnmapClears
<1>1. TypeOK'
  BY <1>0 DEF IInv, TypeOK, CallState, UnmapClears, Pmm!TypeOK, SetEntry,
     SetMapped
<1>2. Pmm!Exclusive'
  BY DEF IInv, TypeOK, UnmapClears, SetEntry, SetMapped, TableEmpty,
     Pmm!Exclusive, Pmm!PagesIn
<1>3. RunsExist'
  BY DEF IInv, TypeOK, UnmapClears, SetEntry, SetMapped, TableEmpty,
     RunsExist, Pmm!PagesIn
<1>4. TablesSayWhatIsMapped'
  <2> SUFFICES ASSUME NEW v \in Pages
               PROVE  mapped'[v] = IF page_directory'[v[1]] = NotPresent
                                   THEN NotPresent
                                   ELSE memory'[page_directory'[v[1]]][v[2]]
    BY DEF TablesSayWhatIsMapped
  <2>1. v[1] \in Slots /\ v[2] \in Entries /\ v = <<v[1], v[2]>>
    BY PageFacts
  <2>2. CASE v = virt
    <3>1. mapped'[v] = NotPresent
      BY <1>0, <2>2 DEF IInv, TypeOK, UnmapClears, SetMapped
    <3>2. memory'[pt][ptindex] = NotPresent
      BY <1>0 DEF IInv, TypeOK, UnmapClears, SetEntry
    <3> QED
      BY <1>0, <2>2, <3>1, <3>2 DEF UnmapClears
  <2>3. CASE v # virt
    <3>1. mapped'[v] = mapped[v]
      BY <2>3 DEF IInv, TypeOK, UnmapClears, SetMapped
    <3>2. ASSUME page_directory[v[1]] # NotPresent
          PROVE  memory'[page_directory[v[1]]][v[2]] = memory[page_directory[v[1]]][v[2]]
      <4>1. page_directory[v[1]] # pt \/ v[2] # ptindex
        BY <1>0, <2>1, <2>3, TableFacts
      <4>2. page_directory[v[1]] \in Frames
        BY <2>1, <3>2, TableFacts
      <4> QED
        BY <1>0, <2>1, <4>1, <4>2 DEF IInv, TypeOK, UnmapClears, SetEntry
    <3> QED
      BY <3>1, <3>2, Translation DEF UnmapClears
  <2> QED
    BY <2>2, <2>3
<1>5. TablesAreOwned'
  BY DEF IInv, TypeOK, UnmapClears, SetEntry, SetMapped, TableEmpty,
     TablesAreOwned, Single
<1>6. CacheAgrees'
  BY DEF IInv, TypeOK, UnmapClears, SetEntry, SetMapped, TableEmpty,
     CacheAgrees, Clear
<1>7. TlbAgrees'
  <2>1. was = mapped[virt]
    BY DEF IInv, CallState, UnmapClears
  <2>2. ASSUME NEW v \in Pages, v # virt
        PROVE  mapped'[v] = mapped[v]
    BY <2>2 DEF IInv, TypeOK, UnmapClears, SetMapped
  <2>3. ASSUME NEW v \in Pages
        PROVE  \/ tlb[v] \in {NotPresent, mapped'[v]}
               \/ v = virt /\ tlb[v] = was
    BY <2>1, <2>2 DEF IInv, TlbAgrees
  <2> QED
    BY <2>3 DEF TlbAgrees, UnmapClears
<1>8. CallState'
  BY DEF IInv, TypeOK, UnmapClears, SetEntry, SetMapped, TableEmpty,
     CallState, InMap, InUnmap, Clear
<1>9. TablesInUse'
  <2> SUFFICES ASSUME NEW s \in Slots, page_directory[s] # NotPresent,
                      vmm_pc' = "flush" \/ s # pdindex
               PROVE  \E e \in Entries : mapped'[<<s, e>>] # NotPresent
    BY DEF TablesInUse, UnmapClears
  <2>1. CASE s = pdindex
    <3>1. PICK e \in Entries : memory'[pt][e] # NotPresent
      BY <2>1 DEF UnmapClears, TableEmpty
    <3>2. <<s, e>> \in Pages /\ <<s, e>>[1] = s /\ <<s, e>>[2] = e
      OBVIOUS
    <3>3. mapped'[<<s, e>>] = memory'[pt][e]
      BY <1>4, <2>1, <3>2 DEF TablesSayWhatIsMapped, UnmapClears
    <3> QED
      BY <3>1, <3>3
  <2>2. CASE s # pdindex
    <3>1. PICK e \in Entries : mapped[<<s, e>>] # NotPresent
      BY <2>2 DEF IInv, TablesInUse
    <3>2. <<s, e>> \in Pages /\ <<s, e>> # virt
      BY <1>0, <2>2
    <3>3. mapped'[<<s, e>>] = mapped[<<s, e>>]
      BY <3>2 DEF IInv, TypeOK, UnmapClears, SetMapped
    <3> QED
      BY <3>1, <3>3
  <2> QED
    BY <2>1, <2>2
<1> QED
  BY <1>1, <1>2, <1>3, <1>4, <1>5, <1>6, <1>7, <1>8, <1>9 DEF IInv

LEMMA UnmapReleasesKeeps ==
  ASSUME IInv, UnmapReleases
  PROVE  IInv'
<1> USE EntriesAssumption, FramesAssumption DEF Stopped, Pages, pdindex,
    ptindex, pt, pmm_vars, mmu_vars, tables, call, ghosts
<1>0. /\ pdindex \in Slots /\ pt \in Frames /\ pt # NotPresent
      /\ Single(pt) \in runs
  BY PageFacts, TableFacts, TablesAreNotFree DEF IInv, CallState, InUnmap,
     UnmapReleases
<1>a. Pmm!TypeOK' /\ Pmm!Exclusive' /\ RunsExist'
  BY <1>0, ReleaseKeeps DEF IInv, TypeOK, UnmapReleases
<1>1. TypeOK'
  BY <1>a DEF IInv, TypeOK, UnmapReleases
<1>2. Pmm!Exclusive'
  BY <1>a
<1>3. RunsExist'
  BY <1>a
<1>4. TablesSayWhatIsMapped'
  BY DEF IInv, TypeOK, UnmapReleases, Pmm!Release, TablesSayWhatIsMapped
<1>5. TablesAreOwned'
  <2>1. ASSUME NEW s \in Slots, page_directory[s] # NotPresent, s # pdindex
        PROVE  Single(page_directory[s]) \in runs'
    <3>1. page_directory[s] # pt
      BY <1>0, <2>1, TableFacts
    <3>2. Single(page_directory[s]) # Single(pt)
      BY <3>1, SingleInjective
    <3> QED
      BY <2>1, <3>2, TablesAreNotFree DEF UnmapReleases, Pmm!Release
  <2>2. ASSUME NEW s \in Slots, NEW u \in Slots, s # u,
               page_directory[s] # NotPresent
        PROVE  page_directory[s] # page_directory[u]
    BY <2>2, TableFacts
  <2> QED
    BY <2>1, <2>2 DEF TablesAreOwned, UnmapReleases, Single
<1>6. CacheAgrees'
  BY DEF IInv, TypeOK, UnmapReleases, Pmm!Release, CacheAgrees, Clear
<1>7. TlbAgrees'
  BY DEF IInv, TypeOK, UnmapReleases, Pmm!Release, TlbAgrees
<1>8. CallState'
  BY DEF IInv, TypeOK, UnmapReleases, Pmm!Release, CallState, InMap, InUnmap,
     Clear
<1>9. TablesInUse'
  BY DEF IInv, TypeOK, UnmapReleases, TablesInUse
<1> QED
  BY <1>1, <1>2, <1>3, <1>4, <1>5, <1>6, <1>7, <1>8, <1>9 DEF IInv

LEMMA UnmapDetachesKeeps ==
  ASSUME IInv, UnmapDetaches
  PROVE  IInv'
<1> USE EntriesAssumption, FramesAssumption DEF Stopped, Pages, pdindex,
    ptindex, pt, pmm_vars, mmu_vars, tables, call, ghosts
<1>0. /\ pdindex \in Slots /\ pt \in Frames /\ pt # NotPresent /\ Clear(pt)
  BY PageFacts, TableFacts DEF IInv, CallState, InUnmap, UnmapDetaches
<1>1. TypeOK'
  BY DEF IInv, TypeOK, UnmapDetaches, Pmm!TypeOK
<1>2. Pmm!Exclusive'
  BY DEF IInv, TypeOK, UnmapDetaches, Pmm!Exclusive, Pmm!PagesIn
<1>3. RunsExist'
  BY DEF IInv, TypeOK, UnmapDetaches, RunsExist, Pmm!PagesIn
<1>4. TablesSayWhatIsMapped'
  <2> SUFFICES ASSUME NEW v \in Pages
               PROVE  mapped'[v] = IF page_directory'[v[1]] = NotPresent
                                   THEN NotPresent
                                   ELSE memory'[page_directory'[v[1]]][v[2]]
    BY DEF TablesSayWhatIsMapped
  <2>1. v[1] \in Slots /\ v[2] \in Entries /\ v = <<v[1], v[2]>>
    BY PageFacts
  <2>2. CASE v[1] = pdindex
    <3>1. mapped[v] = NotPresent
      BY <1>0, <2>1, <2>2, Translation DEF Clear
    <3> QED
      BY <1>0, <2>2, <3>1 DEF IInv, TypeOK, UnmapDetaches
  <2>3. CASE v[1] # pdindex
    BY <2>1, <2>3, Translation DEF IInv, TypeOK, UnmapDetaches
  <2> QED
    BY <2>2, <2>3
<1>5. TablesAreOwned'
  BY DEF IInv, TypeOK, UnmapDetaches, TablesAreOwned, Single
<1>6. CacheAgrees'
  <2>1. ASSUME NEW s \in Slots, pde_cache[s] # NotPresent
        PROVE  pde_cache[s] = page_directory[s]
    BY <2>1 DEF IInv, CacheAgrees, UnmapDetaches
  <2>2. ASSUME NEW s \in Slots
        PROVE  page_directory'[s] = IF s = pdindex THEN NotPresent ELSE page_directory[s]
    BY DEF IInv, TypeOK, UnmapDetaches
  <2>3. ASSUME NEW s \in Slots, pde_cache[s] # NotPresent, s = pdindex
        PROVE  Clear(pde_cache[s])
    BY <1>0, <2>1, <2>3
  <2> QED
    BY <2>1, <2>2, <2>3 DEF CacheAgrees, Clear, UnmapDetaches
<1>7. TlbAgrees'
  BY DEF IInv, TypeOK, UnmapDetaches, TlbAgrees
<1>8. CallState'
  BY DEF IInv, TypeOK, UnmapDetaches, CallState, InMap, InUnmap, Clear
<1>9. TablesInUse'
  BY DEF IInv, TypeOK, UnmapDetaches, TablesInUse
<1> QED
  BY <1>1, <1>2, <1>3, <1>4, <1>5, <1>6, <1>7, <1>8, <1>9 DEF IInv

LEMMA VmmFlushTlbKeeps ==
  ASSUME IInv, vmm_flush_tlb
  PROVE  IInv'
<1> USE EntriesAssumption, FramesAssumption DEF Stopped, Pages, pdindex,
    ptindex, pt, pmm_vars, mmu_vars, tables, call, ghosts
<1>1. TypeOK'
  BY DEF IInv, TypeOK, vmm_flush_tlb, Pmm!TypeOK
<1>2. Pmm!Exclusive'
  BY DEF IInv, TypeOK, vmm_flush_tlb, Pmm!Exclusive, Pmm!PagesIn
<1>3. RunsExist'
  BY DEF IInv, TypeOK, vmm_flush_tlb, RunsExist, Pmm!PagesIn
<1>4. TablesSayWhatIsMapped'
  BY DEF IInv, TypeOK, vmm_flush_tlb, TablesSayWhatIsMapped
<1>5. TablesAreOwned'
  BY DEF IInv, TypeOK, vmm_flush_tlb, TablesAreOwned, Single
<1>6. CacheAgrees'
  BY DEF IInv, TypeOK, vmm_flush_tlb, CacheAgrees, Clear
<1>7. TlbAgrees'
  BY DEF IInv, TypeOK, vmm_flush_tlb, TlbAgrees
<1>8. CallState'
  BY DEF IInv, TypeOK, vmm_flush_tlb, CallState, InMap, InUnmap, Clear
<1>9. TablesInUse'
  BY DEF IInv, TypeOK, vmm_flush_tlb, TablesInUse
<1> QED
  BY <1>1, <1>2, <1>3, <1>4, <1>5, <1>6, <1>7, <1>8, <1>9 DEF IInv

LEMMA VmmUnmapKeeps ==
  ASSUME IInv, NEW v \in Pages, vmm_unmap(v)
  PROVE  IInv'
<1> USE EntriesAssumption, FramesAssumption DEF Stopped, Pages, pdindex,
    ptindex, pt, pmm_vars, mmu_vars, tables, call, ghosts
<1>1. TypeOK'
  BY DEF IInv, TypeOK, vmm_unmap, Pmm!TypeOK
<1>2. Pmm!Exclusive'
  BY DEF IInv, TypeOK, vmm_unmap, Pmm!Exclusive, Pmm!PagesIn
<1>3. RunsExist'
  BY DEF IInv, TypeOK, vmm_unmap, RunsExist, Pmm!PagesIn
<1>4. TablesSayWhatIsMapped'
  BY DEF IInv, TypeOK, vmm_unmap, TablesSayWhatIsMapped
<1>5. TablesAreOwned'
  BY DEF IInv, TypeOK, vmm_unmap, TablesAreOwned, Single
<1>6. CacheAgrees'
  BY DEF IInv, TypeOK, vmm_unmap, CacheAgrees, Clear
<1>7. TlbAgrees'
  BY DEF IInv, TypeOK, vmm_unmap, TlbAgrees
<1>8. CallState'
  BY DEF IInv, TypeOK, vmm_unmap, CallState, InMap, InUnmap, Clear
<1>9. TablesInUse'
  BY DEF IInv, TypeOK, vmm_unmap, TablesInUse
<1> QED
  BY <1>1, <1>2, <1>3, <1>4, <1>5, <1>6, <1>7, <1>8, <1>9 DEF IInv

LEMMA WalkKeeps ==
  ASSUME IInv, NEW v \in Pages, Walk(v)
  PROVE  IInv'
<1> USE EntriesAssumption, FramesAssumption DEF Stopped, Pages, pdindex,
    ptindex, pt, pmm_vars, mmu_vars, tables, call, ghosts
<1>0. PICK table \in TablesSeen(v[1]) :
        /\ pde_cache' = [pde_cache EXCEPT ![v[1]] = table]
        /\ tlb' = IF memory[table][v[2]] = NotPresent
                  THEN tlb
                  ELSE [tlb EXCEPT ![v] = memory[table][v[2]]]
        /\ UNCHANGED <<pmm_vars, tables, call, ghosts>>
  BY DEF Walk
<1>v. v[1] \in Slots /\ v[2] \in Entries
  BY PageFacts
<1>t. table \in Frames
  BY <1>0, <1>v DEF IInv, TypeOK, TablesSeen
<1>1. TypeOK'
  BY <1>0, <1>v, <1>t DEF IInv, TypeOK, Pmm!TypeOK
<1>2. Pmm!Exclusive'
  BY DEF IInv, TypeOK, Walk, TablesSeen, Pmm!Exclusive, Pmm!PagesIn
<1>3. RunsExist'
  BY DEF IInv, TypeOK, Walk, TablesSeen, RunsExist, Pmm!PagesIn
<1>4. TablesSayWhatIsMapped'
  BY DEF IInv, TypeOK, Walk, TablesSeen, TablesSayWhatIsMapped
<1>5. TablesAreOwned'
  BY DEF IInv, TypeOK, Walk, TablesSeen, TablesAreOwned, Single
<1>6. CacheAgrees'
  BY DEF IInv, TypeOK, Walk, TablesSeen, CacheAgrees, Clear
<1>7. TlbAgrees'
  <2>1. memory[table][v[2]] \in {NotPresent, mapped[v]}
    BY <1>0, RememberedTable
  <2>2. ASSUME NEW w \in Pages
        PROVE  tlb'[w] = tlb[w] \/ tlb'[w] \in {NotPresent, mapped[w]}
    BY <1>0, <2>1 DEF IInv, TypeOK
  <2> QED
    BY <1>0, <2>2 DEF IInv, TlbAgrees
<1>8. CallState'
  BY DEF IInv, TypeOK, Walk, TablesSeen, CallState, InMap, InUnmap, Clear
<1>9. TablesInUse'
  BY DEF IInv, TypeOK, Walk, TablesInUse
<1> QED
  BY <1>1, <1>2, <1>3, <1>4, <1>5, <1>6, <1>7, <1>8, <1>9 DEF IInv

LEMMA OwnersTakeKeeps ==
  ASSUME IInv, NEW run \in Pmm!Run, OwnersTake(run)
  PROVE  IInv'
<1> USE EntriesAssumption, FramesAssumption DEF Stopped, Pages, pdindex,
    ptindex, pt, pmm_vars, mmu_vars, tables, call, ghosts
<1>a. Pmm!TypeOK' /\ Pmm!Exclusive' /\ RunsExist'
  BY AllocKeeps DEF IInv, TypeOK, OwnersTake
<1>1. TypeOK'
  BY <1>a DEF IInv, TypeOK, OwnersTake
<1>2. Pmm!Exclusive'
  BY <1>a
<1>3. RunsExist'
  BY <1>a
<1>4. TablesSayWhatIsMapped'
  <2> SUFFICES ASSUME NEW v \in Pages
               PROVE  mapped'[v] = IF page_directory'[v[1]] = NotPresent
                                   THEN NotPresent
                                   ELSE memory'[page_directory'[v[1]]][v[2]]
    BY DEF TablesSayWhatIsMapped
  <2>1. v[1] \in Slots /\ v[2] \in Entries /\ v = <<v[1], v[2]>>
    BY PageFacts
  <2>2. ASSUME page_directory[v[1]] # NotPresent
        PROVE  memory'[page_directory[v[1]]] = memory[page_directory[v[1]]]
    <3>1. page_directory[v[1]] \in Frames /\ page_directory[v[1]] \notin free
      BY <2>1, <2>2, TableFacts, TablesAreNotFree DEF OwnersTake
    <3>2. page_directory[v[1]] \notin Pmm!PagesIn(run)
      BY <3>1 DEF OwnersTake, Pmm!Alloc
    <3> QED
      BY <3>1, <3>2 DEF OwnersTake
  <2> QED
    BY <2>2, Translation DEF OwnersTake
<1>5. TablesAreOwned'
  BY DEF IInv, TypeOK, OwnersTake, Pmm!Alloc, TablesAreOwned, Single
<1>6. CacheAgrees'
  BY DEF IInv, TypeOK, OwnersTake, Pmm!Alloc, CacheAgrees, Clear
<1>7. TlbAgrees'
  BY DEF IInv, TypeOK, OwnersTake, Pmm!Alloc, TlbAgrees
<1>8. CallState'
  BY DEF IInv, TypeOK, OwnersTake, Pmm!Alloc, CallState, InMap, InUnmap, Clear
<1>9. TablesInUse'
  BY DEF IInv, TypeOK, OwnersTake, TablesInUse
<1> QED
  BY <1>1, <1>2, <1>3, <1>4, <1>5, <1>6, <1>7, <1>8, <1>9 DEF IInv

LEMMA OwnersReturnKeeps ==
  ASSUME IInv, NEW run \in runs, OwnersReturn(run)
  PROVE  IInv'
<1> USE EntriesAssumption, FramesAssumption DEF Stopped, Pages, pdindex,
    ptindex, pt, pmm_vars, mmu_vars, tables, call, ghosts
<1>a. Pmm!TypeOK' /\ Pmm!Exclusive' /\ RunsExist'
  BY ReleaseKeeps DEF IInv, TypeOK, OwnersReturn
<1>1. TypeOK'
  BY <1>a DEF IInv, TypeOK, OwnersReturn
<1>2. Pmm!Exclusive'
  BY <1>a
<1>3. RunsExist'
  BY <1>a
<1>4. TablesSayWhatIsMapped'
  BY DEF IInv, TypeOK, OwnersReturn, Pmm!Release, TablesSayWhatIsMapped
<1>5. TablesAreOwned'
  <2>1. ASSUME NEW s \in Slots, page_directory[s] # NotPresent
        PROVE  Single(page_directory[s]) \in runs'
    <3>1. Single(page_directory[s]) # run
      BY <2>1 DEF OwnersReturn, TableFrames
    <3> QED
      BY <2>1, <3>1, TablesAreNotFree DEF OwnersReturn, Pmm!Release
  <2>2. ASSUME NEW s \in Slots, NEW u \in Slots, s # u,
               page_directory[s] # NotPresent
        PROVE  page_directory[s] # page_directory[u]
    BY <2>2, TableFacts
  <2> QED
    BY <2>1, <2>2 DEF TablesAreOwned, OwnersReturn, Single
<1>6. CacheAgrees'
  BY DEF IInv, TypeOK, OwnersReturn, Pmm!Release, CacheAgrees, Clear
<1>7. TlbAgrees'
  BY DEF IInv, TypeOK, OwnersReturn, Pmm!Release, TlbAgrees
<1>8. CallState'
  BY DEF IInv, TypeOK, OwnersReturn, Pmm!Release, CallState, InMap, InUnmap,
     Clear
<1>9. TablesInUse'
  BY DEF IInv, TypeOK, OwnersReturn, TablesInUse
<1> QED
  BY <1>1, <1>2, <1>3, <1>4, <1>5, <1>6, <1>7, <1>8, <1>9 DEF IInv

-----------------------------------------------------------------------------
LEMMA InitEstablishes == Init => IInv
<1> SUFFICES ASSUME Init
             PROVE  IInv
  OBVIOUS
<1>1. TypeOK
  BY EntriesAssumption DEF Init, TypeOK, Pmm!TypeOK
<1>2. Pmm!Exclusive /\ RunsExist
  BY DEF Init, Pmm!Exclusive, RunsExist
<1>3. TablesSayWhatIsMapped /\ TablesAreOwned
  BY PageFacts DEF Init, TablesSayWhatIsMapped, TablesAreOwned
<1>4. CacheAgrees /\ TlbAgrees
  BY DEF Init, CacheAgrees, TlbAgrees
<1>5. CallState
  BY DEF Init, CallState, InMap, InUnmap
<1>6. TablesInUse
  BY DEF Init, TablesInUse
<1> QED
  BY <1>1, <1>2, <1>3, <1>4, <1>5, <1>6 DEF IInv

LEMMA StutterKeeps ==
  ASSUME IInv, UNCHANGED vmm_vars
  PROVE  IInv'
<1> USE DEF vmm_vars, pmm_vars, mmu_vars, tables, call, ghosts
<1>1. TypeOK' /\ Pmm!Exclusive' /\ RunsExist'
  BY DEF IInv, TypeOK, Pmm!TypeOK, Pmm!Exclusive, RunsExist, Pmm!PagesIn
<1>2. TablesSayWhatIsMapped' /\ TablesAreOwned'
  BY DEF IInv, TablesSayWhatIsMapped, TablesAreOwned, pdindex, Single
<1>3. CacheAgrees' /\ TlbAgrees'
  BY DEF IInv, CacheAgrees, Clear, TlbAgrees, pdindex
<1>4. CallState'
  BY DEF IInv, CallState, InMap, InUnmap, Clear, pdindex, pt, Single
<1>5. TablesInUse'
  BY DEF IInv, TablesInUse, pdindex
<1> QED
  BY <1>1, <1>2, <1>3, <1>4, <1>5 DEF IInv

LEMMA NextKeeps == IInv /\ [Next]_vmm_vars => IInv'
<1> SUFFICES ASSUME IInv, [Next]_vmm_vars
             PROVE  IInv'
  OBVIOUS
<1>1. CASE UNCHANGED vmm_vars
  BY <1>1, StutterKeeps
<1>2. ASSUME NEW v \in Pages, NEW to \in Targets, vmm_map(to, v)
      PROVE  IInv'
  BY <1>2, VmmMapKeeps
<1>3. ASSUME NEW v \in Pages, vmm_unmap(v)
      PROVE  IInv'
  BY <1>3, VmmUnmapKeeps
<1>4. ASSUME NEW v \in Pages, Walk(v)
      PROVE  IInv'
  BY <1>4, WalkKeeps
<1>5. ASSUME NEW run \in Pmm!Run, OwnersTake(run)
      PROVE  IInv'
  BY <1>5, OwnersTakeKeeps
<1>6. ASSUME NEW run \in runs, OwnersReturn(run)
      PROVE  IInv'
  BY <1>6, OwnersReturnKeeps
<1>7. CASE CallStep
  <2>1. ASSUME NEW frame \in Frames, MapAllocates(frame)
        PROVE  IInv'
    BY <2>1, MapAllocatesKeeps
  <2> QED
    BY <1>7, <2>1, MapPanicsKeeps, MapFaultsKeeps, MapZeroesKeeps,
       MapPublishesKeeps, MapEntersKeeps, UnmapClearsKeeps,
       UnmapReleasesKeeps, UnmapDetachesKeeps, VmmFlushTlbKeeps DEF CallStep
<1> QED
  BY <1>1, <1>2, <1>3, <1>4, <1>5, <1>6, <1>7 DEF Next

LEMMA IInvHolds == Spec => []IInv
<1>1. Init => IInv
  BY InitEstablishes
<1>2. IInv /\ [Next]_vmm_vars => IInv'
  BY NextKeeps
<1> QED
  BY <1>1, <1>2, PTL DEF Spec

-----------------------------------------------------------------------------
(***************************************************************************)
(* The state of vmm.c is well typed; a page table, in particular, is       *)
(* always below four megabytes, where vmm.c can reach it.                  *)
(***************************************************************************)
THEOREM TypeCorrect == Spec => []TypeOK
<1>1. IInv => TypeOK
  BY DEF IInv
<1> QED
  BY <1>1, IInvHolds, PTL

(***************************************************************************)
(* Between any two memory accesses of vmm_map and vmm_unmap, the page      *)
(* tables translate each page to what callers mapped there.                *)
(***************************************************************************)
THEOREM TablesAreTrue == Spec => []TablesSayWhatIsMapped
<1>1. IInv => TablesSayWhatIsMapped
  BY DEF IInv
<1> QED
  BY <1>1, IInvHolds, PTL

(***************************************************************************)
(* Each directory entry points to an allocated frame of its own, except    *)
(* between pmm_free and the clearing of the entry in vmm_unmap.            *)
(***************************************************************************)
THEOREM TablesKeepTheirFrames == Spec => []TablesAreOwned
<1>1. IInv => TablesAreOwned
  BY DEF IInv
<1> QED
  BY <1>1, IInvHolds, PTL

(***************************************************************************)
(* When no call is in progress, each page table maps at least one page.    *)
(***************************************************************************)
THEOREM TablesAreWorthKeeping == Spec => []NoEmptyTable
<1>1. IInv => NoEmptyTable
  BY DEF IInv, TablesInUse, NoEmptyTable
<1> QED
  BY <1>1, IInvHolds, PTL

LEMMA IInvIsEnough == IInv => NothingStale
<1>1. ASSUME IInv, NEW v \in Pages, NEW entry \in Sees(v)
      PROVE  \/ entry = mapped[v]
             \/ v = virt /\ vmm_pc # "idle" /\ entry = was
  <2>1. CASE \E table \in TablesSeen(v[1]) : entry = memory[table][v[2]]
    BY <1>1, <2>1, RememberedTable DEF Sees
  <2>2. CASE entry = tlb[v]
    BY <1>1, <2>2 DEF Sees, IInv, TlbAgrees
  <2> QED
    BY <2>1, <2>2 DEF Sees
<1> QED
  BY <1>1 DEF NothingStale

(***************************************************************************)
(* The processor uses no translation that callers did not ask for, and     *)
(* none that they have given up, once the call has returned.               *)
(***************************************************************************)
THEOREM NothingStaleIsUsed == Spec => []NothingStale
BY IInvIsEnough, IInvHolds, PTL
=============================================================================
