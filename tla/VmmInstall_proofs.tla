------------------------- MODULE VmmInstall_proofs -------------------------
(***************************************************************************)
(* What VMM promises of vmm_map holds during vmm_install too, for every    *)
(* kernel and every frame buffer: vmm_install is one of VMM's              *)
(* callers.  And when vmm_install ends, it has mapped what it should and   *)
(* nothing else.                                                           *)
(*                                                                         *)
(* For the second, the invariant says which call of vmm_map each page of   *)
(* the address space was mapped by: the last of those that were about      *)
(* it.  What remains is a question about the layout: which page each loop  *)
(* comes to, and which of the loops that come to a page is the last.       *)
(***************************************************************************)
EXTENDS VmmInstall, VMM_proofs

\* Where the loops are.
LoopsAreInRange ==
  /\ layout \in Layouts
  /\ loop \in 1 .. 6
  /\ loop <= Frame => at \in Nat /\ From(layout, loop) <= at

LEMMA LoopsStayInRange == InstallSpec => []LoopsAreInRange
<1> USE LayoutsAssumption DEF Frame
<1>1. InstallInit => LoopsAreInRange
  <2> SUFFICES ASSUME InstallInit
               PROVE  LoopsAreInRange
    OBVIOUS
  <2>1. layout \in Layouts /\ loop = 1 /\ at = START
    BY DEF InstallInit
  <2>2. From(layout, 1) = START
    BY DEF From
  <2> QED
    BY <2>1, <2>2 DEF LoopsAreInRange
<1>2. LoopsAreInRange /\ [vmm_install]_install_vars => LoopsAreInRange'
  <2> SUFFICES ASSUME LoopsAreInRange, [vmm_install]_install_vars
               PROVE  LoopsAreInRange'
    OBVIOUS
  <2>1. CASE InstallMaps
    <3>1. layout' = layout /\ loop' = loop /\ at' = (at + PAGE_SIZE) % WORD /\ loop <= 5
      BY <2>1 DEF InstallMaps
    <3>2. From(layout, loop) \in Nat /\ From(layout, loop) <= at /\ at \in Nat
      BY <3>1 DEF LoopsAreInRange
    <3>3. To(layout, loop) \in Nat /\ To(layout, loop) + PAGE_SIZE <= WORD
      BY <3>1 DEF LoopsAreInRange
    <3>4. at + PAGE_SIZE < WORD
      BY <2>1, <3>2, <3>3 DEF InstallMaps, InLoop
    <3>5. at' = at + PAGE_SIZE
      BY <3>1, <3>2, <3>4
    <3>6. From(layout', loop') = From(layout, loop)
      BY <3>1
    <3> QED
      BY <3>1, <3>2, <3>5, <3>6 DEF LoopsAreInRange
  <2>2. CASE InstallGoesOn
    <3>1. layout' = layout /\ loop' = loop + 1 /\ loop <= 5
          /\ (loop < 5 => at' = From(layout, loop + 1))
      BY <2>2 DEF InstallGoesOn
    <3>2. ASSUME loop' <= 5
          PROVE  at' \in Nat /\ From(layout', loop') <= at'
      <4>1. loop + 1 \in 1 .. 5 /\ at' = From(layout, loop + 1)
        BY <3>1, <3>2 DEF LoopsAreInRange
      <4>2. From(layout, loop + 1) \in Nat
        BY <4>1 DEF LoopsAreInRange
      <4>3. From(layout', loop') = From(layout, loop + 1)
        BY <3>1
      <4> QED
        BY <4>1, <4>2, <4>3
    <3> QED
      BY <3>1, <3>2 DEF LoopsAreInRange
  <2>3. CASE UNCHANGED <<layout, loop, at>>
    <3>1. layout' = layout /\ loop' = loop /\ at' = at
      BY <2>3
    <3>2. From(layout', loop') = From(layout, loop)
      BY <3>1
    <3> QED
      BY <3>1, <3>2 DEF LoopsAreInRange
  <2> QED
    BY <2>1, <2>2, <2>3 DEF vmm_install, InstallStep, install_vars
<1> QED
  BY <1>1, <1>2, PTL DEF InstallSpec

(***************************************************************************)
(* A step of vmm_install is a step of VMM, or changes nothing there.       *)
(***************************************************************************)
LEMMA StepsAreVmms ==
  ASSUME LoopsAreInRange, [vmm_install]_install_vars
  PROVE  [Next]_vmm_vars
<1>1. CASE InstallMaps
  <2>1. loop \in 1 .. 5 /\ at < To(layout, loop) /\ at \in Nat
        /\ From(layout, loop) <= at /\ layout \in Layouts
    BY <1>1 DEF InstallMaps, InLoop, LoopsAreInRange, Frame
  <2>2. From(layout, loop) \in Nat /\ To(layout, loop) \in Nat
    BY <2>1, LayoutsAssumption
  <2>3. at \in From(layout, loop) .. (To(layout, loop) - 1)
    BY <2>1, <2>2
  <2>4. Virtual(loop, at) \in Pages /\ Entry(loop, at) \in Targets
    BY <2>1, <2>3, LayoutsAssumption
  <2>5. vmm_map(Entry(loop, at), Virtual(loop, at))
    BY <1>1 DEF InstallMaps
  <2> HIDE DEF Entry, Virtual
  <2> QED
    BY <2>4, <2>5 DEF Next
<1>2. CASE InstallGoesOn
  BY <1>2 DEF InstallGoesOn
<1>3. CASE CallStep
  BY <1>3 DEF Next
<1>4. CASE \E v \in Pages : Walk(v)
  BY <1>4 DEF Next
<1>5. CASE UNCHANGED install_vars
  BY <1>5 DEF install_vars
<1> QED
  BY <1>1, <1>2, <1>3, <1>4, <1>5 DEF vmm_install, InstallStep

(***************************************************************************)
(* While vmm_install builds the tables it is executed through, they        *)
(* translate at every instant what has been mapped so far and nothing      *)
(* else, no frame is shared, and no translation is stale (vmm.c:90-116).   *)
(***************************************************************************)
THEOREM InstallIsSafe ==
  InstallSpec => [](TypeOK /\ TablesSayWhatIsMapped /\ TablesAreOwned /\ NothingStale)
<1>1. InstallInit => IInv
  BY InitEstablishes DEF InstallInit
<1>2. LoopsAreInRange /\ IInv /\ [vmm_install]_install_vars => IInv'
  BY StepsAreVmms, NextKeeps
<1>3. IInv => TypeOK /\ TablesSayWhatIsMapped /\ TablesAreOwned /\ NothingStale
  BY IInvIsEnough DEF IInv
<1> QED
  BY <1>1, <1>2, <1>3, LoopsStayInRange, PTL DEF InstallSpec

-----------------------------------------------------------------------------
(***************************************************************************)
(* Quotients and remainders by any divisor.                                *)
(***************************************************************************)
LEMMA Parts ==
  ASSUME NEW x \in Int, NEW d \in Nat \ {0}
  PROVE  /\ x \div d \in Int /\ x % d \in 0 .. (d - 1)
         /\ x = (x \div d) * d + (x % d)
  OBVIOUS

\* Multiples grow by whole divisors.
LEMMA Monotone ==
  ASSUME NEW q \in Int, NEW s \in Int, NEW d \in Nat \ {0}, q < s
  PROVE  q * d + d <= s * d
<1>1. PICK k \in Nat : s = q + 1 + k
  BY s - q - 1 \in Nat
<1>2. s * d = q * d + d + k * d
  BY <1>1
<1>3. k * d \in Nat
  BY <1>1
<1> QED BY <1>2, <1>3

LEMMA Unique ==
  ASSUME NEW d \in Nat \ {0}, NEW q \in Int, NEW r \in 0 .. (d - 1),
         NEW s \in Int, NEW t \in 0 .. (d - 1), q * d + r = s * d + t
  PROVE  q = s /\ r = t
<1>1. ~(q < s)
  <2>1. SUFFICES ASSUME q < s PROVE FALSE OBVIOUS
  <2>2. q * d + d <= s * d BY <2>1, Monotone
  <2>3. q * d \in Int /\ s * d \in Int OBVIOUS
  <2> QED BY <2>2, <2>3
<1>2. ~(s < q)
  <2>1. SUFFICES ASSUME s < q PROVE FALSE OBVIOUS
  <2>2. s * d + d <= q * d BY <2>1, Monotone
  <2>3. q * d \in Int /\ s * d \in Int OBVIOUS
  <2> QED BY <2>2, <2>3
<1>3. q = s BY <1>1, <1>2
<1>4. q * d \in Int OBVIOUS
<1> QED BY <1>3, <1>4

LEMMA DivMod ==
  ASSUME NEW d \in Nat \ {0}, NEW q \in Int, NEW r \in 0 .. (d - 1)
  PROVE  (q * d + r) \div d = q /\ (q * d + r) % d = r
<1>1. q * d + r \in Int OBVIOUS
<1> QED BY <1>1, Parts, Unique

\* The order of addresses is that of pages, and within a page that of bytes.
LEMMA InOrder ==
  ASSUME NEW d \in Nat \ {0}, NEW q \in Int, NEW r \in 0 .. (d - 1),
         NEW s \in Int, NEW t \in 0 .. (d - 1)
  PROVE  q * d + r < s * d + t <=> (q < s \/ (q = s /\ r < t))
<1>0. q * d \in Int /\ s * d \in Int OBVIOUS
<1>1. CASE q < s
  <2>1. q * d + d <= s * d BY <1>1, Monotone
  <2> QED BY <1>0, <1>1, <2>1
<1>2. CASE s < q
  <2>1. s * d + d <= q * d BY <1>2, Monotone
  <2> QED BY <1>0, <1>2, <2>1
<1>3. CASE q = s
  BY <1>0, <1>3
<1> QED BY <1>1, <1>2, <1>3

-----------------------------------------------------------------------------
(***************************************************************************)
(* The calls of vmm_map: a loop and how often its body was executed        *)
(* before. Those made so far are Entered, but for the one that has not     *)
(* come to the assignment to the page table entry.                         *)
(***************************************************************************)
Calls == (1 .. Frame) \X Nat

AddressOf(c) == From(layout, c[1]) + (c[2] * PAGE_SIZE)
VirtualOf(c) == Virtual(c[1], AddressOf(c))
EntryOf(c)   == Entry(c[1], AddressOf(c))
IsMade(c)    == AddressOf(c) < To(layout, c[1])

\* What vmm_map executes before the assignment, or instead of it.
Underway == {"alloc", "zero", "publish", "enter"} \union Stopped

\* Of the loop that is executed, whose next call is its call number next.
EnteredCount(next) == IF vmm_pc \in Underway THEN next - 1 ELSE next

Entered(next) ==
  {c \in Calls :
     /\ IsMade(c)
     /\ c[1] < loop \/ (c[1] = loop /\ c[2] < EnteredCount(next))}

\* No later loop maps the same page.
IsLast(c, entered) ==
  \A other \in entered : VirtualOf(other) = VirtualOf(c) => other[1] <= c[1]

LastCallCounts(entered) ==
  \A v \in Pages :
    \/ mapped[v] = NotPresent /\ \A c \in entered : VirtualOf(c) # v
    \/ \E c \in entered :
         VirtualOf(c) = v /\ mapped[v] = EntryOf(c) /\ IsLast(c, entered)

(***************************************************************************)
(* The inductive invariant: the next call maps the page at the loop's      *)
(* variable, the call in progress is the one before it, and each page is   *)
(* mapped as the last call that was about it has asked for.                *)
(***************************************************************************)
Progress(next) ==
  /\ vmm_pc \in {"idle", "flush"} \union Underway
  /\ loop <= Frame => at = AddressOf(<<loop, next>>)
  /\ vmm_pc \in Underway =>
       /\ loop <= Frame /\ next > 0 /\ IsMade(<<loop, next - 1>>)
       /\ virt = VirtualOf(<<loop, next - 1>>) /\ target = EntryOf(<<loop, next - 1>>)
  /\ LastCallCounts(Entered(next))

CallsInv == \E next \in Nat : Progress(next)

\* A call that the loop makes comes before one with which it would end.
LEMMA CallsInOrder ==
  ASSUME LoopsAreInRange, NEW n \in 1 .. Frame, NEW k \in Nat, NEW j \in Nat,
         AddressOf(<<n, j>>) < To(layout, n), To(layout, n) <= AddressOf(<<n, k>>)
  PROVE  j < k
<1>1. From(layout, n) \in Nat /\ To(layout, n) \in Nat /\ PAGE_SIZE \in Nat \ {0}
  BY LayoutsAssumption DEF LoopsAreInRange, Frame
<1>2. PICK from \in Nat, to \in Nat : from = From(layout, n) /\ to = To(layout, n)
  BY <1>1
<1>3. from + (j * PAGE_SIZE) < to /\ to <= from + (k * PAGE_SIZE)
  BY <1>2 DEF AddressOf
<1>4. SUFFICES ASSUME k <= j
               PROVE  FALSE
  OBVIOUS
<1>5. k * PAGE_SIZE <= j * PAGE_SIZE
  <2>1. CASE k = j
    BY <1>1, <2>1
  <2>2. CASE k < j
    <3>1. (k * PAGE_SIZE) + PAGE_SIZE <= j * PAGE_SIZE
      BY <1>1, <2>2, Monotone
    <3> QED
      BY <1>1, <3>1
  <2> QED
    BY <1>4, <2>1, <2>2
<1>6. k * PAGE_SIZE \in Nat /\ j * PAGE_SIZE \in Nat
  BY <1>1
<1> QED
  BY <1>2, <1>3, <1>5, <1>6

LEMMA MapsKeepsCalls ==
  ASSUME LoopsAreInRange, NEW next \in Nat, Progress(next), InstallMaps
  PROVE  Progress(next + 1)'
<1>1. layout' = layout /\ loop' = loop /\ at' = (at + PAGE_SIZE) % WORD
      /\ loop \in 1 .. Frame /\ mapped' = mapped /\ vmm_pc = "idle"
      /\ vmm_pc' \in {"alloc", "enter"} /\ virt' = Virtual(loop, at)
      /\ target' = Entry(loop, at) /\ at < To(layout, loop)
  BY DEF InstallMaps, vmm_map, LoopsAreInRange, InLoop, ghosts, Frame
<1>2. at = AddressOf(<<loop, next>>)
  BY <1>1 DEF Progress
<1>3. PICK from \in Nat, to \in Nat :
        from = From(layout, loop) /\ to = To(layout, loop) /\ to + PAGE_SIZE <= WORD
  BY <1>1, LayoutsAssumption DEF LoopsAreInRange, Frame
<1>4. PAGE_SIZE \in Nat \ {0} /\ WORD \in Nat
  BY LayoutsAssumption
<1>5. at = from + (next * PAGE_SIZE) /\ at < to
  BY <1>1, <1>2, <1>3 DEF AddressOf
<1>6. next * PAGE_SIZE \in Nat /\ (next + 1) * PAGE_SIZE = (next * PAGE_SIZE) + PAGE_SIZE
  BY <1>4
<1>7. at' = at + PAGE_SIZE
  <2>1. at + PAGE_SIZE \in 0 .. (WORD - 1)
    BY <1>3, <1>4, <1>5, <1>6
  <2> QED
    BY <1>1, <1>4, <2>1
<1>8. at' = from + ((next + 1) * PAGE_SIZE)
  BY <1>4, <1>5, <1>6, <1>7
<1>9. AddressOf(<<loop, next + 1>>)' = at'
  BY <1>1, <1>3, <1>8 DEF AddressOf
<1>10. (next + 1) - 1 = next /\ next + 1 > 0
  OBVIOUS
<1>11. \A c : AddressOf(c)' = AddressOf(c)
  BY <1>1 DEF AddressOf
<1>12. \A c : VirtualOf(c)' = VirtualOf(c) /\ EntryOf(c)' = EntryOf(c)
                 /\ (IsMade(c)' <=> IsMade(c))
  BY <1>1, <1>11 DEF VirtualOf, EntryOf, IsMade
<1>13. Entered(next + 1)' = Entered(next)
  BY <1>1, <1>10, <1>12 DEF Entered, EnteredCount, Underway, Stopped
<1>14. LastCallCounts(Entered(next + 1))'
  <2>1. LastCallCounts(Entered(next))
    BY DEF Progress
  <2> QED
    BY <1>1, <1>12, <1>13, <2>1 DEF LastCallCounts, IsLast
<1>15. IsMade(<<loop, next>>) /\ virt' = VirtualOf(<<loop, next>>)
       /\ target' = EntryOf(<<loop, next>>)
  BY <1>1, <1>2 DEF IsMade, VirtualOf, EntryOf
<1>16. vmm_pc' \in {"idle", "flush"} \union Underway
  BY <1>1 DEF Underway
<1>17. IsMade(<<loop, (next + 1) - 1>>)' /\ virt' = VirtualOf(<<loop, (next + 1) - 1>>)'
       /\ target' = EntryOf(<<loop, (next + 1) - 1>>)'
  BY <1>1, <1>10, <1>12, <1>15
<1> QED
  BY <1>1, <1>9, <1>10, <1>14, <1>16, <1>17 DEF Progress

LEMMA GoesOnKeepsCalls ==
  ASSUME LoopsAreInRange, NEW next \in Nat, Progress(next), InstallGoesOn
  PROVE  Progress(0)'
<1>1. layout' = layout /\ loop' = loop + 1 /\ loop \in 1 .. Frame /\ mapped' = mapped
      /\ vmm_pc = "idle" /\ vmm_pc' = "idle" /\ ~(at < To(layout, loop))
      /\ (loop < Frame => at' = From(layout, loop + 1))
  BY DEF InstallGoesOn, LoopsAreInRange, InLoop, ghosts, vmm_vars, call, Frame
<1>2. at = AddressOf(<<loop, next>>)
  BY <1>1 DEF Progress
<1>3. \A c : AddressOf(c)' = AddressOf(c)
  BY <1>1 DEF AddressOf
<1>4. \A c : VirtualOf(c)' = VirtualOf(c) /\ EntryOf(c)' = EntryOf(c)
                /\ (IsMade(c)' <=> IsMade(c))
  BY <1>1, <1>3 DEF VirtualOf, EntryOf, IsMade
<1>5. To(layout, loop) \in Nat /\ at \in Nat
  BY <1>1, LayoutsAssumption DEF LoopsAreInRange, Frame
<1>6. \A k \in Nat : IsMade(<<loop, k>>) => k < next
  <2> SUFFICES ASSUME NEW k \in Nat, IsMade(<<loop, k>>)
               PROVE  k < next
    OBVIOUS
  <2>1. AddressOf(<<loop, k>>) < To(layout, loop)
    BY DEF IsMade
  <2>2. To(layout, loop) <= AddressOf(<<loop, next>>)
    BY <1>1, <1>2, <1>5
  <2> QED
    BY <1>1, <2>1, <2>2, CallsInOrder
<1>7. Entered(0)' = Entered(next)
  <2>1. ASSUME NEW c \in Calls, IsMade(c)
        PROVE  (c[1] < loop' \/ (c[1] = loop' /\ c[2] < EnteredCount(0)'))
               <=> (c[1] < loop \/ (c[1] = loop /\ c[2] < EnteredCount(next)))
    <3>1. c[1] \in 1 .. Frame /\ c[2] \in Nat /\ c = <<c[1], c[2]>>
      BY DEF Calls
    <3>2. EnteredCount(0)' = 0 /\ EnteredCount(next) = next
      BY <1>1 DEF EnteredCount, Underway, Stopped
    <3>3. c[1] = loop => c[2] < next
      BY <1>6, <2>1, <3>1
    <3> QED
      BY <1>1, <3>1, <3>2, <3>3 DEF Frame
  <2> QED
    BY <1>4, <2>1 DEF Entered
<1>8. LastCallCounts(Entered(0))'
  <2>1. LastCallCounts(Entered(next))
    BY DEF Progress
  <2> QED
    BY <1>1, <1>4, <1>7, <2>1 DEF LastCallCounts, IsLast
<1>9. ASSUME loop' <= Frame
      PROVE  at' = AddressOf(<<loop, 0>>)'
  <2>1. loop + 1 \in 1 .. 5 /\ PAGE_SIZE \in Nat
    BY <1>1, <1>9, LayoutsAssumption DEF Frame
  <2>2. From(layout, loop + 1) \in Nat
    BY <2>1, LayoutsAssumption DEF LoopsAreInRange
  <2>3. at' = From(layout, loop + 1)
    BY <1>1, <2>1 DEF Frame
  <2>4. AddressOf(<<loop, 0>>)' = From(layout, loop + 1) + (0 * PAGE_SIZE)
    BY <1>1 DEF AddressOf
  <2> QED
    BY <2>1, <2>2, <2>3, <2>4
<1>10. vmm_pc' \in {"idle", "flush"} \union Underway /\ ~(vmm_pc' \in Underway)
  BY <1>1 DEF Underway, Stopped
<1> QED
  BY <1>8, <1>9, <1>10 DEF Progress

LEMMA EntersKeepsCalls ==
  ASSUME LoopsAreInRange, NEW next \in Nat, Progress(next), MapEnters, IInv,
         UNCHANGED <<layout, loop, at>>
  PROVE  Progress(next)'
<1> DEFINE last == <<loop, next - 1>>
<1>1. layout' = layout /\ loop' = loop /\ at' = at /\ vmm_pc = "enter" /\ vmm_pc' = "flush"
      /\ mapped' = [mapped EXCEPT ![virt] = target]
  BY DEF MapEnters, SetMapped
<1>2. loop \in 1 .. Frame /\ next > 0 /\ IsMade(last) /\ virt = VirtualOf(last)
      /\ target = EntryOf(last)
  BY <1>1 DEF Progress, Underway, LoopsAreInRange, Frame
<1>3. last \in Calls
  BY <1>2 DEF Calls
<1>4. \A c : AddressOf(c)' = AddressOf(c)
  BY <1>1 DEF AddressOf
<1>5. \A c : VirtualOf(c)' = VirtualOf(c) /\ EntryOf(c)' = EntryOf(c)
                /\ (IsMade(c)' <=> IsMade(c))
  BY <1>1, <1>4 DEF VirtualOf, EntryOf, IsMade
<1>6. EnteredCount(next) = next - 1 /\ EnteredCount(next)' = next
  BY <1>1 DEF EnteredCount, Underway, Stopped
<1>7. Entered(next)' = Entered(next) \union {last}
  <2>1. ASSUME NEW c \in Calls
        PROVE  IsMade(c) /\ (c[1] < loop \/ (c[1] = loop /\ c[2] < next))
               <=> \/ c = last
                   \/ IsMade(c) /\ (c[1] < loop \/ (c[1] = loop /\ c[2] < next - 1))
    <3>1. c[1] \in 1 .. Frame /\ c[2] \in Nat /\ c = <<c[1], c[2]>>
      BY DEF Calls
    <3>2. c = last <=> c[1] = loop /\ c[2] = next - 1
      BY <3>1
    <3>3. c[2] < next <=> c[2] < next - 1 \/ c[2] = next - 1
      BY <3>1
    <3>4. last[1] = loop /\ last[2] = next - 1
      OBVIOUS
    <3> HIDE DEF last
    <3> QED
      BY <1>2, <3>1, <3>2, <3>3, <3>4
  <2> HIDE DEF last
  <2> QED
    BY <1>1, <1>3, <1>5, <1>6, <2>1 DEF Entered
<1>8. \A c \in Entered(next) : c[1] <= last[1]
  BY <1>2 DEF Entered, Calls, Frame
<1>9. virt \in Pages => mapped'[virt] = target
  BY <1>1 DEF IInv, TypeOK
<1>10. \A v \in Pages : v # virt => mapped'[v] = mapped[v]
  BY <1>1 DEF IInv, TypeOK
<1>11. LastCallCounts(Entered(next))'
  <2> DEFINE entered == Entered(next) \union {last}
  <2>0. last[1] <= last[1]
    BY <1>2 DEF Frame
  <2> HIDE DEF last
  <2>1. LastCallCounts(Entered(next))
    BY DEF Progress
  <2> SUFFICES ASSUME NEW v \in Pages
               PROVE  \/ mapped'[v] = NotPresent /\ \A c \in entered : VirtualOf(c) # v
                      \/ \E c \in entered :
                           VirtualOf(c) = v /\ mapped'[v] = EntryOf(c) /\ IsLast(c, entered)
    BY <1>1, <1>5, <1>7 DEF LastCallCounts, IsLast
  <2>2. CASE v = virt
    <3>1. IsLast(last, entered)
      BY <1>8, <2>0 DEF IsLast
    <3> QED
      BY <1>2, <1>9, <2>2, <3>1
  <2>3. CASE v # virt
    <3>1. VirtualOf(last) # v
      BY <1>2, <2>3
    <3>2. CASE mapped[v] = NotPresent /\ \A c \in Entered(next) : VirtualOf(c) # v
      BY <1>10, <2>3, <3>1, <3>2
    <3>3. ASSUME NEW c \in Entered(next), VirtualOf(c) = v,
                 mapped[v] = EntryOf(c), IsLast(c, Entered(next))
          PROVE  VirtualOf(c) = v /\ mapped'[v] = EntryOf(c) /\ IsLast(c, entered)
      BY <1>10, <2>3, <3>1, <3>3 DEF IsLast
    <3> QED
      BY <2>1, <3>2, <3>3 DEF LastCallCounts
  <2> QED
    BY <2>2, <2>3
<1>12. loop' <= Frame => at' = AddressOf(<<loop, next>>)'
  BY <1>1, <1>4 DEF Progress
<1>13. vmm_pc' \in {"idle", "flush"} \union Underway /\ ~(vmm_pc' \in Underway)
  BY <1>1 DEF Underway, Stopped
<1> QED
  BY <1>11, <1>12, <1>13 DEF Progress

LEMMA OthersKeepCalls ==
  ASSUME LoopsAreInRange, NEW next \in Nat, Progress(next),
         UNCHANGED <<layout, loop, at, mapped>>,
         \/ vmm_pc' \in Underway /\ vmm_pc \in Underway /\ UNCHANGED <<virt, target>>
         \/ vmm_pc' = "idle" /\ vmm_pc = "flush"
         \/ UNCHANGED <<vmm_pc, virt, target>>
  PROVE  Progress(next)'
<1>1. layout' = layout /\ loop' = loop /\ at' = at /\ mapped' = mapped
  OBVIOUS
<1>2. vmm_pc' \in {"idle", "flush"} \union Underway
  BY DEF Progress
<1>3. vmm_pc' \in Underway <=> vmm_pc \in Underway
  BY DEF Underway, Stopped
<1>4. \A c : AddressOf(c)' = AddressOf(c)
  BY <1>1 DEF AddressOf
<1>5. \A c : VirtualOf(c)' = VirtualOf(c) /\ EntryOf(c)' = EntryOf(c)
                /\ (IsMade(c)' <=> IsMade(c))
  BY <1>1, <1>4 DEF VirtualOf, EntryOf, IsMade
<1>6. Entered(next)' = Entered(next)
  BY <1>1, <1>3, <1>5 DEF Entered, EnteredCount
<1>7. LastCallCounts(Entered(next))'
  <2>1. LastCallCounts(Entered(next))
    BY DEF Progress
  <2> QED
    BY <1>1, <1>5, <1>6, <2>1 DEF LastCallCounts, IsLast
<1>8. loop' <= Frame => at' = AddressOf(<<loop, next>>)'
  BY <1>1, <1>4 DEF Progress
<1>9. ASSUME vmm_pc' \in Underway
      PROVE  /\ loop' <= Frame /\ next > 0 /\ IsMade(<<loop, next - 1>>)'
             /\ virt' = VirtualOf(<<loop, next - 1>>)' /\ target' = EntryOf(<<loop, next - 1>>)'
  <2>1. virt' = virt /\ target' = target
    BY <1>9 DEF Underway, Stopped
  <2> QED
    BY <1>1, <1>3, <1>5, <1>9, <2>1 DEF Progress
<1> QED
  BY <1>2, <1>7, <1>8, <1>9 DEF Progress

\* Between the calls nothing but vmm_map's own steps changes what is mapped.
LEMMA CallsAreKept == InstallSpec => []CallsInv
<1>1. InstallInit => CallsInv
  <2> SUFFICES ASSUME InstallInit
               PROVE  Progress(0)
    BY DEF CallsInv
  <2>1. vmm_pc = "idle" /\ loop = 1 /\ at = START /\ layout \in Layouts
        /\ mapped = [v \in Pages |-> NotPresent]
    BY DEF InstallInit, Init
  <2>2. at = AddressOf(<<loop, 0>>)
    <3>1. START \in Nat /\ PAGE_SIZE \in Nat
      BY LayoutsAssumption
    <3>2. From(layout, 1) = START
      BY DEF From, Frame
    <3>3. AddressOf(<<1, 0>>) = START + (0 * PAGE_SIZE)
      BY <3>2 DEF AddressOf
    <3> QED
      BY <2>1, <3>1, <3>3
  <2>3. EnteredCount(0) = 0
    BY <2>1 DEF EnteredCount, Underway, Stopped
  <2>4. Entered(0) = {}
    BY <2>1, <2>3 DEF Entered, Calls, Frame
  <2>5. LastCallCounts({})
    BY <2>1 DEF LastCallCounts
  <2> QED
    BY <2>1, <2>2, <2>4, <2>5 DEF Progress, Underway, Stopped
<1>2. LoopsAreInRange /\ IInv /\ CallsInv /\ [vmm_install]_install_vars => CallsInv'
  <2> SUFFICES ASSUME LoopsAreInRange, IInv, NEW next \in Nat, Progress(next),
                      [vmm_install]_install_vars
               PROVE  \E k \in Nat : Progress(k)'
    BY DEF CallsInv
  <2>1. CASE InstallMaps
    BY <2>1, MapsKeepsCalls, next + 1 \in Nat
  <2>2. CASE InstallGoesOn
    BY <2>2, GoesOnKeepsCalls
  <2>3. CASE MapEnters /\ UNCHANGED <<layout, loop, at>>
    BY <2>3, EntersKeepsCalls
  <2>4. ASSUME UNCHANGED <<layout, loop, at, mapped>>,
               \/ vmm_pc' \in Underway /\ vmm_pc \in Underway /\ UNCHANGED <<virt, target>>
               \/ vmm_pc' = "idle" /\ vmm_pc = "flush"
               \/ UNCHANGED <<vmm_pc, virt, target>>
        PROVE  Progress(next)'
    BY <2>4, OthersKeepCalls
  <2>5. CASE CallStep /\ UNCHANGED <<layout, loop, at>>
    <3>1. vmm_pc \in {"idle", "flush", "alloc", "zero", "publish", "enter", "panic", "fault"}
      BY DEF Progress, Underway, Stopped
    <3>2. ASSUME NEW frame \in Frames, MapAllocates(frame)
          PROVE  Progress(next)'
      BY <2>4, <2>5, <3>2 DEF MapAllocates, Underway, ghosts
    <3>3. CASE MapPanics
      BY <2>4, <2>5, <3>3 DEF MapPanics, Underway, ghosts, Stopped
    <3>4. CASE MapFaults
      BY <2>4, <2>5, <3>4 DEF MapFaults, Underway, ghosts, Stopped
    <3>5. CASE MapZeroes
      BY <2>4, <2>5, <3>5 DEF MapZeroes, Underway, ghosts
    <3>6. CASE MapPublishes
      BY <2>4, <2>5, <3>6 DEF MapPublishes, Underway, ghosts
    <3>7. CASE MapEnters
      BY <2>3, <2>5, <3>7
    <3>8. CASE vmm_flush_tlb
      BY <2>4, <2>5, <3>8 DEF vmm_flush_tlb
    <3>9. CASE UnmapClears \/ UnmapReleases \/ UnmapDetaches
      BY <3>1, <3>9 DEF UnmapClears, UnmapReleases, UnmapDetaches
    <3> QED
      BY <2>5, <3>2, <3>3, <3>4, <3>5, <3>6, <3>7, <3>8, <3>9 DEF CallStep
  <2>6. ASSUME NEW v \in Pages, Walk(v), UNCHANGED <<layout, loop, at>>
        PROVE  Progress(next)'
    BY <2>4, <2>6 DEF Walk, call, ghosts
  <2>7. CASE UNCHANGED install_vars
    BY <2>4, <2>7 DEF install_vars, vmm_vars, call, ghosts
  <2> QED
    BY <2>1, <2>2, <2>5, <2>6, <2>7 DEF vmm_install, InstallStep
<1>3. InstallInit => IInv
  BY InitEstablishes DEF InstallInit
<1>4. LoopsAreInRange /\ IInv /\ [vmm_install]_install_vars => IInv'
  BY StepsAreVmms, NextKeeps
<1> QED
  BY <1>1, <1>2, <1>3, <1>4, LoopsStayInRange, PTL DEF InstallSpec
-----------------------------------------------------------------------------
(***************************************************************************)
(* The pages a loop comes to: from the one its section begins in to the    *)
(* one it ends in, or to the one before, if there the byte to map at is    *)
(* beyond the end.                                                         *)
(***************************************************************************)
FromPage(n) == From(layout, n) \div PAGE_SIZE
FromByte(n) == From(layout, n) % PAGE_SIZE
ToPage(n)   == To(layout, n) \div PAGE_SIZE
ToByte(n)   == To(layout, n) % PAGE_SIZE

Visits(n, p) ==
  FromPage(n) <= p /\ (p < ToPage(n) \/ (p = ToPage(n) /\ FromByte(n) < ToByte(n)))

RightsAt(n, p) == IF TakenForData(n, p) THEN "write" ELSE Rights(n)

LEMMA LoopForm ==
  ASSUME layout \in Layouts, NEW n \in 1 .. 5
  PROVE  /\ PAGE_SIZE \in Nat \ {0}
         /\ From(layout, n) \in Nat /\ To(layout, n) \in Nat
         /\ FromPage(n) \in Nat /\ FromByte(n) \in 0 .. (PAGE_SIZE - 1)
         /\ ToPage(n) \in Nat /\ ToByte(n) \in 0 .. (PAGE_SIZE - 1)
         /\ From(layout, n) = (FromPage(n) * PAGE_SIZE) + FromByte(n)
         /\ To(layout, n) = (ToPage(n) * PAGE_SIZE) + ToByte(n)
<1>1. PAGE_SIZE \in Nat \ {0} /\ From(layout, n) \in Nat /\ To(layout, n) \in Nat
  BY LayoutsAssumption
<1>2. ASSUME NEW x \in Nat
      PROVE  /\ x \div PAGE_SIZE \in Nat /\ x % PAGE_SIZE \in 0 .. (PAGE_SIZE - 1)
             /\ x = ((x \div PAGE_SIZE) * PAGE_SIZE) + (x % PAGE_SIZE)
  <2>0. /\ x \div PAGE_SIZE \in Int /\ x % PAGE_SIZE \in 0 .. (PAGE_SIZE - 1)
        /\ x = ((x \div PAGE_SIZE) * PAGE_SIZE) + (x % PAGE_SIZE)
    <3>1. x \in Int
      OBVIOUS
    <3> QED
      BY ONLY <1>1, <3>1, Parts
  <2>1. PICK q \in Int : q = x \div PAGE_SIZE /\ x = (q * PAGE_SIZE) + (x % PAGE_SIZE)
    BY ONLY <2>0
  <2>2. ~(q < 0)
    <3>1. SUFFICES ASSUME q < 0
                   PROVE  FALSE
      OBVIOUS
    <3>2. (q * PAGE_SIZE) + PAGE_SIZE <= 0 * PAGE_SIZE
      BY <1>1, <3>1, Monotone
    <3>3. q * PAGE_SIZE \in Int
      BY <1>1
    <3>4. x % PAGE_SIZE < PAGE_SIZE /\ x % PAGE_SIZE \in Nat
      BY ONLY <1>1, <2>0
    <3> QED
      BY <1>1, <2>1, <3>2, <3>3, <3>4
  <2> QED
    BY ONLY <2>0, <2>1, <2>2
<1> QED
  BY <1>1, <1>2 DEF FromPage, FromByte, ToPage, ToByte

LEMMA LoopShape ==
  ASSUME layout \in Layouts, NEW n \in 1 .. 5
  PROVE  \E d \in Nat \ {0}, q \in Nat, r \in Nat, g \in Nat, t \in Nat :
           /\ d = PAGE_SIZE /\ q = FromPage(n) /\ r = FromByte(n)
           /\ g = ToPage(n) /\ t = ToByte(n)
           /\ r \in 0 .. (d - 1) /\ t \in 0 .. (d - 1)
           /\ From(layout, n) = (q * d) + r /\ To(layout, n) = (g * d) + t
<1>1. PAGE_SIZE \in Nat \ {0} /\ FromPage(n) \in Nat /\ FromByte(n) \in Nat
      /\ ToPage(n) \in Nat /\ ToByte(n) \in Nat
  BY LoopForm
<1> USE <1>1
<1> WITNESS PAGE_SIZE \in Nat \ {0}, FromPage(n) \in Nat, FromByte(n) \in Nat,
            ToPage(n) \in Nat, ToByte(n) \in Nat
<1> QED
  BY LoopForm

\* The loop's calls are about these pages, each at the same byte of it.
LEMMA CallPages ==
  ASSUME layout \in Layouts, NEW n \in 1 .. 5, NEW k \in Nat
  PROVE  /\ AddressOf(<<n, k>>) = ((FromPage(n) + k) * PAGE_SIZE) + FromByte(n)
         /\ AddressOf(<<n, k>>) \div PAGE_SIZE = FromPage(n) + k
         /\ IsMade(<<n, k>>) <=> Visits(n, FromPage(n) + k)
<1>1. PICK d \in Nat \ {0}, q \in Nat, r \in Nat, g \in Nat, t \in Nat :
        /\ d = PAGE_SIZE /\ q = FromPage(n) /\ r = FromByte(n)
        /\ g = ToPage(n) /\ t = ToByte(n)
        /\ r \in 0 .. (d - 1) /\ t \in 0 .. (d - 1)
        /\ From(layout, n) = (q * d) + r /\ To(layout, n) = (g * d) + t
  BY LoopShape
<1>2. (q + k) * d = (q * d) + (k * d)
  OBVIOUS
<1>3. q * d \in Nat /\ k * d \in Nat
  OBVIOUS
<1>4. AddressOf(<<n, k>>) = ((q + k) * d) + r
  BY <1>1, <1>2, <1>3 DEF AddressOf
<1>5. AddressOf(<<n, k>>) \div d = q + k
  <2>1. q + k \in Int /\ r \in 0 .. (d - 1)
    BY <1>1
  <2> QED
    BY ONLY <1>4, <2>1, DivMod, d \in Nat \ {0}
<1>6. AddressOf(<<n, k>>) < To(layout, n) <=> (q + k < g \/ (q + k = g /\ r < t))
  <2>1. q + k \in Int /\ g \in Int /\ r \in 0 .. (d - 1) /\ t \in 0 .. (d - 1)
        /\ To(layout, n) = (g * d) + t
    BY <1>1
  <2> QED
    BY ONLY <1>4, <2>1, InOrder, d \in Nat \ {0}
<1>7. q <= q + k
  OBVIOUS
<1> QED
  BY <1>1, <1>4, <1>5, <1>6, <1>7 DEF IsMade, Visits

LEMMA VisitedByCalls ==
  ASSUME layout \in Layouts, NEW n \in 1 .. 5, NEW p \in Int, Visits(n, p)
  PROVE  \E k \in Nat : p = FromPage(n) + k /\ IsMade(<<n, k>>)
<1>1. FromPage(n) \in Nat /\ FromPage(n) <= p
  BY LoopForm DEF Visits
<1>2. p - FromPage(n) \in Nat /\ p = FromPage(n) + (p - FromPage(n))
  BY <1>1
<1> QED
  BY <1>2, CallPages

\* ALIGN goes on to the next page, unless the address is the first of its page.
LEMMA AlignForm ==
  ASSUME NEW q \in Nat, NEW r \in 0 .. (PAGE_SIZE - 1)
  PROVE  ALIGN((q * PAGE_SIZE) + r) = (IF r = 0 THEN q ELSE q + 1) * PAGE_SIZE
<1>1. PAGE_SIZE \in Nat \ {0}
  BY LayoutsAssumption
<1>2. PICK d \in Nat \ {0} : d = PAGE_SIZE
  BY <1>1
<1>3. q * d \in Nat /\ (q + 1) * d = (q * d) + d
  OBVIOUS
<1>4. CASE r = 0
  <2>1. ((q * d) + r) + d - 1 = (q * d) + (d - 1) /\ d - 1 \in 0 .. (d - 1)
    BY <1>3, <1>4
  <2>2. (((q * d) + r) + d - 1) \div d = q
    BY <2>1, DivMod
  <2> QED
    BY <1>2, <1>4, <2>2 DEF ALIGN
<1>5. CASE r # 0
  <2>1. ((q * d) + r) + d - 1 = ((q + 1) * d) + (r - 1) /\ r - 1 \in 0 .. (d - 1)
    BY <1>2, <1>3, <1>5
  <2>2. (((q * d) + r) + d - 1) \div d = q + 1
    <3>1. (((q + 1) * d) + (r - 1)) \div d = q + 1
      BY ONLY <2>1, DivMod, d \in Nat \ {0}, q + 1 \in Int
    <3> QED
      BY ONLY <2>1, <3>1
  <2> QED
    BY <1>2, <1>5, <2>2 DEF ALIGN
<1> QED
  BY <1>4, <1>5

NextPage(page, byte) == IF byte = 0 THEN page ELSE page + 1

\* A section's loop begins where the section before ends, not where it begins.
LEMMA Joints ==
  ASSUME layout \in Layouts
  PROVE  /\ FromByte(1) = 0
         /\ \A n \in 1 .. 3 : FromPage(n + 1) = ToPage(n) /\ FromByte(n + 1) = ToByte(n)
         /\ \A n \in 1 .. 4 : NextPage(FromPage(n), FromByte(n)) <= ToPage(n)
<1>1. PAGE_SIZE \in Nat \ {0} /\ START \in Nat
  BY LayoutsAssumption
<1>2. PICK text \in Nat, rodata \in Nat, data \in Nat, bss \in Nat :
        text = layout.text /\ rodata = layout.rodata /\ data = layout.data /\ bss = layout.bss
  BY PagesAssumption
<1>3. From(layout, 1) = START
  BY DEF From, Frame
<1>4. FromByte(1) = 0
  BY <1>3, PagesAssumption DEF FromByte
<1>5. \A n \in 1 .. 3 : From(layout, n + 1) = To(layout, n)
  <2> TAKE n \in 1 .. 3
  <2>1. From(layout, n + 1) = Ends(layout)[n]
    BY n + 1 \in 2 .. 4, n + 1 # 1, n + 1 - 1 = n DEF From, Frame
  <2>2. To(layout, n) = Ends(layout)[n]
    BY n \in 1 .. 4 DEF To, Frame
  <2> QED
    BY <2>1, <2>2
<1>6. \A n \in 1 .. 3 : FromPage(n + 1) = ToPage(n) /\ FromByte(n + 1) = ToByte(n)
  BY <1>5 DEF FromPage, FromByte, ToPage, ToByte
<1>7. \A n \in 1 .. 4 : \E size \in Nat : To(layout, n) = ALIGN(From(layout, n)) + size
  <2>1. /\ To(layout, 1) = START + text
        /\ To(layout, 2) = ALIGN(To(layout, 1)) + rodata
        /\ To(layout, 3) = ALIGN(To(layout, 2)) + data
        /\ To(layout, 4) = ALIGN(To(layout, 3)) + bss
    BY <1>2 DEF To, Ends, Frame
  <2>2. ALIGN(From(layout, 1)) = START
    <3>1. From(layout, 1) = (FromPage(1) * PAGE_SIZE) + 0 /\ FromPage(1) \in Nat
      BY <1>4, LoopForm
    <3>2. 0 \in 0 .. (PAGE_SIZE - 1)
      BY <1>1
    <3>3. ALIGN(From(layout, 1)) = FromPage(1) * PAGE_SIZE
      BY <3>1, <3>2, AlignForm
    <3> QED
      BY <1>1, <1>3, <3>1, <3>3
  <2>3. From(layout, 2) = To(layout, 1) /\ From(layout, 3) = To(layout, 2)
        /\ From(layout, 4) = To(layout, 3)
    BY <1>5
  <2> QED
    BY <2>1, <2>2, <2>3
<1>8. ASSUME NEW n \in 1 .. 4
      PROVE  NextPage(FromPage(n), FromByte(n)) <= ToPage(n)
  <2>1. PICK d \in Nat \ {0}, q \in Nat, r \in Nat, g \in Nat, t \in Nat :
          /\ d = PAGE_SIZE /\ q = FromPage(n) /\ r = FromByte(n)
          /\ g = ToPage(n) /\ t = ToByte(n)
          /\ r \in 0 .. (d - 1) /\ t \in 0 .. (d - 1)
          /\ From(layout, n) = (q * d) + r /\ To(layout, n) = (g * d) + t
    BY n \in 1 .. 5, LoopShape
  <2>2. PICK c \in Nat : c = NextPage(q, r)
    BY DEF NextPage
  <2>3. ALIGN(From(layout, n)) = c * d
    <3>1. ALIGN((q * PAGE_SIZE) + r) = (IF r = 0 THEN q ELSE q + 1) * PAGE_SIZE
      BY <2>1, AlignForm
    <3> QED
      BY <2>1, <2>2, <3>1 DEF NextPage
  <2>4. PICK size \in Nat : To(layout, n) = (c * d) + size
    BY <1>7, <2>3
  <2>5. ~(g < c)
    <3>1. SUFFICES ASSUME g < c
                   PROVE  FALSE
      OBVIOUS
    <3>2. (g * d) + d <= c * d
      BY <3>1, Monotone
    <3>3. g * d \in Nat /\ c * d \in Nat
      OBVIOUS
    <3> QED
      BY <2>1, <2>4, <3>2, <3>3
  <2> QED
    BY <2>1, <2>2, <2>5
<1> QED
  BY <1>4, <1>6, <1>8

LEMMA PagesForm ==
  ASSUME layout \in Layouts, NEW n \in 1 .. 5
  PROVE  /\ FirstPage(n) = IF n = 5 THEN FromPage(n) ELSE NextPage(FromPage(n), FromByte(n))
         /\ LastPage(n) = IF ToByte(n) = 0 THEN ToPage(n) - 1 ELSE ToPage(n)
         /\ MissesLast(n) <=> n \in {4, 5} /\ ToByte(n) # 0 /\ ToByte(n) <= FromByte(n)
<1>1. PICK d \in Nat \ {0}, q \in Nat, r \in Nat, g \in Nat, t \in Nat :
        /\ d = PAGE_SIZE /\ q = FromPage(n) /\ r = FromByte(n)
        /\ g = ToPage(n) /\ t = ToByte(n)
        /\ r \in 0 .. (d - 1) /\ t \in 0 .. (d - 1)
        /\ From(layout, n) = (q * d) + r /\ To(layout, n) = (g * d) + t
  BY LoopShape
<1>2. FirstPage(n) = IF n = 5 THEN FromPage(n) ELSE NextPage(FromPage(n), FromByte(n))
  <2>1. CASE n = 5
    BY <2>1 DEF FirstPage, FromPage, Frame
  <2>2. CASE n # 5
    <3>1. ALIGN(From(layout, n)) = NextPage(q, r) * d
      <4>1. ALIGN((q * PAGE_SIZE) + r) = (IF r = 0 THEN q ELSE q + 1) * PAGE_SIZE
        BY <1>1, AlignForm
      <4> QED
        BY <1>1, <4>1 DEF NextPage
    <3>2. NextPage(q, r) \in Int /\ 0 \in 0 .. (d - 1)
      BY DEF NextPage
    <3>3. PICK c \in Int : c = NextPage(q, r)
      BY <3>2
    <3>4. (c * d) + 0 = c * d
      OBVIOUS
    <3>5. (c * d) \div d = c
      BY <3>2, <3>4, DivMod
    <3> QED
      BY <1>1, <2>2, <3>1, <3>3, <3>5 DEF FirstPage, Frame
  <2> QED
    BY <2>1, <2>2
<1>3. CASE t = 0
  <2>1. To(layout, n) - 1 = ((g - 1) * d) + (d - 1)
    <3>1. (g - 1) * d = (g * d) - d /\ g * d \in Nat
      OBVIOUS
    <3> QED
      BY <1>1, <1>3, <3>1
  <2>2. d - 1 \in 0 .. (d - 1) /\ g - 1 \in Int
    OBVIOUS
  <2>3. (To(layout, n) - 1) \div d = g - 1 /\ (To(layout, n) - 1) % d = d - 1
    BY <2>1, <2>2, DivMod
  <2>4. LastPage(n) = g - 1
    BY <1>1, <2>3 DEF LastPage
  <2>5. ~MissesLast(n)
    <3>1. ~(FromByte(n) > d - 1)
      BY <1>1
    <3> QED
      BY <1>1, <2>3, <3>1 DEF MissesLast, FromByte
  <2> QED
    BY <1>1, <1>2, <1>3, <2>4, <2>5
<1>4. CASE t # 0
  <2>1. To(layout, n) - 1 = (g * d) + (t - 1) /\ t - 1 \in 0 .. (d - 1)
    <3>1. g * d \in Nat
      OBVIOUS
    <3> QED
      BY <1>1, <1>4, <3>1
  <2>2. (To(layout, n) - 1) \div d = g /\ (To(layout, n) - 1) % d = t - 1
    BY ONLY <2>1, DivMod, d \in Nat \ {0}, g \in Int
  <2>3. LastPage(n) = g
    BY <1>1, <2>2 DEF LastPage
  <2>4. MissesLast(n) <=> n \in {4, 5} /\ t <= r
    <3>1. r > t - 1 <=> t <= r
      OBVIOUS
    <3> QED
      BY <1>1, <2>2, <3>1 DEF MissesLast, FromByte, Frame
  <2> QED
    BY <1>1, <1>2, <1>4, <2>3, <2>4
<1> QED
  BY <1>3, <1>4
(***************************************************************************)
(* The pages that a loop with the right to write comes to are those        *)
(* promised to be writable, and of the others those that some loop comes   *)
(* to are those promised to be read: what is left out at the end of one    *)
(* section is mapped by the next, .data's loop takes the last page of      *)
(* .rodata, and only .bss has no loop after it.                            *)
(***************************************************************************)
LEMMA KernelPages ==
  ASSUME layout \in Layouts, NEW p \in Nat
  PROVE  /\ Visits(3, p) \/ Visits(4, p)
            <=> \E n \in 1 .. 4 : p \in PagesOf(n) /\ RightsAt(n, p) = "write"
         /\ (Visits(1, p) \/ Visits(2, p)) /\ ~(Visits(3, p) \/ Visits(4, p))
            <=> \E n \in 1 .. 4 : p \in PagesOf(n) /\ RightsAt(n, p) = "read"
<1>1. PICK q0 \in Nat, q1 \in Nat, q2 \in Nat, q3 \in Nat, q4 \in Nat :
        /\ FromPage(1) = q0
        /\ ToPage(1) = q1 /\ ToPage(2) = q2 /\ ToPage(3) = q3 /\ ToPage(4) = q4
  <2>1. \A n \in 1 .. 5 : FromPage(n) \in Nat /\ ToPage(n) \in Nat
    BY LoopForm
  <2>2. /\ FromPage(1) \in Nat /\ ToPage(1) \in Nat
        /\ ToPage(2) \in Nat /\ ToPage(3) \in Nat /\ ToPage(4) \in Nat
    BY <2>1
  <2> QED
    BY ONLY <2>2
<1>2. PICK r1 \in Nat, r2 \in Nat, r3 \in Nat, r4 \in Nat :
        ToByte(1) = r1 /\ ToByte(2) = r2 /\ ToByte(3) = r3 /\ ToByte(4) = r4
  <2>1. \A n \in 1 .. 5 : ToByte(n) \in Nat
    BY LoopForm
  <2> QED
    BY <2>1
<1>3. /\ FromPage(2) = q1 /\ FromPage(3) = q2 /\ FromPage(4) = q3
      /\ FromByte(1) = 0 /\ FromByte(2) = r1 /\ FromByte(3) = r2 /\ FromByte(4) = r3
  BY <1>1, <1>2, Joints
<1>4. /\ q0 <= q1 /\ NextPage(q1, r1) <= q2 /\ NextPage(q2, r2) <= q3
      /\ NextPage(q3, r3) <= q4
  BY <1>1, <1>3, Joints DEF NextPage
<1>5. /\ Visits(1, p) <=> q0 <= p /\ (p < q1 \/ (p = q1 /\ 0 < r1))
      /\ Visits(2, p) <=> q1 <= p /\ (p < q2 \/ (p = q2 /\ r1 < r2))
      /\ Visits(3, p) <=> q2 <= p /\ (p < q3 \/ (p = q3 /\ r2 < r3))
      /\ Visits(4, p) <=> q3 <= p /\ (p < q4 \/ (p = q4 /\ r3 < r4))
  BY <1>1, <1>2, <1>3 DEF Visits
<1>6. /\ FirstPage(1) = q0 /\ FirstPage(2) = NextPage(q1, r1)
      /\ FirstPage(3) = NextPage(q2, r2) /\ FirstPage(4) = NextPage(q3, r3)
  BY <1>1, <1>3, PagesForm DEF NextPage
<1>7. /\ LastPage(1) = NextPage(q1, r1) - 1 /\ LastPage(2) = NextPage(q2, r2) - 1
      /\ LastPage(3) = NextPage(q3, r3) - 1 /\ LastPage(4) = NextPage(q4, r4) - 1
  <2>1. ASSUME NEW n \in 1 .. 5
        PROVE  LastPage(n) = NextPage(ToPage(n), ToByte(n)) - 1
    <3>1. ToPage(n) \in Nat
      BY LoopForm
    <3>2. LastPage(n) = IF ToByte(n) = 0 THEN ToPage(n) - 1 ELSE ToPage(n)
      BY PagesForm
    <3> QED
      BY <3>1, <3>2 DEF NextPage
  <2> QED
    BY <1>1, <1>2, <2>1
<1>8. /\ ~MissesLast(1) /\ ~MissesLast(2) /\ ~MissesLast(3)
      /\ MissesLast(4) <=> r4 # 0 /\ r4 <= r3
  BY <1>2, <1>3, PagesForm
<1>9. /\ p \in PagesOf(1) <=> q0 <= p /\ p < NextPage(q1, r1)
      /\ p \in PagesOf(2) <=> NextPage(q1, r1) <= p /\ p < NextPage(q2, r2)
      /\ p \in PagesOf(3) <=> NextPage(q2, r2) <= p /\ p < NextPage(q3, r3)
      /\ p \in PagesOf(4) <=>
           NextPage(q3, r3) <= p
           /\ p < (IF r4 # 0 /\ r4 <= r3 THEN NextPage(q4, r4) - 1 ELSE NextPage(q4, r4))
  BY <1>6, <1>7, <1>8 DEF PagesOf, NextPage
<1>10. /\ ~TakenForData(1, p) /\ ~TakenForData(3, p) /\ ~TakenForData(4, p)
       /\ TakenForData(2, p) <=> p = NextPage(q2, r2) - 1 /\ r2 # 0
  BY <1>2, <1>7 DEF TakenForData, ToByte
<1>11. /\ RightsAt(1, p) = "read" /\ RightsAt(3, p) = "write" /\ RightsAt(4, p) = "write"
       /\ RightsAt(2, p) = IF p = NextPage(q2, r2) - 1 /\ r2 # 0 THEN "write" ELSE "read"
  BY <1>10 DEF RightsAt, Rights
<1>12. Visits(3, p) \/ Visits(4, p)
       <=> \/ p \in PagesOf(2) /\ p = NextPage(q2, r2) - 1 /\ r2 # 0
           \/ p \in PagesOf(3) \/ p \in PagesOf(4)
  BY <1>4, <1>5, <1>9 DEF NextPage
<1>13. (Visits(1, p) \/ Visits(2, p)) /\ ~(Visits(3, p) \/ Visits(4, p))
       <=> \/ p \in PagesOf(1)
           \/ p \in PagesOf(2) /\ ~(p = NextPage(q2, r2) - 1 /\ r2 # 0)
  BY <1>4, <1>5, <1>9 DEF NextPage
<1>14. /\ (\E n \in 1 .. 4 : p \in PagesOf(n) /\ RightsAt(n, p) = "write")
          <=> \/ p \in PagesOf(2) /\ p = NextPage(q2, r2) - 1 /\ r2 # 0
              \/ p \in PagesOf(3) \/ p \in PagesOf(4)
       /\ (\E n \in 1 .. 4 : p \in PagesOf(n) /\ RightsAt(n, p) = "read")
          <=> \/ p \in PagesOf(1)
              \/ p \in PagesOf(2) /\ ~(p = NextPage(q2, r2) - 1 /\ r2 # 0)
  <2>1. \A n : n \in 1 .. 4 <=> n = 1 \/ n = 2 \/ n = 3 \/ n = 4
    OBVIOUS
  <2> QED
    BY <1>11, <2>1
<1> QED
  BY <1>12, <1>13, <1>14

LEMMA FramePages ==
  ASSUME layout \in Layouts, NEW p \in Nat
  PROVE  /\ Visits(5, p) <=> p \in PagesOf(5)
         /\ RightsAt(5, p) = "write"
<1>1. PICK q \in Nat, g \in Nat, r \in Nat, t \in Nat :
        q = FromPage(5) /\ g = ToPage(5) /\ r = FromByte(5) /\ t = ToByte(5)
  <2>1. FromByte(5) \in Nat /\ ToByte(5) \in Nat /\ FromPage(5) \in Nat /\ ToPage(5) \in Nat
    BY LoopForm
  <2> QED
    BY <2>1
<1>2. /\ FirstPage(5) = q /\ LastPage(5) = IF t = 0 THEN g - 1 ELSE g
      /\ MissesLast(5) <=> t # 0 /\ t <= r
  BY <1>1, PagesForm
<1>3. Visits(5, p) <=> q <= p /\ (p < g \/ (p = g /\ r < t))
  BY <1>1 DEF Visits
<1>4. p \in PagesOf(5) <=>
        q <= p /\ p <= (IF t # 0 /\ t <= r THEN LastPage(5) - 1 ELSE LastPage(5))
  <2>1. LastPage(5) \in Int
    BY <1>2
  <2> QED
    BY <1>1, <1>2, <2>1 DEF PagesOf
<1>5. RightsAt(5, p) = "write"
  BY DEF RightsAt, Rights, TakenForData
<1> QED
  BY <1>2, <1>3, <1>4, <1>5

LEMMA PagesOfAreNat ==
  ASSUME layout \in Layouts, NEW n \in 1 .. 5
  PROVE  PagesOf(n) \subseteq Nat
<1>1. FirstPage(n) \in Nat /\ LastPage(n) \in Int
  <2>1. FromPage(n) \in Nat /\ ToPage(n) \in Nat /\ FromPage(n) + 1 \in Nat
    BY LoopForm
  <2> QED
    BY <2>1, PagesForm DEF NextPage
<1> QED
  BY <1>1 DEF PagesOf
-----------------------------------------------------------------------------
(***************************************************************************)
(* Where pages are mapped: within the kernel and within the frame buffer,  *)
(* no two in the same place.                                               *)
(***************************************************************************)
PagesInWord == WORD \div PAGE_SIZE

LEMMA WordForm ==
  /\ PAGE_SIZE \in Nat \ {0} /\ EntryCount \in Nat \ {0}
  /\ PagesInWord \in Nat \ {0} /\ WORD = PagesInWord * PAGE_SIZE
  /\ \E q \in Int : START - HIGH = q * PAGE_SIZE
<1>1. PICK d \in Nat \ {0}, w \in Nat \ {0} : d = PAGE_SIZE /\ w = WORD
  BY LayoutsAssumption
<1>2. ASSUME NEW x \in Int, x % d = 0
      PROVE  x \div d \in Int /\ x = (x \div d) * d
  <2>1. x \div d \in Int /\ x = ((x \div d) * d) + (x % d)
    BY Parts
  <2>2. PICK q \in Int : q = x \div d
    BY <2>1
  <2> QED
    BY <1>2, <2>1, <2>2
<1>3. PICK q \in Int : q = w \div d /\ w = q * d
  BY <1>1, <1>2, PagesAssumption
<1>4. q > 0
  <2>1. SUFFICES ASSUME q < 1
                 PROVE  FALSE
    BY <1>3
  <2>2. (q * d) + d <= 1 * d
    BY <2>1, Monotone
  <2>3. q * d \in Int
    OBVIOUS
  <2> QED
    BY <1>3, <2>2, <2>3
<1>5. PICK s \in Int : START = s * d
  <2>1. START \in Int /\ START % d = 0
    BY <1>1, PagesAssumption, LayoutsAssumption
  <2> QED
    BY <1>2, <2>1
<1>6. PICK h \in Int : HIGH = h * d
  <2>1. HIGH \in Int /\ HIGH % d = 0
    BY <1>1, PagesAssumption, LayoutsAssumption
  <2> QED
    BY <1>2, <2>1
<1>7. START - HIGH = (s - h) * d
  BY <1>5, <1>6
<1> QED
  BY <1>1, <1>3, <1>4, <1>7, LayoutsAssumption DEF PagesInWord

\* The indices of a virtual page by its number.
Slot(page) == <<page \div EntryCount, page % EntryCount>>

LEMMA SlotFacts ==
  ASSUME NEW p \in Int, NEW s \in Int, Slot(p) = Slot(s)
  PROVE  p = s
<1>1. EntryCount \in Nat \ {0}
  BY LayoutsAssumption
<1>2. p \div EntryCount = s \div EntryCount /\ p % EntryCount = s % EntryCount
  BY DEF Slot
<1>3. p = ((p \div EntryCount) * EntryCount) + (p % EntryCount)
      /\ s = ((s \div EntryCount) * EntryCount) + (s % EntryCount)
  BY <1>1, Parts
<1> QED
  BY ONLY <1>2, <1>3

LEMMA PageInTable ==
  ASSUME NEW d \in Nat \ {0}, NEW m \in Nat, NEW r \in 0 .. (d - 1)
  PROVE  ((m * d) + r) \div (d * EntryCount) = m \div EntryCount
<1>1. PICK c \in Nat \ {0} : c = EntryCount
  BY LayoutsAssumption
<1>2. m \div c \in Int /\ m % c \in 0 .. (c - 1) /\ m = ((m \div c) * c) + (m % c)
  BY ONLY Parts, m \in Int, c \in Nat \ {0}
<1>3. PICK a \in Int, b \in 0 .. (c - 1) : a = m \div c /\ m = (a * c) + b
  BY ONLY <1>2
<1>4. m * d = (a * (d * c)) + (b * d)
  <2>1. ((a * c) + b) * d = ((a * c) * d) + (b * d)
    OBVIOUS
  <2>2. (a * c) * d = a * (d * c)
    OBVIOUS
  <2> QED
    BY ONLY <1>3, <2>1, <2>2
<1>5. (b * d) + r \in 0 .. ((d * c) - 1)
  <2>1. (b * d) + d <= c * d
    BY Monotone
  <2>2. b * d \in Nat /\ c * d \in Nat /\ c * d = d * c
    OBVIOUS
  <2> QED
    BY ONLY <2>1, <2>2, r \in 0 .. (d - 1), d \in Nat
<1>6. (m * d) + r = (a * (d * c)) + ((b * d) + r)
  <2>1. a * (d * c) \in Int /\ b * d \in Int
    OBVIOUS
  <2> QED
    BY ONLY <1>4, <2>1, r \in Int
<1>7. d * c \in Nat \ {0}
  <2>1. (0 * c) + c <= d * c
    BY Monotone
  <2>2. d * c \in Int
    OBVIOUS
  <2> QED
    BY ONLY <2>1, <2>2, c \in Nat \ {0}
<1>8. ((a * (d * c)) + ((b * d) + r)) \div (d * c) = a
  BY ONLY <1>5, <1>7, DivMod, a \in Int
<1> QED
  BY ONLY <1>1, <1>3, <1>6, <1>8

\* z is the virtual page's number.
LEMMA VirtualForm ==
  \E z \in [Int -> Int] :
    /\ \A n \in 1 .. 4 : \A p \in Int : \A r \in 0 .. (PAGE_SIZE - 1) :
         Virtual(n, (p * PAGE_SIZE) + r) = Slot(z[p])
    /\ \A p \in 0 .. (PagesInWord - 1), s \in 0 .. (PagesInWord - 1) :
         z[p] = z[s] => p = s
<1>1. PICK d \in Nat \ {0}, w \in Nat \ {0} :
        d = PAGE_SIZE /\ w = PagesInWord /\ WORD = w * d
  BY WordForm
<1>2. PICK o \in Int : START - HIGH = o * d
  BY <1>1, WordForm
<1> DEFINE z == [p \in Int |-> (p + o) % w]
<1>3. ASSUME NEW p \in Int
      PROVE  z[p] \in 0 .. (w - 1) /\ \E u \in Int : p + o = (u * w) + z[p]
  <2>1. p + o \in Int
    OBVIOUS
  <2>2. (p + o) \div w \in Int /\ (p + o) % w \in 0 .. (w - 1)
        /\ p + o = (((p + o) \div w) * w) + ((p + o) % w)
    BY ONLY <2>1, Parts, w \in Nat \ {0}
  <2>3. z[p] = (p + o) % w
    OBVIOUS
  <2> HIDE DEF z
  <2> QED
    BY ONLY <2>2, <2>3
<1>4. z \in [Int -> Int]
  BY <1>3
<1> HIDE DEF z
<1>5. ASSUME NEW n \in 1 .. 4, NEW p \in Int, NEW r \in 0 .. (d - 1)
      PROVE  Virtual(n, (p * d) + r) = Slot(z[p])
  <2>0. z[p] \in 0 .. (w - 1) /\ \E u \in Int : p + o = (u * w) + z[p]
    BY ONLY <1>3, p \in Int
  <2>1. PICK u \in Int : p + o = (u * w) + z[p]
    BY ONLY <2>0
  <2>2. PICK m \in Nat : m = z[p] /\ m <= w - 1
    BY ONLY <2>0, w \in Nat
  <2>3. (m * d) + r \in 0 .. ((w * d) - 1)
    <3>1. (m * d) + d <= w * d
      BY <2>2, Monotone
    <3>2. m * d \in Nat /\ w * d \in Nat
      OBVIOUS
    <3> QED
      BY <3>1, <3>2
  <2>4. ((p * d) + r) - HIGH + START = ((p + o) * d) + r
    <3>1. (p + o) * d = (p * d) + (o * d) /\ p * d \in Int
      OBVIOUS
    <3>2. HIGH \in Int /\ START \in Int
      BY LayoutsAssumption
    <3> QED
      BY <1>2, <3>1, <3>2
  <2>5. (p + o) * d = (u * (w * d)) + (m * d)
    <3>1. p + o = (u * w) + m
      BY <2>1, <2>2
    <3>2. ((u * w) + m) * d = ((u * w) * d) + (m * d)
      OBVIOUS
    <3>3. (u * w) * d = u * (w * d)
      OBVIOUS
    <3> QED
      BY ONLY <3>1, <3>2, <3>3
  <2>6. ((p + o) * d) + r = (u * (w * d)) + ((m * d) + r)
    <3>1. u * (w * d) \in Int /\ m * d \in Int
      OBVIOUS
    <3> QED
      BY <2>5, <3>1
  <2>7. w * d \in Nat \ {0}
    BY <1>1, LayoutsAssumption
  <2>8. ((u * (w * d)) + ((m * d) + r)) % (w * d) = (m * d) + r
    BY ONLY <2>3, <2>7, DivMod, u \in Int
  <2>9. (((p * d) + r) - HIGH + START) % WORD = (m * d) + r
    BY <1>1, <2>4, <2>6, <2>8
  <2>10. ((m * d) + r) \div d = m
    BY ONLY DivMod, d \in Nat \ {0}, m \in Int, r \in 0 .. (d - 1)
  <2>11. ((m * d) + r) \div (d * EntryCount) = m \div EntryCount
    BY ONLY PageInTable, d \in Nat \ {0}, m \in Nat, r \in 0 .. (d - 1)
  <2> QED
    BY <1>1, <2>2, <2>9, <2>10, <2>11 DEF Virtual, Slot, Frame
<1>6. ASSUME NEW p \in 0 .. (w - 1), NEW s \in 0 .. (w - 1), z[p] = z[s]
      PROVE  p = s
  <2>0. p \in Int /\ s \in Int
    OBVIOUS
  <2>1. PICK u \in Int : p + o = (u * w) + z[p]
    BY ONLY <1>3, <2>0
  <2>2. PICK t \in Int : s + o = (t * w) + z[s]
    BY ONLY <1>3, <2>0
  <2>3. (u * w) + s = (t * w) + p
    <3>1. z[p] \in Int /\ z[s] \in Int /\ u * w \in Int /\ t * w \in Int
      BY <1>3
    <3> QED
      BY <1>6, <2>1, <2>2, <3>1
  <2> QED
    BY ONLY <2>3, Unique, u \in Int, t \in Int, w \in Nat \ {0}, p \in 0 .. (w - 1),
            s \in 0 .. (w - 1)
<1> QED
  BY <1>1, <1>4, <1>5, <1>6
LEMMA FrameForm ==
  ASSUME NEW p \in Nat, NEW r \in 0 .. (PAGE_SIZE - 1)
  PROVE  Virtual(5, (p * PAGE_SIZE) + r) = Slot(p)
<1>1. PICK d \in Nat \ {0} : d = PAGE_SIZE
  BY LayoutsAssumption
<1>2. ((p * d) + r) \div d = p
  BY <1>1, DivMod
<1>3. ((p * d) + r) \div (d * EntryCount) = p \div EntryCount
  BY <1>1, PageInTable
<1> QED
  BY <1>1, <1>2, <1>3 DEF Virtual, Slot, Frame

-----------------------------------------------------------------------------
PageOf(c) == FromPage(c[1]) + c[2]

LEMMA CallForm ==
  ASSUME layout \in Layouts, NEW c \in Calls, IsMade(c)
  PROVE  /\ c[1] \in 1 .. 5 /\ PageOf(c) \in Nat /\ PageOf(c) \in 0 .. (PagesInWord - 1)
         /\ Visits(c[1], PageOf(c))
         /\ VirtualOf(c) = Virtual(c[1], PageOf(c) * PAGE_SIZE)
         /\ EntryOf(c) = [page |-> PageOf(c), rights |-> Rights(c[1])]
         /\ VirtualOf(c) \in Pages /\ EntryOf(c) # NotPresent
         /\ AddressOf(c) \in From(layout, c[1]) .. (To(layout, c[1]) - 1)
<1>1. PICK n \in 1 .. 5, k \in Nat : c = <<n, k>>
  BY DEF Calls, Frame
<1>2. c[1] = n /\ PageOf(c) = FromPage(n) + k
  BY <1>1 DEF PageOf
<1>3. FromPage(n) \in Nat /\ PageOf(c) \in Nat
  <2>1. FromPage(n) \in Nat
    BY LoopForm
  <2> QED
    BY <1>2, <2>1
<1>4. PICK p \in Nat : p = PageOf(c)
  BY <1>3
<1>5. PICK r \in 0 .. (PAGE_SIZE - 1) : r = FromByte(n)
  BY LoopForm
<1>6. AddressOf(c) = (p * PAGE_SIZE) + r /\ AddressOf(c) \div PAGE_SIZE = p
      /\ Visits(n, p)
  BY <1>1, <1>2, <1>4, <1>5, CallPages
<1>7. EntryOf(c) = [page |-> p, rights |-> Rights(n)]
  BY <1>2, <1>6 DEF EntryOf, Entry
<1>8. PAGE_SIZE \in Nat \ {0} /\ p * PAGE_SIZE \in Nat /\ 0 \in 0 .. (PAGE_SIZE - 1)
      /\ (p * PAGE_SIZE) + 0 = p * PAGE_SIZE
  <2>1. PICK d \in Nat \ {0} : d = PAGE_SIZE
    BY LayoutsAssumption
  <2> QED
    BY <2>1
<1>9. VirtualOf(c) = Virtual(n, p * PAGE_SIZE)
  <2>1. VirtualOf(c) = Virtual(n, (p * PAGE_SIZE) + r)
    BY <1>2, <1>6 DEF VirtualOf
  <2>2. CASE n = 5
    <3>1. Virtual(5, (p * PAGE_SIZE) + r) = Slot(p)
      BY FrameForm
    <3>2. Virtual(5, (p * PAGE_SIZE) + 0) = Slot(p)
      BY <1>8, FrameForm
    <3> QED
      BY <1>8, <2>1, <2>2, <3>1, <3>2
  <2>3. CASE n \in 1 .. 4
    <3>1. PICK z \in [Int -> Int] :
            \A m \in 1 .. 4 : \A q \in Int : \A s \in 0 .. (PAGE_SIZE - 1) :
              Virtual(m, (q * PAGE_SIZE) + s) = Slot(z[q])
      BY VirtualForm
    <3>2. Virtual(n, (p * PAGE_SIZE) + r) = Slot(z[p])
          /\ Virtual(n, (p * PAGE_SIZE) + 0) = Slot(z[p])
      <4>1. 0 \in 0 .. (PAGE_SIZE - 1) /\ r \in 0 .. (PAGE_SIZE - 1) /\ p \in Int
        BY <1>8
      <4> QED
        BY ONLY <2>3, <3>1, <4>1
    <3> QED
      BY <1>8, <2>1, <3>2
  <2> QED
    BY <2>2, <2>3
<1>10. From(layout, n) \in Nat /\ To(layout, n) \in Nat /\ To(layout, n) + PAGE_SIZE <= WORD
  BY LayoutsAssumption
<1>11. AddressOf(c) < To(layout, n)
  BY <1>2 DEF IsMade
<1>12. AddressOf(c) \in From(layout, n) .. (To(layout, n) - 1)
  <2>1. AddressOf(c) = From(layout, n) + (k * PAGE_SIZE)
    BY <1>1 DEF AddressOf
  <2>2. k * PAGE_SIZE \in Nat
    BY <1>8
  <2> QED
    BY <1>10, <1>11, <2>1, <2>2
<1>13. VirtualOf(c) \in Pages /\ EntryOf(c) \in Targets
  BY <1>2, <1>12, LayoutsAssumption DEF VirtualOf, EntryOf
<1>14. EntryOf(c) # NotPresent
  BY <1>13, EntriesAssumption
<1>15. p < PagesInWord
  <2>1. PICK d \in Nat \ {0}, w \in Nat : d = PAGE_SIZE /\ w = PagesInWord /\ WORD = w * d
    BY WordForm
  <2>2. (p * d) + r < (w * d) + 0
    <3>1. p * d \in Nat /\ w * d \in Nat
      OBVIOUS
    <3> QED
      BY <1>6, <1>10, <1>11, <2>1, <3>1
  <2>3. p < w \/ (p = w /\ r < 0)
    BY ONLY <1>5, <2>1, <2>2, InOrder, p \in Int, w \in Int, 0 \in 0 .. (d - 1)
  <2> QED
    BY <2>1, <2>3
<1>16. p \in 0 .. (PagesInWord - 1)
  BY <1>15, WordForm
<1> QED
  BY <1>2, <1>4, <1>6, <1>7, <1>9, <1>12, <1>13, <1>14, <1>16

\* Two calls about the same virtual page map the same page there.
LEMMA SamePage ==
  ASSUME layout \in Layouts,
         NEW c \in Calls, IsMade(c), NEW e \in Calls, IsMade(e), VirtualOf(c) = VirtualOf(e)
  PROVE  PageOf(c) = PageOf(e) /\ (c[1] = 5 <=> e[1] = 5)
<1>1. ~(c[1] # 5 /\ e[1] = 5)
  BY CallForm, PagesAssumption DEF VirtualOf, Frame
<1>2. ~(c[1] = 5 /\ e[1] # 5)
  BY CallForm, PagesAssumption DEF VirtualOf, Frame
<1>3. PICK p \in Nat, q \in Nat :
        /\ p = PageOf(c) /\ q = PageOf(e)
        /\ p \in 0 .. (PagesInWord - 1) /\ q \in 0 .. (PagesInWord - 1)
  BY CallForm
<1>4. 0 \in 0 .. (PAGE_SIZE - 1) /\ (p * PAGE_SIZE) + 0 = p * PAGE_SIZE
      /\ (q * PAGE_SIZE) + 0 = q * PAGE_SIZE
  <2>1. PICK d \in Nat \ {0} : d = PAGE_SIZE
    BY LayoutsAssumption
  <2> QED
    BY <2>1
<1>5. CASE c[1] = 5 /\ e[1] = 5
  <2>1. Slot(p) = Slot(q)
    BY <1>3, <1>4, <1>5, CallForm, FrameForm
  <2> QED
    BY <1>3, <1>5, <2>1, SlotFacts
<1>6. CASE c[1] # 5 /\ e[1] # 5
  <2>1. c[1] \in 1 .. 4 /\ e[1] \in 1 .. 4
    BY <1>6, CallForm
  <2>2. PICK z \in [Int -> Int] :
          /\ \A m \in 1 .. 4 : \A x \in Int : \A s \in 0 .. (PAGE_SIZE - 1) :
               Virtual(m, (x * PAGE_SIZE) + s) = Slot(z[x])
          /\ \A x \in 0 .. (PagesInWord - 1), y \in 0 .. (PagesInWord - 1) :
               z[x] = z[y] => x = y
    BY VirtualForm
  <2>3. Virtual(c[1], (p * PAGE_SIZE) + 0) = Slot(z[p])
        /\ Virtual(e[1], (q * PAGE_SIZE) + 0) = Slot(z[q])
    BY <1>4, <2>1, <2>2
  <2>4. Slot(z[p]) = Slot(z[q])
    BY <1>3, <1>4, <2>3, CallForm
  <2>5. z[p] = z[q]
    BY <2>4, SlotFacts
  <2> QED
    BY <1>3, <1>6, <2>2, <2>5
<1> QED
  BY <1>1, <1>2, <1>5, <1>6

LEMMA KernelIsOne ==
  ASSUME NEW n \in 1 .. 4, NEW m \in 1 .. 4, NEW p \in Nat
  PROVE  Virtual(n, p * PAGE_SIZE) = Virtual(m, p * PAGE_SIZE)
  BY DEF Virtual, Frame

\* When the last loop has ended, every call has been made.
LEMMA EndOfInstall ==
  ASSUME LoopsAreInRange, CallsInv, loop > Frame
  PROVE  AllMapped
<1>1. layout \in Layouts /\ loop = 6
  BY DEF LoopsAreInRange, Frame
<1>2. PICK next \in Nat : Progress(next)
  BY DEF CallsInv
<1>3. Entered(next) = {c \in Calls : IsMade(c)}
  <2>1. \A c \in Calls : c[1] < loop
    BY <1>1 DEF Calls, Frame
  <2> QED
    BY <2>1 DEF Entered
<1> DEFINE made == {c \in Calls : IsMade(c)}
<1>4. \A v \in Pages :
        \/ mapped[v] = NotPresent /\ \A c \in made : VirtualOf(c) # v
        \/ \E c \in made : VirtualOf(c) = v /\ mapped[v] = EntryOf(c) /\ IsLast(c, made)
  BY <1>2, <1>3 DEF Progress, LastCallCounts
<1>5. ASSUME NEW n \in 1 .. 5, NEW p \in Nat, Visits(n, p)
      PROVE  \E c \in made : c[1] = n /\ PageOf(c) = p
  <2>1. PICK k \in Nat : p = FromPage(n) + k /\ IsMade(<<n, k>>)
    BY <1>1, <1>5, VisitedByCalls
  <2>2. <<n, k>> \in made /\ <<n, k>>[1] = n /\ PageOf(<<n, k>>) = p
    BY <2>1 DEF Calls, Frame, PageOf
  <2> QED
    BY <2>2
<1>6. ASSUME NEW c \in made
      PROVE  /\ c \in Calls /\ IsMade(c) /\ c[1] \in 1 .. 5 /\ PageOf(c) \in Nat
             /\ Visits(c[1], PageOf(c)) /\ VirtualOf(c) \in Pages
             /\ VirtualOf(c) = Virtual(c[1], PageOf(c) * PAGE_SIZE)
             /\ EntryOf(c) = [page |-> PageOf(c), rights |-> Rights(c[1])]
             /\ EntryOf(c) # NotPresent
  BY <1>1, CallForm
<1> HIDE DEF made
<1>7. ASSUME NEW c \in made, IsLast(c, made), c[1] # 5
      PROVE  /\ c[1] \in 1 .. 4
             /\ Rights(c[1]) = "write" <=> Visits(3, PageOf(c)) \/ Visits(4, PageOf(c))
             /\ Rights(c[1]) = "read" <=>
                  /\ Visits(1, PageOf(c)) \/ Visits(2, PageOf(c))
                  /\ ~(Visits(3, PageOf(c)) \/ Visits(4, PageOf(c)))
  <2>1. PICK n \in 1 .. 4 : n = c[1]
    BY <1>6, <1>7
  <2>2. PICK p \in Nat : p = PageOf(c) /\ Visits(n, p)
    BY <1>6, <2>1
  <2>3. ASSUME NEW m \in 1 .. 4, Visits(m, p)
        PROVE  m <= n
    <3>1. PICK e \in made : e[1] = m /\ PageOf(e) = p
      BY <1>5, <2>3
    <3>2. VirtualOf(e) = VirtualOf(c)
      BY <1>6, <2>1, <2>2, <3>1, KernelIsOne
    <3> QED
      BY <1>7, <2>1, <3>1, <3>2 DEF IsLast
  <2>4. Rights(n) = IF n = 1 \/ n = 2 THEN "read" ELSE "write"
    BY DEF Rights
  <2>5. Visits(3, p) => n >= 3
    BY <2>3
  <2>6. Visits(4, p) => n >= 4
    BY <2>3
  <2>7. n = 1 \/ n = 2 \/ n = 3 \/ n = 4
    OBVIOUS
  <2> QED
    BY <2>1, <2>2, <2>4, <2>5, <2>6, <2>7
<1>8. ASSUME NEW v \in Pages, mapped[v] # NotPresent
      PROVE  \E n \in 1 .. 5 : \E p \in PagesOf(n) :
               v = Virtual(n, p * PAGE_SIZE)
               /\ mapped[v] = [page |-> p, rights |-> RightsAt(n, p)]
  <2>1. PICK c \in made : VirtualOf(c) = v /\ mapped[v] = EntryOf(c) /\ IsLast(c, made)
    BY <1>4, <1>8
  <2>2. PICK p \in Nat : p = PageOf(c) /\ Visits(c[1], p)
    BY <1>6
  <2>3. mapped[v] = [page |-> p, rights |-> Rights(c[1])]
        /\ v = Virtual(c[1], p * PAGE_SIZE)
    BY <1>6, <2>1, <2>2
  <2>4. CASE c[1] = 5
    <3>1. p \in PagesOf(5) /\ RightsAt(5, p) = "write" /\ Rights(5) = "write"
      BY <1>1, <2>2, <2>4, FramePages DEF Rights
    <3> QED
      BY <2>3, <2>4, <3>1
  <2>5. CASE c[1] # 5
    <3>1. c[1] \in 1 .. 4 /\ (Rights(c[1]) = "read" \/ Rights(c[1]) = "write")
      BY <1>7, <2>1, <2>5 DEF Rights
    <3>2. \E n \in 1 .. 4 : p \in PagesOf(n) /\ RightsAt(n, p) = Rights(c[1])
      BY <1>1, <1>7, <2>1, <2>2, <2>5, <3>1, KernelPages
    <3>3. PICK n \in 1 .. 4 : p \in PagesOf(n) /\ RightsAt(n, p) = Rights(c[1])
      BY <3>2
    <3>4. v = Virtual(n, p * PAGE_SIZE)
      BY <2>3, <3>1, KernelIsOne
    <3>5. n \in 1 .. 5
      OBVIOUS
    <3> QED
      BY <2>3, <3>3, <3>4, <3>5
  <2> QED
    BY <2>4, <2>5
<1>9. ASSUME NEW n \in 1 .. 5, NEW p \in PagesOf(n)
      PROVE  /\ Virtual(n, p * PAGE_SIZE) \in Pages
             /\ mapped[Virtual(n, p * PAGE_SIZE)] = [page |-> p, rights |-> RightsAt(n, p)]
             /\ mapped[Virtual(n, p * PAGE_SIZE)] # NotPresent
  <2>1. p \in Nat
    BY <1>1, PagesOfAreNat
  <2>2. \E m \in 1 .. 5 : Visits(m, p) /\ (m = 5 <=> n = 5)
    <3>1. CASE n = 5
      BY <1>1, <2>1, <3>1, FramePages
    <3>2. CASE n \in 1 .. 4
      <4>1. RightsAt(n, p) = "read" \/ RightsAt(n, p) = "write"
        BY DEF RightsAt, Rights
      <4>2. Visits(1, p) \/ Visits(2, p) \/ Visits(3, p) \/ Visits(4, p)
        BY <1>1, <2>1, <3>2, <4>1, KernelPages
      <4> QED
        BY <3>2, <4>2
    <3> QED
      BY <3>1, <3>2
  <2>3. PICK m \in 1 .. 5 : Visits(m, p) /\ (m = 5 <=> n = 5)
    BY <2>2
  <2>4. PICK e \in made : e[1] = m /\ PageOf(e) = p
    BY <1>5, <2>1, <2>3
  <2>5. VirtualOf(e) = Virtual(n, p * PAGE_SIZE)
    <3>1. VirtualOf(e) = Virtual(m, p * PAGE_SIZE)
      BY <1>6, <2>4
    <3>2. CASE n = 5
      BY <2>3, <3>1, <3>2
    <3>3. CASE n # 5
      <4>1. n \in 1 .. 4 /\ m \in 1 .. 4
        BY <2>3, <3>3
      <4> QED
        BY <2>1, <3>1, <4>1, KernelIsOne
    <3> QED
      BY <3>2, <3>3
  <2>6. PICK v \in Pages : v = VirtualOf(e)
    BY <1>6
  <2>7. PICK c \in made : VirtualOf(c) = v /\ mapped[v] = EntryOf(c) /\ IsLast(c, made)
    BY <1>4, <2>6
  <2>8. PageOf(c) = p /\ (c[1] = 5 <=> n = 5)
    BY <1>1, <1>6, <2>3, <2>4, <2>6, <2>7, SamePage
  <2>9. mapped[v] = [page |-> p, rights |-> Rights(c[1])] /\ mapped[v] # NotPresent
    BY <1>6, <2>7, <2>8
  <2>10. Rights(c[1]) = RightsAt(n, p)
    <3>1. CASE n = 5
      BY <1>1, <2>1, <2>8, <3>1, FramePages DEF Rights
    <3>2. CASE n # 5
      <4>1. n \in 1 .. 4 /\ (RightsAt(n, p) = "read" \/ RightsAt(n, p) = "write")
        BY <3>2 DEF RightsAt, Rights
      <4> QED
        BY <1>1, <1>7, <2>1, <2>7, <2>8, <3>2, <4>1, KernelPages
    <3> QED
      BY <3>1, <3>2
  <2> QED
    BY <2>5, <2>6, <2>9, <2>10
<1>10. {<<v, mapped[v]>> : v \in {v \in Pages : mapped[v] # NotPresent}} = Promised
  <2>1. Promised = UNION {{<<Virtual(n, p * PAGE_SIZE), [page |-> p, rights |-> RightsAt(n, p)]>> :
                             p \in PagesOf(n)} : n \in 1 .. 5}
    BY Zenon DEF Promised, RightsAt, Frame
  <2> HIDE DEF Promised
  <2>2. ASSUME NEW v \in Pages, mapped[v] # NotPresent
        PROVE  <<v, mapped[v]>> \in Promised
    BY <1>8, <2>1, <2>2
  <2>3. ASSUME NEW pair \in Promised
        PROVE  \E v \in Pages : mapped[v] # NotPresent /\ pair = <<v, mapped[v]>>
    <3>1. PICK n \in 1 .. 5 : \E p \in PagesOf(n) :
            pair = <<Virtual(n, p * PAGE_SIZE), [page |-> p, rights |-> RightsAt(n, p)]>>
      BY <2>1
    <3>2. PICK p \in PagesOf(n) :
            pair = <<Virtual(n, p * PAGE_SIZE), [page |-> p, rights |-> RightsAt(n, p)]>>
      BY <3>1
    <3> QED
      BY <1>9, <3>2
  <2> QED
    BY <2>2, <2>3
<1> QED
  BY <1>10 DEF AllMapped

(***************************************************************************)
(* When vmm_install ends, each page of each section and of the frame       *)
(* buffer is mapped where it belongs with the rights it is given, as       *)
(* AllMapped says, and nothing else is mapped (vmm.c:100-113): for every   *)
(* size of the sections and every frame buffer.  SectionsAreMapped says    *)
(* that it ends, too.                                                      *)
(***************************************************************************)
THEOREM InstallMapsAll == InstallSpec => [](loop > Frame => AllMapped)
<1>1. LoopsAreInRange /\ CallsInv => (loop > Frame => AllMapped)
  BY EndOfInstall
<1> QED
  BY <1>1, LoopsStayInRange, CallsAreKept, PTL
=============================================================================
