---------------------------- MODULE Acpi_proofs ----------------------------
(***************************************************************************)
(* Proofs about Acpi, for whatever the firmware has left in memory: a root *)
(* table and a MADT of any length, lists of any length.                    *)
(***************************************************************************)
EXTENDS Acpi, WellFoundedInduction, TLAPS

Walking == pc \in {"walk", "installed"}

\* No table that acpi_find_table has passed is a MADT; of an XSDT it never
\* passes more than the first word.
SearchState ==
  /\ pc \in {"probe", "root"} => i = 0
  /\ pc = "find" =>
       /\ i <= Entries
       /\ acpi_use_xsdt => i \in {0, 1}
       /\ \A t \in 1 .. i : t \notin Madts

\* madt_init is at the beginning of an entry, and has left none of length
\* zero behind it.
WalkState ==
  /\ ~Walking => k = 1 /\ ioapics = <<>> /\ isos = <<>> /\ lapic_addr = 0
  /\ Walking => i = Offset(machine, k)
  /\ \A n \in 1 .. (k - 1) : machine.entries[n].length > 0
  /\ pc = "installed" => k > machine.own

\* A list begins with the entries of the table that the walk has passed; no
\* others have been added to it before the end of the table.
Collected(m, entry, type, list) ==
  \E count \in 0 .. Len(list) :
    /\ {list[p] : p \in 1 .. count} = {n \in Own(m, type) : n < entry}
    /\ \A p, q \in 1 .. count : p < q => list[p] < list[q]
    /\ entry <= m.own => count = Len(list)

ListsState ==
  /\ Collected(machine, k, Ioapic, ioapics)
  /\ Collected(machine, k, Iso, isos)
  /\ \A n \in Own(machine, LapicAddr) : n < k => lapic_addr >= n

IInv ==
  /\ TypeOK
  /\ SearchState
  /\ LookupIsRight
  /\ WalkState
  /\ ListsState

-----------------------------------------------------------------------------
(***************************************************************************)
(* The entries of a machine.                                               *)
(***************************************************************************)
LEMMA MachineFacts ==
  ASSUME NEW m \in Machines
  PROVE  /\ m.rsdps \subseteq 0 .. (Paragraphs - 1)
         /\ Len(m.tables) \in Nat /\ m.tables \in [1 .. Len(m.tables) -> Table]
         /\ Len(m.entries) \in Nat
         /\ m.entries \in [1 .. Len(m.entries) -> Entry]
         /\ \A n \in 1 .. Len(m.entries) : m.entries[n].at = Offset(m, n)
         /\ m.own \in 0 .. Len(m.entries)
         /\ \A n \in 1 .. m.own : m.entries[n].length >= 2
         /\ Described(m)
<1>1. m.tables \in Seq(Table) /\ m.entries \in Seq(Entry)
  BY MachinesAssumption
<1>2. /\ DOMAIN m.entries = 1 .. Len(m.entries)
      /\ Len(m.tables) \in Nat /\ m.tables \in [1 .. Len(m.tables) -> Table]
      /\ Len(m.entries) \in Nat /\ m.entries \in [1 .. Len(m.entries) -> Entry]
  BY <1>1
<1> QED
  BY <1>2, MachinesAssumption

LEMMA OffsetFacts ==
  ASSUME NEW m \in Machines
  PROVE  /\ Offset(m, 1) = 0
         /\ \A n \in 1 .. (Len(m.entries) + 1) : Offset(m, n) \in Nat
         /\ \A n \in 1 .. Len(m.entries) :
              Offset(m, n + 1) = Offset(m, n) + m.entries[n].length
<1>1. /\ Len(m.entries) \in Nat /\ m.entries \in [1 .. Len(m.entries) -> Entry]
      /\ \A n \in 1 .. Len(m.entries) : m.entries[n].at = Offset(m, n)
  BY MachineFacts
<1>2. ASSUME NEW n \in 1 .. Len(m.entries)
      PROVE  Offset(m, n + 1) = Offset(m, n) + m.entries[n].length
  <2>1. n + 1 # 1 /\ (n + 1) - 1 = n
    BY <1>1
  <2>2. Offset(m, n + 1) = m.entries[n].at + m.entries[n].length
    BY <2>1 DEF Offset
  <2> QED
    BY <1>1, <2>2
<1>3. ASSUME NEW n \in 1 .. (Len(m.entries) + 1)
      PROVE  Offset(m, n) \in Nat
  <2>1. CASE n = 1
    BY <2>1 DEF Offset
  <2>2. CASE n # 1
    <3>1. n - 1 \in 1 .. Len(m.entries)
      BY <1>1, <2>2
    <3>2. m.entries[n - 1] \in Entry
      BY <1>1, <3>1
    <3>3. m.entries[n - 1].at \in Nat /\ m.entries[n - 1].length \in Nat
      BY <3>2 DEF Entry
    <3> QED
      BY <2>2, <3>3 DEF Offset
  <2> QED
    BY <2>1, <2>2
<1>4. Offset(m, 1) = 0
  BY DEF Offset
<1> QED
  BY <1>2, <1>3, <1>4

\* Entries follow one another.
LEMMA OffsetsGrow ==
  ASSUME NEW m \in Machines,
         NEW first \in 1 .. (Len(m.entries) + 1),
         NEW last \in first .. (Len(m.entries) + 1)
  PROVE  Offset(m, first) <= Offset(m, last)
<1> DEFINE wrong == {n \in first .. (Len(m.entries) + 1) :
                       ~(Offset(m, first) <= Offset(m, n))}
<1>1. Len(m.entries) \in Nat /\ m.entries \in [1 .. Len(m.entries) -> Entry]
  BY MachineFacts
<1>2. SUFFICES ASSUME wrong # {}
               PROVE  FALSE
  OBVIOUS
<1>3. wrong \in SUBSET Nat
  BY <1>1
<1>4. PICK n \in wrong : \A o \in wrong : n <= o
  <2>1. PICK n \in wrong : \A o \in wrong : <<o, n>> \notin OpToRel(<, Nat)
    BY <1>2, <1>3, NatLessThanWellFounded, WFMin
  <2>2. \A o \in wrong : ~(o < n)
    BY <1>3, <2>1 DEF OpToRel
  <2> HIDE DEF wrong
  <2> QED
    BY <1>3, <2>2
<1>5. n # first /\ n \in first .. (Len(m.entries) + 1)
  BY <1>4, OffsetFacts
<1>6. n - 1 \in first .. (Len(m.entries) + 1) /\ n - 1 \in 1 .. Len(m.entries)
      /\ (n - 1) + 1 = n /\ ~(n <= n - 1)
  BY <1>1, <1>5
<1>7. n - 1 \notin wrong
  BY <1>4, <1>6
<1>8. Offset(m, first) <= Offset(m, n - 1)
  BY <1>6, <1>7
<1>9. Offset(m, n) = Offset(m, n - 1) + m.entries[n - 1].length
  BY <1>6, OffsetFacts
<1>10. m.entries[n - 1].length \in Nat
  BY <1>1, <1>6 DEF Entry
<1>11. /\ Offset(m, first) \in Nat /\ Offset(m, n - 1) \in Nat
       /\ Offset(m, n) \in Nat
  BY <1>1, <1>5, <1>6, OffsetFacts
<1>12. Offset(m, first) <= Offset(m, n)
  BY <1>8, <1>9, <1>10, <1>11
<1> QED
  BY <1>4, <1>12

\* Where the walk ends it is behind the table, and it ends within what is
\* described of the memory.
LEMMA WalkFacts ==
  ASSUME IInv, pc = "walk"
  PROVE  /\ ~WalkGoesOn => k > machine.own
         /\ WalkGoesOn => k \in 1 .. Len(machine.entries)
<1> DEFINE size == Len(machine.entries)
<1>1. /\ machine \in Machines /\ k \in 1 .. (size + 1) /\ i = Offset(machine, k)
      /\ \A n \in 1 .. (k - 1) : machine.entries[n].length > 0
  BY DEF IInv, TypeOK, WalkState, Walking
<1>2. /\ size \in Nat /\ machine.own \in 0 .. size /\ Described(machine)
      /\ machine.entries \in [1 .. size -> Entry]
  BY <1>1, MachineFacts
<1>3. machine.own + 1 \in 1 .. (size + 1)
  BY <1>2
<1>4. PICK end \in Nat : end = Offset(machine, machine.own + 1)
  BY <1>1, <1>3, OffsetFacts
<1>5. Length = MADT + end
  BY <1>4 DEF Length
<1>6. i \in Nat
  BY <1>1, OffsetFacts
<1>7. ASSUME ~WalkGoesOn
      PROVE  k > machine.own
  <2>1. i > end
    BY <1>4, <1>5, <1>6, <1>7 DEF WalkGoesOn, MADT, POINTER
  <2>2. SUFFICES ASSUME k <= machine.own
                 PROVE  FALSE
    BY <1>1, <1>2
  <2>3. machine.own + 1 \in k .. (size + 1)
    BY <1>1, <1>2, <2>2
  <2>4. i <= end
    BY <1>1, <1>4, <2>3, OffsetsGrow
  <2> QED
    BY <1>4, <1>6, <2>1, <2>4
<1>8. ASSUME WalkGoesOn
      PROVE  k \in 1 .. size
  <2>1. SUFFICES ASSUME k = size + 1
                 PROVE  FALSE
    BY <1>1, <1>2
  <2>2. ~Endless(machine)
    BY <1>1, <1>2, <2>1 DEF Endless, Entry
  <2>3. i > end + MADT - POINTER
    BY <1>1, <1>2, <1>4, <2>1, <2>2 DEF Described
  <2> QED
    BY <1>4, <1>5, <1>6, <1>8, <2>3 DEF WalkGoesOn, MADT, POINTER
<1> QED
  BY <1>7, <1>8

-----------------------------------------------------------------------------
(***************************************************************************)
(* The steps.                                                              *)
(***************************************************************************)
LEMMA StopsKeeps ==
  ASSUME IInv, NEW why, Stops(why),
         why \in {"no_acpi", "vmm_map", "ubsan", "fault"},
         pc = "find" /\ why = "ubsan" => Madts = {}
  PROVE  IInv'
<1> USE DEF IInv, Stops, walk_vars
<1>1. TypeOK'
  BY DEF TypeOK
<1>2. SearchState'
  BY DEF SearchState, Entries, acpi_use_xsdt, Madts
<1>3. LookupIsRight'
  BY DEF LookupIsRight, Madts
<1>4. WalkState'
  BY DEF WalkState, Walking, Offset
<1>5. ListsState'
  BY DEF ListsState
<1> QED
  BY <1>1, <1>2, <1>3, <1>4, <1>5

LEMMA StutterKeeps ==
  ASSUME IInv, UNCHANGED vars
  PROVE  IInv'
<1> USE DEF IInv, vars, walk_vars
<1>1. TypeOK'
  BY DEF TypeOK
<1>2. SearchState'
  BY DEF SearchState, Entries, acpi_use_xsdt, Madts
<1>3. LookupIsRight'
  BY DEF LookupIsRight, Madts
<1>4. WalkState'
  BY DEF WalkState, Walking, Offset
<1>5. ListsState'
  BY DEF ListsState
<1> QED
  BY <1>1, <1>2, <1>3, <1>4, <1>5

\* The search for the root pointer.
LEMMA InstallKeeps ==
  ASSUME IInv, ProbeMisses \/ ProbeFinds \/ RootMapped
  PROVE  IInv'
<1> USE DEF IInv, ProbeMisses, ProbeFinds, RootMapped, At, walk_vars
<1>1. TypeOK'
  <2>1. Paragraphs \in Nat /\ addr \in 0 .. (Paragraphs + 1)
    BY LengthsAssumption DEF TypeOK
  <2>2. addr' \in 0 .. (Paragraphs + 1)
    BY <2>1 DEF ParagraphsPerStep
  <2> QED
    BY <2>2 DEF TypeOK
<1>2. SearchState'
  <2>1. i' = 0 /\ i = 0 /\ machine' = machine
    BY DEF SearchState
  <2>2. Len(machine.tables) \in Nat
    BY MachineFacts DEF TypeOK
  <2> QED
    BY <2>1, <2>2 DEF SearchState, Entries
<1>3. LookupIsRight'
  BY DEF LookupIsRight, TypeOK
<1>4. WalkState'
  BY DEF WalkState, Walking, Offset
<1>5. ListsState'
  BY DEF ListsState
<1> QED
  BY <1>1, <1>2, <1>3, <1>4, <1>5

LEMMA FindSkipsKeeps ==
  ASSUME IInv, FindSkips
  PROVE  IInv'
<1> USE DEF IInv, FindSkips, At, walk_vars
<1>1. /\ machine \in Machines /\ Entries \in Nat /\ i \in Nat /\ i < Entries
      /\ (acpi_use_xsdt => i \in {0, 1})
      /\ \A t \in 1 .. i : t \notin Madts
  BY MachineFacts DEF TypeOK, SearchState, Entries
\* Of the second word of an XSDT nothing can be read.
<1>2. acpi_use_xsdt => i = 0
  <2>1. SUFFICES ASSUME acpi_use_xsdt, i = 1
                 PROVE  FALSE
    BY <1>1
  <2>2. Listed = Nowhere
    BY <2>1 DEF Listed
  <2> QED
    BY <2>2 DEF FindReads, Compared, IsMadt, SIGNATURE, Nowhere
<1>3. Listed = machine.tables[i + 1]
  <2>1. CASE ~acpi_use_xsdt
    BY <2>1 DEF Listed
  <2>2. CASE acpi_use_xsdt
    BY <1>2, <2>2 DEF Listed
  <2> QED
    BY <2>1, <2>2
<1>4. i + 1 \notin Madts
  BY <1>3 DEF Madts
<1>5. TypeOK'
  BY <1>1 DEF TypeOK
<1>6. SearchState'
  <2>1. Madts' = Madts /\ Entries' = Entries /\ acpi_use_xsdt' = acpi_use_xsdt
    BY DEF Madts, Entries, acpi_use_xsdt
  <2>2. \A t \in 1 .. (i + 1) : t \in 1 .. i \/ t = i + 1
    BY <1>1
  <2>3. \A t \in 1 .. i' : t \notin Madts
    BY <1>1, <1>4, <2>2
  <2>4. i' <= Entries /\ (acpi_use_xsdt => i' \in {0, 1})
    BY <1>1, <1>2
  <2> QED
    BY <2>1, <2>3, <2>4 DEF SearchState
<1>7. LookupIsRight'
  BY DEF LookupIsRight, TypeOK
<1>8. WalkState'
  BY DEF WalkState, Walking, Offset
<1>9. ListsState'
  BY DEF ListsState
<1> QED
  BY <1>5, <1>6, <1>7, <1>8, <1>9

LEMMA FindTakesKeeps ==
  ASSUME IInv, FindTakes
  PROVE  IInv'
<1> USE DEF IInv, FindTakes, At, walk_vars
<1>1. /\ machine \in Machines /\ Entries \in Nat /\ i \in Nat /\ i < Entries
      /\ (acpi_use_xsdt => i \in {0, 1})
      /\ \A t \in 1 .. i : t \notin Madts
      /\ Entries = Len(machine.tables)
  BY MachineFacts DEF TypeOK, SearchState, Entries
<1>2. acpi_use_xsdt => i = 0
  <2>1. SUFFICES ASSUME acpi_use_xsdt, i = 1
                 PROVE  FALSE
    BY <1>1
  <2>2. Listed = Nowhere
    BY <2>1 DEF Listed
  <2> QED
    BY <2>2 DEF FindReads, Compared, IsMadt, SIGNATURE, Nowhere
<1>3. Listed = machine.tables[i + 1] /\ madt' = i + 1
  <2>1. CASE ~acpi_use_xsdt
    BY <2>1 DEF Listed
  <2>2. CASE acpi_use_xsdt
    BY <1>2, <2>2 DEF Listed
  <2> QED
    BY <2>1, <2>2
<1>4. i + 1 \in Madts
  BY <1>1, <1>3 DEF Madts
<1>5. TypeOK'
  BY <1>1, <1>3 DEF TypeOK
<1>6. SearchState'
  BY DEF SearchState
<1>7. LookupIsRight'
  <2>1. \A t \in Madts : t \in Nat /\ t >= 1
    BY <1>1 DEF Madts
  <2>2. \A t \in Madts : i + 1 <= t
    BY <1>1, <2>1
  <2>3. Madts' = Madts
    BY DEF Madts
  <2> QED
    BY <1>3, <1>4, <2>2, <2>3 DEF LookupIsRight
<1>8. WalkState'
  <2>1. k = 1 /\ i' = 0 /\ machine' = machine
    BY DEF WalkState, Walking
  <2>2. i' = Offset(machine, k)'
    BY <2>1 DEF Offset
  <2> QED
    BY <2>1, <2>2 DEF WalkState, Walking
<1>9. ListsState'
  BY DEF ListsState
<1> QED
  BY <1>5, <1>6, <1>7, <1>8, <1>9

\* The search ends without a MADT where there is none.
LEMMA FindEndsFacts ==
  ASSUME IInv, FindEnds
  PROVE  Madts = {}
<1>1. /\ Entries \in Nat /\ i \in Nat /\ i = Entries
      /\ \A t \in 1 .. i : t \notin Madts
  BY MachineFacts DEF IInv, TypeOK, SearchState, FindEnds, At, Entries
<1> QED
  BY <1>1 DEF Madts, Entries

-----------------------------------------------------------------------------
(***************************************************************************)
(* The walk.                                                               *)
(***************************************************************************)
LEMMA CollectsKeeps ==
  ASSUME IInv, WalkTakes, NEW type, NEW list \in Seq(DOMAIN machine.entries),
         Collected(machine, k, type, list)
  PROVE  Collected(machine, k', type, Collects(type, list))
<1> DEFINE size == Len(machine.entries)
<1>1. /\ machine \in Machines /\ size \in Nat /\ machine.own \in 0 .. size
      /\ machine.entries \in [1 .. size -> Entry]
      /\ \A n \in 1 .. machine.own : machine.entries[n].length >= 2
  BY MachineFacts DEF IInv, TypeOK
<1>2. k \in 1 .. size
  BY WalkFacts DEF WalkTakes, At
<1>3. /\ Len(list) \in Nat
      /\ \A p \in 1 .. Len(list) : list[p] \in 1 .. size
  BY <1>1
<1>4. PICK count \in 0 .. Len(list) :
        /\ {list[p] : p \in 1 .. count} = {n \in Own(machine, type) : n < k}
        /\ \A p, q \in 1 .. count : p < q => list[p] < list[q]
        /\ k <= machine.own => count = Len(list)
  BY DEF Collected
<1>5. PICK longer : longer = Collects(type, list)
  OBVIOUS
<1>6. longer = IF Here.type = type THEN Append(list, k) ELSE list
  BY <1>5 DEF Collects
<1>7. /\ Len(longer) \in Nat /\ Len(list) <= Len(longer)
      /\ \A p \in 1 .. Len(list) : longer[p] = list[p]
      /\ Here.type # type => longer = list
      /\ Here.type = type => /\ Len(longer) = Len(list) + 1
                             /\ longer[Len(list) + 1] = k
  BY <1>3, <1>6
<1>8. Own(machine, type) \subseteq 1 .. machine.own
  BY DEF Own
<1>9. k' \in {k, k + 1}
  BY DEF WalkTakes
\* Behind the table nothing of it is left to be passed.
<1>10. CASE k > machine.own
  <2>1. {n \in Own(machine, type) : n < k'} = {n \in Own(machine, type) : n < k}
    BY <1>1, <1>2, <1>8, <1>9, <1>10
  <2>2. {longer[p] : p \in 1 .. count} = {list[p] : p \in 1 .. count}
    <3>1. \A p \in 1 .. count : longer[p] = list[p]
      BY <1>3, <1>7
    <3> QED
      BY <3>1
  <2>3. \A p, q \in 1 .. count : p < q => longer[p] < longer[q]
    BY <1>3, <1>4, <1>7
  <2>4. ~(k' <= machine.own)
    BY <1>1, <1>2, <1>9, <1>10
  <2>5. count \in 0 .. Len(longer)
    BY <1>3, <1>7
  <2> QED
    BY <1>4, <1>5, <2>1, <2>2, <2>3, <2>4, <2>5 DEF Collected
<1>11. CASE k <= machine.own
  <2>1. k' = k + 1
    <3>1. Here.length >= 2
      BY <1>1, <1>2, <1>11 DEF Here
    <3> QED
      BY <3>1 DEF WalkTakes
  <2>2. \A n \in Own(machine, type) : n < k' <=> n < k \/ n = k
    BY <1>1, <1>2, <1>8, <2>1
  <2>3. k \in Own(machine, type) <=> Here.type = type
    BY <1>1, <1>2, <1>11 DEF Own, Here
  <2>4. count = Len(list)
    BY <1>4, <1>11
  <2>5. CASE Here.type # type
    <3>1. {n \in Own(machine, type) : n < k'} = {n \in Own(machine, type) : n < k}
      BY <2>2, <2>3, <2>5
    <3> QED
      BY <1>4, <1>5, <1>7, <2>4, <2>5, <3>1 DEF Collected
  <2>6. CASE Here.type = type
    <3>1. /\ Len(longer) = count + 1 /\ longer[count + 1] = k
          /\ \A p \in 1 .. count : longer[p] = list[p]
      BY <1>7, <2>4, <2>6
    <3>2. \A p \in 1 .. (count + 1) : p \in 1 .. count \/ p = count + 1
      BY <1>3
    <3>3. 1 .. count \subseteq 1 .. (count + 1) /\ count + 1 \in 1 .. (count + 1)
      BY <1>3
    <3>4. {longer[p] : p \in 1 .. (count + 1)} =
            {list[p] : p \in 1 .. count} \union {k}
      BY <3>1, <3>2, <3>3
    <3>5. {n \in Own(machine, type) : n < k'} = {n \in Own(machine, type) : n < k} \union {k}
      BY <2>2, <2>3, <2>6
    <3>6. \A p \in 1 .. count : list[p] < k
      BY <1>4
    <3>7. \A p, q \in 1 .. (count + 1) : p < q => longer[p] < longer[q]
      <4> SUFFICES ASSUME NEW p \in 1 .. (count + 1), NEW q \in 1 .. (count + 1),
                          p < q
                   PROVE  longer[p] < longer[q]
        OBVIOUS
      <4>1. p \in 1 .. count
        BY <1>3
      <4>2. CASE q \in 1 .. count
        BY <1>4, <3>1, <4>1, <4>2
      <4>3. CASE q = count + 1
        BY <3>1, <3>6, <4>1, <4>3
      <4> QED
        BY <3>2, <4>2, <4>3
    <3>8. {longer[p] : p \in 1 .. (count + 1)} = {n \in Own(machine, type) : n < k'}
      BY <1>4, <3>4, <3>5
    <3>9. PICK more \in 0 .. Len(longer) : more = count + 1
      BY <1>3, <3>1
    <3>10. Collected(machine, k', type, longer)
      BY <3>1, <3>7, <3>8, <3>9 DEF Collected
    <3> QED
      BY <1>5, <3>10
  <2> QED
    BY <2>5, <2>6
<1> QED
  BY <1>1, <1>2, <1>10, <1>11

LEMMA WalkTakesKeeps ==
  ASSUME IInv, WalkTakes
  PROVE  IInv'
<1> DEFINE size == Len(machine.entries)
<1>0. /\ pc = "walk" /\ pc' = "walk"
      /\ UNCHANGED <<machine, fate, addr, madt>>
      /\ ioapics' = Collects(Ioapic, ioapics)
      /\ isos' = Collects(Iso, isos)
      /\ lapic_addr' = IF Here.type = LapicAddr THEN k ELSE lapic_addr
      /\ i' = i + Here.length
      /\ k' = IF Here.length = 0 THEN k ELSE k + 1
  BY DEF WalkTakes, At
<1>1. /\ machine \in Machines /\ size \in Nat /\ machine.own \in 0 .. size
      /\ machine.entries \in [1 .. size -> Entry]
  BY MachineFacts DEF IInv, TypeOK
<1>2. k \in 1 .. size
  BY WalkFacts DEF WalkTakes, At
<1>3. Here \in Entry /\ Here.length \in Nat /\ Here = machine.entries[k]
  BY <1>1, <1>2 DEF Here, Entry
<1>4. /\ i \in Nat /\ i = Offset(machine, k)
      /\ ioapics \in Seq(DOMAIN machine.entries) /\ Len(ioapics) <= LIST
      /\ isos \in Seq(DOMAIN machine.entries) /\ Len(isos) <= LIST
      /\ LIST \in Nat
  BY <1>0, LengthsAssumption DEF IInv, TypeOK, WalkState, Walking
<1>5. ASSUME NEW type, NEW list \in Seq(DOMAIN machine.entries),
             Len(list) <= LIST, Here.type = type => HasRoom(list)
      PROVE  /\ Collects(type, list) \in Seq(DOMAIN machine.entries)
             /\ Len(Collects(type, list)) <= LIST
  <2>1. /\ k \in DOMAIN machine.entries
        /\ Append(list, k) \in Seq(DOMAIN machine.entries)
        /\ Len(list) \in Nat /\ Len(Append(list, k)) = Len(list) + 1
    BY <1>1, <1>2
  <2>2. CASE Here.type = type
    <3>1. Collects(type, list) = Append(list, k) /\ Len(list) < LIST
      BY <1>5, <2>2 DEF Collects, HasRoom
    <3> QED
      BY <1>4, <2>1, <3>1
  <2>3. CASE Here.type # type
    BY <1>5, <2>3 DEF Collects
  <2> QED
    BY <2>2, <2>3
<1>6. /\ ioapics' \in Seq(DOMAIN machine.entries) /\ Len(ioapics') <= LIST
      /\ isos' \in Seq(DOMAIN machine.entries) /\ Len(isos') <= LIST
  BY <1>0, <1>4, <1>5 DEF WalkTakes
<1>7. TypeOK'
  <2>1. i' \in Nat /\ k' \in 1 .. (size + 1)
    <3>1. i' \in Nat
      BY <1>0, <1>3, <1>4
    <3>2. k' \in {k, k + 1}
      BY <1>0
    <3> QED
      BY <1>1, <1>2, <3>1, <3>2
  <2>2. lapic_addr' \in {0} \union DOMAIN machine.entries
    BY <1>0, <1>1, <1>2 DEF IInv, TypeOK
  <2> QED
    BY <1>0, <1>6, <2>1, <2>2 DEF IInv, TypeOK
<1>8. SearchState'
  BY <1>0 DEF SearchState
<1>9. LookupIsRight'
  BY <1>0 DEF IInv, LookupIsRight, Madts
<1>10. WalkState'
  <2>1. i' = Offset(machine, k')
    <3>1. CASE Here.length = 0
      BY <1>0, <1>4, <3>1
    <3>2. CASE Here.length # 0
      BY <1>0, <1>1, <1>2, <1>3, <1>4, <3>2, OffsetFacts
    <3> QED
      BY <3>1, <3>2
  <2>2. \A n \in 1 .. (k' - 1) : machine.entries[n].length > 0
    <3>1. \A n \in 1 .. (k - 1) : machine.entries[n].length > 0
      BY DEF IInv, WalkState
    <3>2. CASE Here.length = 0
      BY <1>0, <3>1, <3>2
    <3>3. CASE Here.length # 0
      <4>1. \A n \in 1 .. (k' - 1) : n \in 1 .. (k - 1) \/ n = k
        BY <1>0, <1>1, <1>2, <3>3
      <4> QED
        BY <1>3, <3>1, <3>3, <4>1
    <3> QED
      BY <3>2, <3>3
  <2>3. Offset(machine, k)' = Offset(machine, k')
    BY <1>0 DEF Offset
  <2> QED
    BY <1>0, <2>1, <2>2, <2>3 DEF WalkState, Walking
<1>11. ListsState'
  <2>1. Collected(machine, k, Ioapic, ioapics) /\ Collected(machine, k, Iso, isos)
    BY DEF IInv, ListsState
  <2>2. Collected(machine, k, Ioapic, ioapics)'
    BY <1>0, <1>4, <2>1, CollectsKeeps
  <2>3. Collected(machine, k, Iso, isos)'
    BY <1>0, <1>4, <2>1, CollectsKeeps
  <2>4. ASSUME NEW n \in Own(machine, LapicAddr), n < k'
        PROVE  lapic_addr' >= n
    <3>1. n \in Nat /\ n <= k
      BY <1>0, <1>1, <1>2, <2>4 DEF Own
    <3>2. CASE Here.type = LapicAddr
      BY <1>0, <1>2, <3>1, <3>2
    <3>3. CASE Here.type # LapicAddr
      <4>1. n # k
        BY <1>3, <3>3 DEF Own
      <4> QED
        BY <1>0, <1>2, <3>1, <3>3, <4>1 DEF IInv, ListsState
    <3> QED
      BY <3>2, <3>3
  <2>5. Own(machine, LapicAddr)' = Own(machine, LapicAddr)
    BY <1>0 DEF Own
  <2> QED
    BY <2>2, <2>3, <2>4, <2>5 DEF ListsState
<1> QED
  BY <1>7, <1>8, <1>9, <1>10, <1>11 DEF IInv

LEMMA WalkEndsKeeps ==
  ASSUME IInv, WalkEnds
  PROVE  IInv'
<1> USE DEF IInv, WalkEnds, At, walk_vars
<1>1. TypeOK'
  BY DEF TypeOK
<1>2. SearchState'
  BY DEF SearchState
<1>3. LookupIsRight'
  BY DEF LookupIsRight, Madts
<1>4. k > machine.own
  BY WalkFacts
<1>5. WalkState'
  BY <1>4 DEF WalkState, Walking, Offset
<1>6. ListsState'
  BY DEF ListsState
<1> QED
  BY <1>1, <1>2, <1>3, <1>5, <1>6

-----------------------------------------------------------------------------
(***************************************************************************)
(* The invariant, and what follows from it.                                *)
(***************************************************************************)
LEMMA InitEstablishes == Init => IInv
<1> SUFFICES ASSUME Init
             PROVE  IInv
  OBVIOUS
<1> USE DEF Init
<1>1. Len(machine.entries) \in Nat /\ Len(machine.tables) \in Nat
  BY MachineFacts
<1>2. TypeOK
  BY <1>1, LengthsAssumption DEF TypeOK
<1>3. SearchState
  BY DEF SearchState
<1>4. LookupIsRight
  BY DEF LookupIsRight
<1>5. WalkState
  BY DEF WalkState, Walking
<1>6. ListsState
  <2>1. machine.own \in Nat
    BY MachineFacts
  <2>2. \A type : {n \in Own(machine, type) : n < k} = {}
    BY <2>1 DEF Own
  <2>3. \A type : Collected(machine, k, type, <<>>)
    BY <2>2 DEF Collected
  <2> QED
    BY <2>2, <2>3 DEF ListsState
<1> QED
  BY <1>2, <1>3, <1>4, <1>5, <1>6 DEF IInv

LEMMA NextKeeps == IInv /\ [Next]_vars => IInv'
<1> SUFFICES ASSUME IInv, [Next]_vars
             PROVE  IInv'
  OBVIOUS
<1>1. CASE ProbeMisses \/ ProbeFinds \/ RootMapped
  BY <1>1, InstallKeeps
<1>2. CASE ProbeEnds \/ RootStops \/ FindFaults
  BY <1>2, StopsKeeps DEF ProbeEnds, RootStops, FindFaults, At
<1>3. CASE WalkFaults \/ WalkOverflows
  BY <1>3, StopsKeeps DEF WalkFaults, WalkOverflows, At
<1>4. CASE FindEnds
  BY <1>4, StopsKeeps, FindEndsFacts DEF FindEnds
<1>5. CASE FindSkips
  BY <1>5, FindSkipsKeeps
<1>6. CASE FindTakes
  BY <1>6, FindTakesKeeps
<1>7. CASE WalkTakes
  BY <1>7, WalkTakesKeeps
<1>8. CASE WalkEnds
  BY <1>8, WalkEndsKeeps
<1>9. CASE UNCHANGED vars
  BY <1>9, StutterKeeps
<1> QED
  BY <1>1, <1>2, <1>3, <1>4, <1>5, <1>6, <1>7, <1>8, <1>9 DEF Next

LEMMA IInvHolds == Spec => []IInv
BY InitEstablishes, NextKeeps, PTL DEF Spec

(***************************************************************************)
(* The walk never leaves the lists of madt.c, nor what is described of the *)
(* memory, whatever the firmware has written there (madt.c:7-8, 19).       *)
(***************************************************************************)
THEOREM AcpiTypeCorrect == Spec => []TypeOK
<1>1. IInv => TypeOK
  BY DEF IInv
<1> QED
  BY <1>1, IInvHolds, PTL

(***************************************************************************)
(* What acpi_find_table returns is the first MADT of the root table, and   *)
(* it returns NULL only where there is none (acpi.c:14-47).                *)
(***************************************************************************)
THEOREM TheMadtIsFound == Spec => []LookupIsRight
<1>1. IInv => LookupIsRight
  BY DEF IInv
<1> QED
  BY <1>1, IInvHolds, PTL

(***************************************************************************)
(* The walk over a MADT of any length passes all of its entries, in their  *)
(* order and before anything that lies behind it (madt.c:19-36).           *)
(***************************************************************************)
THEOREM NoEntryIsMissed == Spec => []NothingMissed
<1>1. IInv => NothingMissed
  <2> SUFFICES ASSUME IInv, pc = "installed"
               PROVE  /\ BeginsWith(ioapics, Own(machine, Ioapic))
                      /\ BeginsWith(isos, Own(machine, Iso))
                      /\ \A n \in Own(machine, LapicAddr) : lapic_addr >= n
    BY DEF NothingMissed
  <2>1. k > machine.own /\ k \in Nat /\ machine.own \in Nat
    BY MachineFacts DEF IInv, TypeOK, WalkState
  <2>2. \A type : \A n \in Own(machine, type) : n < k
    BY <2>1 DEF Own
  <2>3. \A type : {n \in Own(machine, type) : n < k} = Own(machine, type)
    BY <2>2
  <2> QED
    BY <2>2, <2>3 DEF IInv, ListsState, Collected, BeginsWith
<1> QED
  BY <1>1, IInvHolds, PTL

-----------------------------------------------------------------------------
(***************************************************************************)
(* On a plain machine: the search for the root pointer is at an even       *)
(* paragraph, none of which it has passed over, and the walk has put into  *)
(* no list more entries than it has passed.                                *)
(***************************************************************************)
PlainState ==
  /\ fate \in {"up", "vmm_map"}
  /\ pc = "probe" =>
       addr % 2 = 0 /\ \E p \in machine.rsdps : p % 2 = 0 /\ addr <= p
  /\ Len(ioapics) < k /\ Len(isos) < k

PlainInv == Plain(machine) /\ ~Endless(machine) => PlainState

LEMMA PlainFacts ==
  ASSUME IInv, Plain(machine)
  PROVE  /\ machine.revision = 0 /\ ~machine.high
         /\ Entries \in Nat /\ machine.root \in Nat /\ machine.root >= SDT + 4 * Entries
         /\ Len(machine.entries) \in Nat /\ Len(machine.entries) <= LIST /\ LIST \in Nat
         /\ \E t \in 1 .. Entries :
              /\ t \in Madts /\ \A u \in Madts : t <= u
              /\ machine.tables[t].reach > MADT + Offset(machine, Len(machine.entries) + 1)
              /\ \A u \in 1 .. t :
                   machine.tables[u].reach >= Compared(machine.tables[u])
<1>1. /\ machine \in Machines /\ Entries \in Nat /\ Len(machine.entries) \in Nat
      /\ machine.tables \in [1 .. Entries -> Table]
  BY MachineFacts DEF IInv, TypeOK, Entries
<1>2. PICK t \in 1 .. Entries :
        /\ IsMadt(machine.tables[t])
        /\ machine.tables[t].reach > MADT + Offset(machine, Len(machine.entries) + 1)
        /\ \A u \in 1 .. (t - 1) :
             /\ ~IsMadt(machine.tables[u])
             /\ machine.tables[u].reach >= Compared(machine.tables[u])
  BY DEF Plain, Entries
<1>3. t \in Madts
  BY <1>2 DEF Madts, Entries
<1>4. \A u \in Madts : t <= u
  <2> SUFFICES ASSUME NEW u \in Madts, u < t
               PROVE  FALSE
    BY <1>1 DEF Madts, Entries
  <2>1. u \in 1 .. (t - 1) /\ IsMadt(machine.tables[u])
    BY <1>1 DEF Madts, Entries
  <2> QED
    BY <1>2, <2>1
<1>5. ASSUME NEW u \in 1 .. t
      PROVE  machine.tables[u].reach >= Compared(machine.tables[u])
  <2>1. CASE u = t
    <3>1. Offset(machine, Len(machine.entries) + 1) \in Nat
      BY <1>1, OffsetFacts
    <3>2. machine.tables[t].reach \in Nat
      BY <1>1 DEF Table
    <3> QED
      BY <1>2, <2>1, <3>1, <3>2 DEF MADT, Compared, SIGNATURE
  <2>2. CASE u # t
    BY <1>1, <1>2, <2>2
  <2> QED
    BY <2>1, <2>2
<1>6. /\ machine.revision = 0 /\ ~machine.high /\ machine.root >= SDT + 4 * Entries
      /\ Len(machine.entries) <= LIST /\ machine.root \in Nat
  BY <1>1, MachinesAssumption DEF Plain, Entries
<1> QED
  BY <1>1, <1>2, <1>3, <1>4, <1>5, <1>6, LengthsAssumption

\* The root pointer is there, an even paragraph ahead.
LEMMA PlainProbe ==
  ASSUME IInv, PlainState, At("probe")
  PROVE  /\ addr < Paragraphs
         /\ ProbeMisses => PlainState'
<1>1. PICK p \in machine.rsdps : p % 2 = 0 /\ addr <= p /\ addr % 2 = 0
  BY DEF PlainState, At
<1>2. p \in 0 .. (Paragraphs - 1) /\ Paragraphs \in Nat /\ addr \in Nat
  BY MachineFacts, LengthsAssumption DEF IInv, TypeOK
<1>3. ASSUME ProbeMisses
      PROVE  PlainState'
  <2>1. addr' = addr + 2 /\ addr # p /\ machine' = machine
    BY <1>1, <1>3 DEF ProbeMisses, ParagraphsPerStep
  <2>2. addr' % 2 = 0 /\ addr' <= p
    BY <1>1, <1>2, <2>1
  <2> QED
    BY <1>1, <1>3, <2>1, <2>2 DEF ProbeMisses, PlainState, walk_vars
<1> QED
  BY <1>1, <1>2, <1>3

\* The search for the MADT neither leaves the page nor passes the end.
LEMMA PlainFind ==
  ASSUME IInv, Plain(machine), At("find")
  PROVE  RootReaches(8) /\ i < Entries /\ FindReads
<1>1. PICK t \in 1 .. Entries :
        /\ t \in Madts
        /\ \A u \in 1 .. t :
             machine.tables[u].reach >= Compared(machine.tables[u])
  BY PlainFacts
<1>2. Entries \in Nat /\ machine.root \in Nat /\ machine.root >= SDT + 4 * Entries
      /\ ~acpi_use_xsdt
  BY PlainFacts DEF acpi_use_xsdt
<1>3. i \in Nat /\ \A u \in 1 .. i : u \notin Madts
  BY DEF IInv, TypeOK, SearchState, At
<1>4. i < t
  BY <1>1, <1>2, <1>3
<1>5. i + 1 \in 1 .. t
  BY <1>2, <1>3, <1>4
<1>6. Listed = machine.tables[i + 1] /\ Listed.reach >= Compared(Listed)
  BY <1>1, <1>2, <1>5 DEF Listed
<1>7. RootReaches(8)
  BY <1>2 DEF RootReaches, SDT
<1>8. RootReaches(SDT + 4 * (i + 1)) /\ i < Entries
  BY <1>2, <1>3, <1>4 DEF RootReaches, SDT
<1> QED
  BY <1>6, <1>7, <1>8 DEF FindReads

\* The walk stays in the page, and there is room in the lists for every entry.
LEMMA PlainWalk ==
  ASSUME IInv, PlainState, Plain(machine), ~Endless(machine), At("walk")
  PROVE  /\ MadtReaches(8)
         /\ WalkGoesOn => WalkReads /\ HasRoom(ioapics) /\ HasRoom(isos)
         /\ WalkTakes => PlainState'
<1> DEFINE size == Len(machine.entries)
<1>1. /\ machine \in Machines /\ k \in 1 .. (size + 1) /\ size \in Nat
      /\ i = Offset(machine, k) /\ i \in Nat
      /\ machine.entries \in [1 .. size -> Entry]
      /\ DOMAIN machine.entries = 1 .. size
  BY MachineFacts DEF IInv, TypeOK, WalkState, Walking, At
<1>2. PICK end \in Nat : end = Offset(machine, size + 1)
  BY <1>1, OffsetFacts
<1>3. machine.tables[madt].reach \in Nat /\ machine.tables[madt].reach > MADT + end
  <2>1. madt \in Madts /\ \A t \in Madts : madt <= t
    BY DEF IInv, LookupIsRight, At
  <2>2. PICK t \in 1 .. Entries :
          /\ t \in Madts /\ \A u \in Madts : t <= u
          /\ machine.tables[t].reach > MADT + end
    BY <1>2, PlainFacts
  <2>3. madt = t
    BY <2>1, <2>2 DEF Madts
  <2>4. machine.tables \in [1 .. Entries -> Table]
    BY <1>1, MachineFacts DEF Entries
  <2> QED
    BY <2>2, <2>3, <2>4 DEF Table
<1>4. MadtReaches(8)
  BY <1>2, <1>3 DEF MadtReaches, MADT
<1>5. Len(ioapics) < k /\ Len(isos) < k /\ Len(ioapics) \in Nat /\ Len(isos) \in Nat
      /\ ioapics \in Seq(1 .. size) /\ isos \in Seq(1 .. size)
  BY <1>1 DEF PlainState, IInv, TypeOK
<1>6. ASSUME WalkGoesOn
      PROVE  /\ k \in 1 .. size /\ Here.length \in Nat /\ Here.length # 0
             /\ WalkReads /\ HasRoom(ioapics) /\ HasRoom(isos)
  <2>1. k \in 1 .. size
    BY <1>6, WalkFacts DEF At
  <2>2. Here.length \in Nat /\ Here.length # 0
    BY <1>1, <2>1 DEF Here, Endless, Entry
  <2>3. Offset(machine, k + 1) = i + Here.length
    BY <1>1, <2>1, OffsetFacts DEF Here
  <2>4. Offset(machine, k + 1) <= end
    <3>1. k + 1 \in 1 .. (size + 1) /\ size + 1 \in (k + 1) .. (size + 1)
      BY <1>1, <2>1
    <3> QED
      BY <1>1, <1>2, <3>1, OffsetsGrow
  <2>5. WalkReads
    BY <1>1, <1>2, <1>3, <2>2, <2>3, <2>4 DEF WalkReads, MadtReaches, MADT
  <2>6. size <= LIST /\ LIST \in Nat
    BY PlainFacts
  <2>7. HasRoom(ioapics) /\ HasRoom(isos)
    BY <1>1, <1>5, <2>1, <2>6 DEF HasRoom
  <2> QED
    BY <2>1, <2>2, <2>5, <2>7
<1>7. ASSUME WalkTakes
      PROVE  PlainState'
  <2>1. WalkGoesOn
    BY <1>7 DEF WalkTakes
  <2>2. k' = k + 1 /\ fate' = fate /\ pc' = pc
        /\ ioapics' = Collects(Ioapic, ioapics) /\ isos' = Collects(Iso, isos)
    BY <1>6, <1>7, <2>1 DEF WalkTakes
  <2>3. ASSUME NEW type, NEW list \in Seq(1 .. size)
        PROVE  Len(Collects(type, list)) \in {Len(list), Len(list) + 1}
    BY <1>6, <2>1 DEF Collects
  <2>4. Len(ioapics') < k' /\ Len(isos') < k'
    BY <1>1, <1>5, <2>2, <2>3
  <2> QED
    BY <2>2, <2>4 DEF PlainState, At
<1> QED
  BY <1>4, <1>6, <1>7

LEMMA PlainKeeps == IInv /\ PlainInv /\ [Next]_vars => PlainInv'
<1> SUFFICES ASSUME IInv, PlainInv, [Next]_vars, (Plain(machine) /\ ~Endless(machine))'
             PROVE  PlainState'
  BY DEF PlainInv
<1>1. machine' = machine
  BY DEF Next, vars, walk_vars, Stops, ProbeMisses, ProbeFinds, ProbeEnds, RootMapped, RootStops,
         FindFaults, FindSkips, FindTakes, FindEnds, WalkTakes, WalkFaults, WalkOverflows,
         WalkEnds
<1>2. Plain(machine) /\ ~Endless(machine)
  BY <1>1 DEF Plain, Endless, Offset
<1>3. PlainState
  BY <1>2 DEF PlainInv
<1>4. CASE ProbeMisses
  BY <1>3, <1>4, PlainProbe DEF ProbeMisses
<1>5. CASE ProbeEnds
  BY <1>3, <1>5, PlainProbe, LengthsAssumption DEF ProbeEnds, IInv, TypeOK
<1>6. CASE ProbeFinds \/ RootMapped \/ FindSkips \/ FindTakes \/ WalkEnds
  BY <1>3, <1>6 DEF PlainState, ProbeFinds, RootMapped, FindSkips, FindTakes, WalkEnds, At,
                    walk_vars
<1>7. CASE RootStops
  BY <1>2, <1>3, <1>7, PlainFacts DEF PlainState, RootStops, Stops, At, walk_vars
<1>8. CASE FindFaults \/ FindEnds
  <2>1. At("find")
    BY <1>8 DEF FindFaults, FindEnds
  <2>2. RootReaches(8) /\ i < Entries /\ FindReads /\ i \in Nat /\ Entries \in Nat
    BY <1>2, <2>1, PlainFind, PlainFacts DEF IInv, TypeOK
  <2> QED
    BY <1>8, <2>2 DEF FindFaults, FindEnds
<1>9. CASE WalkFaults \/ WalkOverflows
  <2>1. At("walk")
    BY <1>9 DEF WalkFaults, WalkOverflows
  <2> QED
    BY <1>2, <1>3, <1>9, <2>1, PlainWalk DEF WalkFaults, WalkOverflows
<1>10. CASE WalkTakes
  BY <1>2, <1>3, <1>10, PlainWalk DEF WalkTakes
<1>11. CASE UNCHANGED vars
  BY <1>3, <1>11 DEF vars, walk_vars, PlainState
<1> QED
  BY <1>4, <1>5, <1>6, <1>7, <1>8, <1>9, <1>10, <1>11 DEF Next

(***************************************************************************)
(* On a plain machine, whatever the number of its tables and entries,      *)
(* acpi_install stops the kernel nowhere but in vmm_map: no access leaves  *)
(* the one page that is mapped, no list overflows, and the root pointer is *)
(* not passed over (acpi.c:53, 63, 67, 75; madt.c:19).  InstallEnds says   *)
(* that it ends, too.                                                      *)
(***************************************************************************)
THEOREM PlainMachinesAreAccepted ==
  Spec => [](Plain(machine) /\ ~Endless(machine) => fate \in {"up", "vmm_map"})
<1>1. Init => PlainInv
  <2> SUFFICES ASSUME Init, Plain(machine)
               PROVE  PlainState
    BY DEF PlainInv
  <2>1. PICK p \in machine.rsdps : p % 2 = 0
    BY DEF Plain
  <2>2. 0 <= p
    BY MachineFacts DEF Init
  <2> QED
    BY <2>1, <2>2 DEF Init, PlainState
<1>2. PlainInv => (Plain(machine) /\ ~Endless(machine) => fate \in {"up", "vmm_map"})
  BY DEF PlainInv, PlainState
<1> QED
  BY <1>1, <1>2, PlainKeeps, IInvHolds, PTL DEF Spec
=============================================================================
