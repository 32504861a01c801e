------------------------------- MODULE MCAcpi -------------------------------
(***************************************************************************)
(* Machines: every kind of root table, and every kind of MADT.  The page   *)
(* ends behind all of the tables, within the MADT, within its header, or   *)
(* within the root table.                                                  *)
(***************************************************************************)
EXTENDS Acpi, SequencesExt

Size(t, l) == [type |-> t, length |-> l]

\* Each behind the other.
Placed(sizes) ==
  [n \in DOMAIN sizes |->
     [type |-> sizes[n].type, length |-> sizes[n].length,
      at |-> FoldLeft(LAMBDA sum, size : sum + size.length, 0,
                      SubSeq(sizes, 1, n - 1))]]

\* As a MADT has them: a local APIC, I/O APICs, overrides, an address.
Tables == {
  <<Size(0, 8), Size(1, 12), Size(2, 10)>>,
  <<Size(1, 12), Size(1, 12), Size(2, 10), Size(5, 12), Size(2, 10)>>,
  <<>> }

\* What may lie behind it: text, more of the same, or zeros.
BehindTables == {
  <<Size(72, 80)>>,
  <<Size(2, 10), Size(1, 12), Size(5, 18), Size(9, 9)>>,
  <<Size(1, 12), Size(1, 12), Size(1, 12), Size(9, 30)>>,
  <<Size(72, 40), Size(9, 1)>>,
  <<Size(9, 20), Size(5, 0)>>,
  <<Size(2, 0)>> }

\* A MADT; a table whose signature begins otherwise; one that begins as "AP".
Madt(r)    == [alike |-> 4, reach |-> r]
Other(r)   == [alike |-> 0, reach |-> r]
Similar(r) == [alike |-> 2, reach |-> r]

RootTables(r) == {
  <<Other(4000), Madt(r), Other(100)>>,
  <<Madt(r)>>,
  <<Madt(r), Other(100)>>,
  <<Other(0), Madt(r)>>,
  <<Other(1), Similar(3), Madt(r)>>,
  <<Similar(2), Madt(r)>>,
  <<Madt(4), Madt(r)>>,
  <<Other(100)>>,
  <<>> }

Machine(p, v, h, r, t, own, more) ==
  [rsdps |-> p, revision |-> v, high |-> h, root |-> r, tables |-> t,
   entries |-> Placed(own \o more), own |-> Len(own)]

\* Every way to a MADT of one entry.
Searches ==
  {Machine(p, v, h, r, t, <<Size(1, 12)>>, <<Size(72, 80)>>) :
     p \in {{}, {2}, {3}}, v \in {0, 2}, h \in BOOLEAN, r \in {4, 40, 200},
     t \in RootTables(1000)}

\* Every MADT, and every way in which the page ends in it.
Walks ==
  {Machine({2}, 0, FALSE, 200, <<Madt(r)>>, own, more) :
     r \in {4, 52, 60, 85, 1000}, own \in Tables, more \in BehindTables}

MCMachines == Searches \union Walks
=============================================================================
