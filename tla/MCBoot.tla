------------------------------- MODULE MCBoot -------------------------------
(***************************************************************************)
(* Machines as they are, and one for each way in which the boot may fail.  *)
(***************************************************************************)
EXTENDS Boot

Io(id, hwid, base, last) ==
  [id |-> id, hwid |-> hwid, gsi_base |-> base, last |-> last]

TimerAt(gsi) == <<[irq_source |-> 9, gsi |-> 1], [irq_source |-> 0, gsi |-> gsi]>>

MCMachines ==
  [apic : BOOLEAN,
   ioapics : {<<Io(0, 0, 0, 3)>>, <<Io(0, 1, 0, 3)>>, <<>>,
              <<Io(0, 0, 0, 3), Io(1, 1, 4, 3)>>,
              <<Io(1, 1, 4, 3), Io(0, 0, 0, 3)>>},
   isos : {<<>>} \union {TimerAt(gsi) : gsi \in {2, 3, 4}}]
=============================================================================
