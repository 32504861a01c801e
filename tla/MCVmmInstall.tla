---------------------------- MODULE MCVmmInstall ----------------------------
(***************************************************************************)
(* vmm_install with pages of four bytes and page tables of eight entries:  *)
(* the sections are in slot 0 and are mapped in slot 1, the frame buffer   *)
(* is in slot 3.                                                           *)
(***************************************************************************)
EXTENDS VmmInstall

MCTargets == [page : (1 .. 5) \union (24 .. 28), rights : {"read", "write"}]

\* Sections that end with a page and in one, last pages of .bss that are mapped
\* and that are not; no frame buffer, one, one that is not aligned, and one whose
\* end is the end of the address space, which is 0.
MCLayouts ==
  {[text |-> t, rodata |-> r, data |-> d, bss |-> b, addr |-> f[1], bytes |-> f[2]] :
     t \in {3, 4}, r \in {2, 4}, d \in {1, 4}, b \in {2, 6},
     f \in {<<0, 0>>, <<100, 6>>, <<99, 6>>, <<120, 8>>}}
=============================================================================
