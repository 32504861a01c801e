------------------------------- MODULE MCPMM -------------------------------
(***************************************************************************)
(* PMM at a scale TLC can exhaust: two bytes per page, "one megabyte" at   *)
(* page 2, and a kernel image that ends with page 2.                       *)
(***************************************************************************)
EXTENDS PMM

available(addr, len) ==
  [type |-> MULTIBOOT_MEMORY_AVAILABLE, addr_low |-> addr, len_low |-> len]

hole(addr, len) == [type |-> 2, addr_low |-> addr, len_low |-> len]

loader(mmap) == [mmap_valid |-> TRUE, mmap |-> mmap]

\* Conventional memory, a hole, and the memory the kernel is in: nine pages
\* from page 2, so that the rover's limit is page 9 and memory ends at 11.
OneRegion == loader(<<available(0, 2), hole(2, 2), available(4, 18)>>)

\* The same with a second usable region, partly above the bitmap's 16 bits.
TwoRegions ==
  loader(<<available(0, 4), available(4, 18), hole(22, 6), available(28, 6)>>)

\* No usable memory above one megabyte.
TooSmall == loader(<<available(0, 4), hole(4, 18)>>)

\* Bit 6 of the flags is clear.
NoMap == [mmap_valid |-> FALSE, mmap |-> <<>>]

MCBootInfos == {OneRegion, TwoRegions, TooSmall, NoMap}

OneBootInfo == {OneRegion}
=============================================================================
