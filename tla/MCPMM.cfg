\* The allocator with every kind of boot information and runs of 0 to 2 pages.
CONSTANTS
  PAGE_SIZE  = 2
  LOW_MEMORY = 4
  KernelEnd  = 6
  MaxPage    = 15
  BootInfos  <- MCBootInfos
  PageCounts = {0, 1, 2}

SPECIFICATION Spec

INVARIANTS
  TypeOK
  Ledger
  NoOverlap
  KernelIsSafe
  NextFit

PROPERTIES
  ImplementsPageAllocator
  AllocEnds

CHECK_DEADLOCK FALSE
