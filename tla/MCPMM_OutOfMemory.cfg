\* Refuted: "out of memory" (pmm.c:79) with free pages below the page count.
CONSTANTS
  PAGE_SIZE  = 2
  LOW_MEMORY = 4
  KernelEnd  = 6
  MaxPage    = 15
  BootInfos  <- OneBootInfo
  PageCounts = {1}

SPECIFICATION Spec

INVARIANT OutOfMemoryIsTrue

CHECK_DEADLOCK FALSE
