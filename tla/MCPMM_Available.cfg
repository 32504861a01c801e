\* Refuted: only memory the loader calls available (pmm.c:64) becomes free.
CONSTANTS
  PAGE_SIZE  = 2
  LOW_MEMORY = 4
  KernelEnd  = 6
  MaxPage    = 15
  BootInfos  <- OneBootInfo
  PageCounts = {1}

SPECIFICATION Spec

INVARIANT FreeIsAvailable

CHECK_DEADLOCK FALSE
