\* kmalloc and kfree over the page tables and the page allocator.
CONSTANTS
  Frames     = {0, 1, 2, 3, 4, 5, 6}
  Identity   = {0, 1, 2, 3, 4}
  Slots      = {0, 1}
  Entries    = {0, 1, 2, 3}
  EntryCount = 4
  Targets    = {0, 1, 2, 3, 4, 5, 6}
  RunLengths = {1, 2}
  PAGE_SIZE  = 4
  HEADER     = 1
  WORD       = 16
  Sizes      = {1, 5, 13}
  NotPresent = NotPresent
  Garbage    = Garbage
  NoHeader   = NoHeader

SPECIFICATION HeapSpec

INVARIANTS
  HeapTypeOK
  NothingIsLost
  BlocksAreApart
  BlocksStayUsable

PROPERTIES
  OnlyTheLiveIsFreed
  HeapCallsEnd

CHECK_DEADLOCK FALSE
