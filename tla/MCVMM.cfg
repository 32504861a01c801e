\* vmm_map and vmm_unmap against the processor's caches.
CONSTANTS
  Frames     = {1, 2, 3}
  Identity   = {1, 2}
  Slots      = {1, 2}
  Entries    = {0, 1}
  Targets    = {t1, t2}
  RunLengths = {1}
  NotPresent = NotPresent
  Garbage    = Garbage

SPECIFICATION Spec

INVARIANTS
  TypeOK
  TablesSayWhatIsMapped
  NothingStale
  TablesAreOwned
  NoEmptyTable

CHECK_DEADLOCK FALSE
