\* vmm_install for 64 kernels and machines, with room for the page tables within
\* the identity mapping and beyond it.
CONSTANTS
  Frames     = {6, 7, 8}
  Identity   = {6, 7}
  Slots      = {1, 3}
  Entries    = {0, 1, 2, 3, 4, 5, 6, 7}
  RunLengths = {1}
  NotPresent = NotPresent
  Garbage    = Garbage
  PAGE_SIZE  = 4
  EntryCount = 8
  WORD       = 128
  HIGH       = 96
  START      = 4
  Targets <- MCTargets
  Layouts <- MCLayouts

SPECIFICATION InstallSpec

PROPERTIES
  SectionsAreMapped

CHECK_DEADLOCK FALSE
