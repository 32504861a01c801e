\* Every machine of MCMachines, six paragraphs, and lists of three places.
CONSTANTS
  Machines   <- MCMachines
  Paragraphs = 6
  LIST       = 3

SPECIFICATION Spec

INVARIANTS
  TypeOK
  LookupIsRight
  NothingMissed

PROPERTIES
  InstallEnds

CHECK_DEADLOCK FALSE
