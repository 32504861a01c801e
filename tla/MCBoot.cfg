\* The machines of MCMachines; a millisecond of three ticks.
CONSTANTS
  Machines <- MCMachines
  PER_MS = 3

SPECIFICATION Spec

INVARIANTS
  TypeOK
  InterruptsAreExpected
  NothingLeftInService
  OneRoute
  CalibrationWaits

PROPERTIES
  BootEnds

CHECK_DEADLOCK FALSE
