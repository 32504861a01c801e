\* The machines of MCBoot.cfg, and the controller that is called the slave.
CONSTANTS
  Machines <- MCMachines
  PER_MS = 3

SPECIFICATION Spec

INVARIANT
  SlaveIsInstalled

CHECK_DEADLOCK FALSE
