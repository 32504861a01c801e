\* The machines of MCAcpi.cfg, and what the panic of acpi_install says of them.
CONSTANTS
  Machines   <- MCMachines
  Paragraphs = 6
  LIST       = 3

SPECIFICATION Spec

INVARIANT
  CouldNotFindIsTrue

CHECK_DEADLOCK FALSE
