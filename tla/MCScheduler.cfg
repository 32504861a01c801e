\* The scheduler with a table of three places and four blocks for tasks.
CONSTANTS
  PIT         = 32
  SCHED       = 128
  LapicTicks  = 3
  WORD        = 16
  Interrupted = Interrupted
  Contexts    = {1, 2, 3, 4}
  Slots       = 3
  QUANTUM     = 1
  Blocks      = {1, 2, 3, 4}
  Boot        = Boot
  NULL        = NULL

SPECIFICATION Spec

INVARIANTS
  TypeOK
  TableIsQueue
  OneTickOnItsWay

PROPERTIES
  EndsItsOwn
  ImplementsRoundRobin
  EveryTaskHasItsTurn
  PanicsEnd

CHECK_DEADLOCK FALSE
