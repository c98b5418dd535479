\* A process that may crash, its own reload and two requests one after the other.
CONSTANTS
  mask = mask
  runner = runner
  boot = boot
  q1 = q1
  q2 = q2
  None = None
  Server = {mask}
  Pair = {mask}
  Runner = {runner}
  Boot = boot
  Request = {q1, q2}
  Serial = TRUE
SPECIFICATION FairSpec
INVARIANTS
  NoOrphan
  PortsReleased
  StatusCurrent
  RunningIsAlive
PROPERTIES
  ReloadReturns
  ShutdownEnds
CHECK_DEADLOCK FALSE
