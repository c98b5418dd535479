\* Every step may fail or be killed, and ignored errors of clears and deletes.
CONSTANTS
  c1 = c1
  c2 = c2
  c3 = c3
  rA = rA
  rB = rB
  Cmd = {c1, c2, c3}
  DaemonCmd = {}
  Ruleset = {rA, rB}
  StopAt <- AnyStop
  Ignored <- ErrorsIgnored
  Wait = {"command", "countdown"}
SPECIFICATION Spec
INVARIANTS
  RollbackIsExact
PROPERTIES
  ConfirmSettles
CHECK_DEADLOCK FALSE
