\* The store may not open when a countdown looks for the confirmation.
CONSTANTS
  c1 = c1
  c2 = c2
  rA = rA
  rB = rB
  Cmd = {c1, c2}
  DaemonCmd = {}
  Ruleset = {rA, rB}
  StopAt = {}
  Ignored = {"check"}
  Wait = {"command", "countdown"}
SPECIFICATION Spec
PROPERTIES
  ExpiresOnlyOnTrial
CHECK_DEADLOCK FALSE
