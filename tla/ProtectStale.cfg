\* The row of an earlier confirmation may stay when an apply clears it.
CONSTANTS
  c1 = c1
  c2 = c2
  rA = rA
  rB = rB
  Cmd = {c1, c2}
  DaemonCmd = {}
  Ruleset = {rA, rB}
  StopAt = {}
  Ignored = {"clear"}
  Wait = {"command", "countdown"}
SPECIFICATION Spec
INVARIANTS
  TrialNeverSettles
CHECK_DEADLOCK FALSE
