\* One careful operator: three commands, two rulesets.
CONSTANTS
  c1 = c1
  c2 = c2
  c3 = c3
  rA = rA
  rB = rB
  Cmd = {c1, c2, c3}
  DaemonCmd = {}
  Ruleset = {rA, rB}
  StopAt <- EarlyStops
  Ignored = {}
  Wait = {"command", "countdown"}
SPECIFICATION FairSpec
INVARIANTS
  TrialNeverSettles
  FirewallNotLost
PROPERTIES
  ExpiresOnlyOnTrial
  TrialEnds
CHECK_DEADLOCK FALSE
