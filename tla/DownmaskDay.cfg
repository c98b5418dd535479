\* One process at a time, two interfaces, two days, each open at its start; the
\* first byte pulled for one interface may arrive on the other.
CONSTANTS
  p1 = p1
  e0 = e0
  e1 = e1
  None = None
  Proc = {p1}
  Serial = TRUE
  Iface = {e0, e1}
  Fine = 3
  MinRatio = 2
  MaxRatio = 7
  MinDeficit = 1
  MaxRun = 2
  WindowStart = 0
  WindowEnd = 1
  MaxJitter = 1
  Percent = 50
  DayLength = 2
  MaxClock = 2
  MaxBytes = 2
  Stray <- OneStrays
SPECIFICATION Spec
INVARIANTS
  CountsOnce
  OneRatioADay
  RatioMoves
  NoOverPull
  PaysOnce
CHECK_DEADLOCK FALSE
