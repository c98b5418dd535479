\* One request for less time than the rules refresh with.
CONSTANTS
  r1 = r1
  k1 = k1
  p1 = p1
  Req = {r1}
  Forged = {}
  Barred = {}
  Conn = {k1}
  Prefix = {p1}
  Window = 2
  Skew <- Behind
  Stall = 1
  TTL = {1}
  IdleTTL = 2
  MaxClock = 5
SPECIFICATION Spec
INVARIANTS
  OwnTimeGoverns
CHECK_DEADLOCK FALSE
