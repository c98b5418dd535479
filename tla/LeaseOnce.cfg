\* Two requests, one barred, in three deliveries; the sender is behind by what a
\* handler may take, or more.
CONSTANTS
  r1 = r1
  r2 = r2
  k1 = k1
  k2 = k2
  k3 = k3
  p1 = p1
  Req = {r1, r2}
  Forged = {}
  Barred = {r2}
  Conn = {k1, k2, k3}
  Prefix = {p1}
  Window = 2
  Skew <- Behind
  Stall = 1
  TTL = {1}
  IdleTTL = 2
  MaxClock = 5
SPECIFICATION Spec
INVARIANTS
  AtMostOnce
  EndsWhenIdle
PROPERTIES
  NonceOutlivesRequest
  Gated
SYMMETRY Connections
CHECK_DEADLOCK FALSE
