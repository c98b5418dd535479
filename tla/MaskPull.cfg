\* Two servers, one pull of three bytes in packets of two.
CONSTANTS
  t1 = t1
  t2 = t2
  None = None
  Target = {t1, t2}
  Enabled <- MCEnabled
  Stranger = {t2}
  Mode = {"tcp", "udp", "inTurn", "atOnce"}
  Planned = 3
  Percent = 0
  Body = 2
  Retries = 2
  MaxFaults = 1
SPECIFICATION Spec
INVARIANTS
  OneSession
  NoOvershoot
  ReportIsReceived
  SentIsBounded
PROPERTIES
  PullEnds
CHECK_DEADLOCK FALSE
