\* Connections of each hook over reloads.
CONSTANTS
  friend = friend
  stranger = stranger
  guardedPort = guardedPort
  otherPort = otherPort
  http = http
  tls = tls
  None = None
  Addr <- MCAddr
  Loopback = {}
  Port <- MCPort
  LeasePort = otherPort
  App <- MCApp
  Config <- FlowsConfig
  Conn <- FlowsConn
  MaxQueue = 1
SPECIFICATION Spec
INVARIANTS
  OnlyAdmitted
  BlockedStaysOut
  SessionsSurvive
  RepliesPass
CONSTRAINT Few
CHECK_DEADLOCK FALSE
