\* A connection to a backend, while blocking is on.
CONSTANTS
  friend = friend
  stranger = stranger
  guardedPort = guardedPort
  otherPort = otherPort
  http = http
  tls = tls
  None = None
  Addr <- MCAddr
  Loopback = {}
  Port <- MCPort
  LeasePort = otherPort
  App <- MCApp
  Config <- BackendConfig
  Conn <- BackendConn
  MaxQueue = 1
SPECIFICATION Spec
INVARIANT ForwardedRepliesPass
CHECK_DEADLOCK FALSE
