\* Two updates to either of two releases, one unit of before, everything may fail.
CONSTANTS
  service = service
  dpi = dpi
  v1 = v1
  v2 = v2
  None = None
  Service = service
  Legacy = {dpi}
  Release = {v1, v2}
  MaxUpdates = 2
SPECIFICATION Spec
INVARIANTS
  RollbackExact
  SuccessIsWhole
CHECK_DEADLOCK FALSE
