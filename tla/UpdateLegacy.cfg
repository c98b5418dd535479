\* One update on a host with the service, a unit of before, or both.
CONSTANTS
  service = service
  dpi = dpi
  v1 = v1
  v2 = v2
  None = None
  Service = service
  Legacy = {dpi}
  Release = {v1, v2}
  MaxUpdates = 1
SPECIFICATION Spec
INVARIANT FailedVersionGone
CHECK_DEADLOCK FALSE
