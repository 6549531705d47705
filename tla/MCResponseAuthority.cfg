SPECIFICATION Spec
CONSTANTS
  Requests = {r1, r2, r3}
  StateCap = 2
  WireCap = 2
  CancelMayFail = TRUE
  BytesMayRefuse = TRUE
  StoreChoices = {TRUE, FALSE}
  Statuses = {"completed", "cancelled"}
  MaxCancels = 1
SYMMETRY RequestSymmetry
INVARIANTS
  PinsAreExact
  StoresTellTheTruth
PROPERTIES
  CommittedIsRetained
