\* Three writers and a runner, two artifacts with one id, two faults.
SPECIFICATION StoreSpec
CONSTANTS
  Writers = {w1, w2, w3}
  Runners = {r1}
  Contents = {"plain", "risky"}
  Ids = {"art"}
  Id <- MCId
  Scan <- MCScan
  MaxFaults = 2
  None = None
  Empty = Empty
  Torn = Torn
  Foreign = Foreign
INVARIANTS
  StoreTypeOK
  ObjectsAreWhole
  RunsWhatWasAsked
  RetryMends
\* The writers are alike.
SYMMETRY Symmetry
\* A writer makes one call.
CHECK_DEADLOCK FALSE
