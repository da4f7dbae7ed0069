\* Two writers that store the same artifact at once.
SPECIFICATION StoreSpec
CONSTANTS
  Writers = {w1, w2}
  Runners = {}
  Contents = {"plain"}
  Ids = {"art"}
  Id <- MCId
  Scan <- MCScan
  MaxFaults = 0
  None = None
  Empty = Empty
  Torn = Torn
  Foreign = Foreign
INVARIANT ConcurrentStoresVerify
CHECK_DEADLOCK FALSE
