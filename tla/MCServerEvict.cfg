\* One request: a committed write above the high water mark.
SPECIFICATION MCFairSpec
CONSTANTS
  k1 = k1
  Modes <- AnyMode
  h1 = h1
  NoKey = NoKey
  NoRequest = NoRequest
  NoTimer = NoTimer
  Evictor = Evictor
  Expirer = Expirer
  Keys = {k1}
  Hashes = {h1}
  HashOf <- MCHashOf
  Requests = {r1}
  Tasks <- MCTasks
  Metadata <- MCMetadata
  Fresh <- MCFresh
  SizeOf <- MCSizeOf
  Tokens = {1, 2}
  MaxConcurrency = 2
  LeaseTimeout = 1
  Lwm = 0
  Hwm = 0
PROPERTIES
  EvictionStarts
CHECK_DEADLOCK FALSE
