\* Three requests for two permits, with leases and failures; two requests with the evict
\* and expire tasks and shutdown.
SPECIFICATION MCSpec
CONSTANTS
  k1 = k1
  h1 = h1
  NoKey = NoKey
  NoRequest = NoRequest
  NoTimer = NoTimer
  Evictor = Evictor
  Expirer = Expirer
  Keys = {k1}
  Hashes = {h1}
  HashOf <- MCHashOf
  Requests = {r1, r2, r3}
  Tasks <- MCTasks
  Metadata <- SomeMetadata
  Modes <- SafeModes
  Fresh <- MCFresh
  SizeOf <- MCSizeOf
  Tokens = {1, 2}
  MaxConcurrency = 2
  LeaseTimeout = 1
  Lwm = 0
  Hwm = 0
SYMMETRY Symmetry
INVARIANTS
  ServerInv
  OneResponse
  ExpiryKept
CHECK_DEADLOCK FALSE
