\* Two requests for plain blobs, or one for blobs of all kinds: requests come to
\* an end, and expiry is scheduled.
SPECIFICATION MCFairSpec
CONSTANTS
  k1 = k1
  Modes <- LiveModes
  h1 = h1
  NoKey = NoKey
  NoRequest = NoRequest
  NoTimer = NoTimer
  Evictor = Evictor
  Expirer = Expirer
  Keys = {k1}
  Hashes = {h1}
  HashOf <- MCHashOf
  Requests = {r1, r2}
  Tasks <- MCTasks
  Metadata <- MCMetadata
  Fresh <- MCFresh
  SizeOf <- MCSizeOf
  Tokens = {1, 2}
  MaxConcurrency = 2
  LeaseTimeout = 1
  Lwm = 0
  Hwm = 0
PROPERTIES
  ServerIsLive
CHECK_DEADLOCK FALSE
