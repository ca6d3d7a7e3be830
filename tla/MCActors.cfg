\* The BitTorrent client: two peers and a few pieces, requests, errors and timeouts.
\* The caches: three servers, one blob; a publisher, a watcher and a directory with a few
\* errors and restarts; two threads on two keys.
SPECIFICATION MCSpec
CONSTANTS
  Focuses = {"scheduler", "transceiver", "manager", "outgoing", "incoming",
             "cache_peers", "etcd_pubsub", "etcd_watch", "service", "kv", "kv_scan"}
  ScPeers = {1, 2}
  ScPieces = {0, 1}
  ScBackoff = 1
  ScHour = 2
  ScAssignments = 1
  ScReplicates = 1
  ScMaxTime = 1
  ScMaxErrors = 1
  TxPlans <- MCTxPlans
  TxLimit = 1
  TxEndgame = 0
  TxBudget = 3
  PmPeers = {p1, p2}
  PmPrefs <- MCPrefs
  PmMaxTasks = 3
  PmMaxAccepts = 1
  PcBlocks = {b1, b2}
  PcOutLimit = 1
  PcInLimit = 1
  PcTimeout = 1
  PcMaxRequests = 2
  PcMaxServed = 3
  PcMaxTime = 2
  CpServers = {1, 2, 3}
  CpReplicas = 1
  CpMaxTasks = 2
  CpMaxFaults = 1
  CpMaxStops = 1
  CpClient = {2}
  EpTtl = 2
  EpRetry = 1
  EpMaxDelays = 3
  EpMaxErrors = 3
  EpMaxRestarts = 1
  EpMaxTime = 6
  EwKeys = {k1, k2}
  EwValues = {1}
  EwRetries = 1
  EwCapacity = 2
  EwMaxChanges = 3
  EwMaxFaults = 2
  SdIds = {1, 2}
  SdDisconnect = 2
  SdMaxEvents = 3
  SdMaxBreaks = 1
  SdMaxFails = 1
  SdMaxTime = 5
  KvThreads = {1, 2}
  KvKeys = {k1, k2}
  KvExpires = {2}
  KvTarget = 1
  KvMaxTime = 4
  KvMaxFaults = 1
  KsKeys = {1, 2, 3}
  KsRecencies = 2
  KsChunk = 1
  KsMaxChanges = 1
INVARIANTS
  DownloadIsComplete
  ManagerIsConsistent
  RequestsAreKept
  PublicationHolds
  CopyCatchesUp
  DirectoryIsTrue
  CachedIsStored
  ScanIsExact
PROPERTIES
  BlobsMoveSafely
  ScheduleIsSound
CHECK_DEADLOCK FALSE
