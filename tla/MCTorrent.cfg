\* A torrent with two pieces that comes and goes with two connections, one connection
\* from half-open to closed, two blocks wanted from two peers, one peer that is served;
\* DHT tables and lookups with a handful of nodes; short bencoded inputs.
SPECIFICATION MCSpec
CONSTANTS
  Focuses = {"schedule", "peers", "notices", "download", "upload",
             "dht_routing", "dht_table", "dht_lookup", "bencode"}
  TmPieces = {0, 1}
  TmConns = {1, 2}
  TmMaxUpdates = 6
  TpConns = {1}
  TpMaxMessages = 3
  TpBacklogLimit = 1
  TpNoConn = 0
  BdPieces = {0, 1}
  BdBlocks <- MCBdBlocks
  BdConns = {1, 3}
  BdEndpoint <- MCBdEndpoint
  BdWindow = 2
  BdInflights = 2
  BdMaxInbox = 1
  BdMaxEvents = 3
  BuLower = 1
  BuUpper = 2
  BuLimit = 2
  BuSizes = {1, 2, 3}
  BuMaxSum = 3
  DhBits = 3
  DhSelf = 0
  DhK = 3
  DhNodes <- MCDhNodes
  DhQueueSize = 1
  DhMaxTasks = 1
  DhMaxTime = 5
  DtBits = 3
  DtSelf = 0
  DtK = 2
  DtNetworks <- MCDtNetworks
  DtInactivity = 1
  DtFailures = 2
  DtRefreshTime = 1
  DtMaxFulls = 2
  DtMaxCalls = 4
  DtMaxTime = 2
  DlBits = 3
  DlAlpha = 2
  DlTarget = 1
  DlNodes <- MCDlNodes
  DlMaxBoot = 2
  DlMaxTold = 2
  BcIntMax = 11
  BcBuf = 3
  BcLimit = 4
  BcAlphabet = {45, 48, 49, 58, 100, 101, 105, 108}
  BcMaxLen = 5
  BcCases <- MCCases
INVARIANTS
  FollowersAreExact
  PeersAreKept
  DownloadIsSound
  DhtIsSound
  FormatIsSound
PROPERTIES
  UploadIsFair
CHECK_DEADLOCK FALSE
