\* Each building block of g1 with a few tasks, futures, values and faults.
SPECIFICATION MCSpec
CONSTANTS
  Focuses = {"broadcast", "ready_queue", "mpmc", "join", "vec_list", "ordered_map", "lru",
             "bi_table", "bi_graph"}
  BcSenders = {s1, s2}
  BcReceivers = {r1, r2}
  BcCapacity = 2
  BcSerials = 4
  BcMaxSent = 3
  RqFutures = {f1, f2}
  RqReady = {p1}
  RqPop = {p2, p3}
  RqMaxSerial = 2
  MpSenders = {s1, s2}
  MpReceivers = {r1, r2}
  MpSize = 1
  MpMaxSent = 3
  JtTasks = {t1, t2}
  JtStubborn = {t2}
  JtEnds = {"ok", "err"}
  VlValues = {"a", "b"}
  VlMaxNodes = 4
  OmKeys = {k1, k2, k3}
  OmValues = {1}
  LcThreads = {1, 2}
  LcKeys = {k1, k2, k3}
  LcValues = {1}
  LcMaxSize = 2
  LcTimeout = 1
  LcMaxTime = 2
  LcMaxRecency = 4
  BtRows = {1, 2, 3}
  BtColumns = {1, 2, 3}
  BtValues = {1}
  BtCursors = {1, 2, 3}
  BgKeys = {1, 2}
  BgValues = {1, 2, 3}
  BgCursors = {1, 2, 3}
INVARIANTS
  BroadcastIsExact
  MpmcIsSound
  ShutdownIsSound
  CollectionsAreExact
  CacheIsLru
PROPERTIES
  QueueIsSound
SYMMETRY MCSymmetry
CHECK_DEADLOCK FALSE
