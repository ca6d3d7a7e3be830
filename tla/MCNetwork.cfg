\* Short streams in one or both directions, with a loss, a duplicate, or an end that stops;
\* two calls over two request ids.
SPECIFICATION MCSpec
CONSTANTS
  Focuses = {"utp", "reqrep"}
  SeqN = 16
  AcceptBehind = 1
  AcceptAhead = 2
  DupAcks = 2
  AcksPast = 1
  RecvSize = 2
  SendLimit = 2
  SeqA = 14
  SeqB = 0
  Plans <- MCPlans
  FirstSeq <- MCFirstSeq
  FirstSize = 1
  PacketSizes <- MCPacketSizes
  StreamSize = 1
  RrCalls = {1, 2}
  RrIds = {1, 2}
  RrQueueSize = 2
  RrAcceptSize = 1
  RrTimeout = 1
  RrMaxSent = 2
  RrMaxTime = 3
INVARIANTS
  UtpInv
  StreamIsSound
PROPERTIES
  RequestsAreAnswered
CHECK_DEADLOCK FALSE
