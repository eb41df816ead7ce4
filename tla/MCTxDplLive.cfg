SPECIFICATION FairSpec
CONSTANTS
  Senders = {s1, s2}
  Pkts = {p1, p2, p3}
  GetLimit = 1
  PutLimit = 2
  PoolMax = 1
  RingSize = 2
  TxBatch = 2
  MaxSend = 2
  MaxStops = 0
  KstatReads = TRUE
  MayReject = FALSE
  CreateMayFail = FALSE
PROPERTIES ListsDrain BackpressureReleased
CHECK_DEADLOCK FALSE
