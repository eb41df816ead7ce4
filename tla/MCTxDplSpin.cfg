SPECIFICATION FairSpec
CONSTANTS
  Senders = {s1}
  Pkts = {p1, p2}
  GetLimit = 1
  PutLimit = 2
  PoolMax = 1
  RingSize = 2
  TxBatch = 1
  MaxSend = 6
  MaxStops = 0
  KstatReads = FALSE
  MayReject = FALSE
  CreateMayFail = FALSE
PROPERTIES EventsHandled
CHECK_DEADLOCK FALSE
