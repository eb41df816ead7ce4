SPECIFICATION Spec
CONSTANTS
  Senders = {s1, s2}
  Pkts = {p1, p2, p3}
  GetLimit = 2
  PutLimit = 3
  PoolMax = 1
  RingSize = 2
  TxBatch = 2
  MaxSend = 2
  MaxStops = 1
  KstatReads = TRUE
  MayReject = TRUE
  CreateMayFail = TRUE
INVARIANTS OnePlace InOrder ListAsserts
CHECK_DEADLOCK FALSE
