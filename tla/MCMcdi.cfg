SPECIFICATION FairSpec
CONSTANTS
  Threads = {t1, t2}
  SeqMod = 2
  MaxLate = 2
  MaxSeq = 3
  MaxReboots = 1
INVARIANTS OneRequest OwnAnswer
PROPERTY RequestReturns
CHECK_DEADLOCK FALSE
