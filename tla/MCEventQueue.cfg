SPECIFICATION FairSpec
CONSTANTS
  NAlloc = 2
  Ring = 3
  EvBatch = 3
  TxBatch = 1
  Tests = TRUE
  MaxEvents = 4
  MaxStarts = 2
INVARIANTS PollOwnsQueue InterruptOwed
PROPERTIES DeliversInOrder EventsHandled
CHECK_DEADLOCK FALSE
