SPECIFICATION FairSpec
CONSTANTS
  Pkts = {p1, p2, p3, p4}
  NDescs = 4
  Limit = 3
  WptrAlign = 2
  CtrMod = 8
  HiWat = 3
  LoWat = 1
  Batch = 2
  Sizes = {1, 2}
  Coalesce = FALSE
  MaxStops = 1
  MaxFails = 1
INVARIANTS RingHolds OneOwner
PROPERTY RingRefilled
