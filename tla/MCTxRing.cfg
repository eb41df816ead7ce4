SPECIFICATION FairSpec
CONSTANTS
  NDescs = 6
  Spare = 1
  Level1 = 0
  Batch = 2
  MaxFrag = 2
  CtrMod = 12
INVARIANTS IndexOrder SlotsAgree
PROPERTY Unblocks
