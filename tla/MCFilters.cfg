SPECIFICATION SpecFilters
CONSTANTS
  Addrs = {"u1", "u2"}
  Lists <- MCLists
  TblRows = 6
  Limit = 5
  HomeRow <- MCHash
  Overlap = FALSE
  MaxOps = 2
  MaxStarts = 2
  MaxFails = 2
  Gen <- MCGen
  Size <- MCSize
  SrchMax = 3
  Home <- MCHome
  Stride <- MCStride
  MaxCalls = 5
INVARIANTS TablesAgree FiltersAgree Applied NoDuplicates
PROPERTIES UnicastKept
CHECK_DEADLOCK FALSE
