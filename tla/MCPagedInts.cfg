\* Addresses of 4 bits, pages of 3 cells (16 is no multiple of 3) or of 4, then 2.
SPECIFICATION FairSpec
CONSTANTS
  Half = 8
  Limit = 0
  Values <- MCValues
  Requests <- MCRequests
  InitPageSizes = {0, 3}
  DefaultPageSize = 4
  Resizes <- Halving
  StorAddrs = {0, 2, 6, 9, 13}
  StorVals = {0, 1, 5}
  LoadAddrs = {0, 3, 8, 13, 15}
  BufAddrs = {0, 3, 13}
  BufSizes = {3}
INVARIANTS TypeOK PagesDisjoint
PROPERTIES CallsReturn ImplementsFlatMem
