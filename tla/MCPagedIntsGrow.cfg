\* A limit; the page size grows and shrinks between calls that leave no holes.
SPECIFICATION Spec
CONSTANTS
  Half = 8
  Limit = 7
  Values <- MCValues
  Requests <- MCRequests
  InitPageSizes = {2, 4}
  DefaultPageSize = 4
  Resizes <- Resizing
  StorAddrs = {0, 1, 2}
  StorVals = {1, 3, 7}
  LoadAddrs = {2, 5, 7, 8}
  BufAddrs = {1, 3}
  BufSizes = {6}
INVARIANTS SizeIsPastEverything PastLimitFails
