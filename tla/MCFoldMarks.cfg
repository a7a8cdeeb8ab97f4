\* Six lines of two places, three return stacks, marks of their own or none.
SPECIFICATION Spec
CONSTANTS
  Lines <- MCLines
  Scannings <- MCScannings
  MayFail = TRUE
  MaxLines = 6
CHECK_DEADLOCK FALSE
INVARIANTS TextIsKept EveryFoldIsClosed FoldsFollowPlaces
