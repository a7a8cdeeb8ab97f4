SPECIFICATION FairSpec
CONSTANTS
  Queues <- MCQueues
  Printable = {"x", "y"}
  MaxRunes = 3
CHECK_DEADLOCK FALSE
INVARIANTS HeardIsTheText EndsAtTheEnd
PROPERTIES LoggedLineHoldsWord InputIsConsumed
