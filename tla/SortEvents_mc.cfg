SPECIFICATION SortSpec
CONSTANTS
  N = 4
  Orders <- McOrders
INVARIANTS NeverAborts OrdersMet
PROPERTY SortEnds
CHECK_DEADLOCK FALSE
