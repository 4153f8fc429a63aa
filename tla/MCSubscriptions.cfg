SPECIFICATION Spec
CONSTANTS
  Listeners = {l1, l2}
  Filters <- MCFilters
  Capacity = 2
  MaxStreams = 2
  MaxEvents = 3
INVARIANTS NothingLost EndsWithResponse NoLeak
PROPERTY ClosedEnds
CHECK_DEADLOCK FALSE
