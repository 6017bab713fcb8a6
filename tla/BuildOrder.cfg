SPECIFICATION FairSpec
CONSTANTS
  a = a
  b = b
  c = c
  d = d
  Key = {a, b, c, d}
  KeyLists <- SmallLists
INVARIANTS TypeOK DepsPrecede LeftOutIsCyclic
PROPERTY SortReturns
CHECK_DEADLOCK FALSE
