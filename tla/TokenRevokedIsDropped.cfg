SPECIFICATION Spec
CONSTANTS
  t1 = t1
  t2 = t2
  t3 = t3
  Tokens = {t1}
  Instances = {i1}
  Handlers = {h1, h2}
  PrefixOf <- DistinctPrefixes
  Capacity = 1
  TTL = 2
  Flight = 1
  Second = 1
  MaxTime = 2
INVARIANT RevokedIsDropped
