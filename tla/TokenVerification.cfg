SPECIFICATION FairSpec
CONSTANTS
  t1 = t1
  t2 = t2
  t3 = t3
  Tokens = {t1, t2}
  Instances = {i1}
  Handlers = {h1, h2}
  PrefixOf <- SharedPrefix
  Capacity = 1
  TTL = 1
  Flight = 1
  Second = 3
  MaxTime = 3
INVARIANTS TypeOK CacheBounded StalenessBounded ServedIsAccepted RevocationHolds
PROPERTIES OnlyPresentedDies RequestsEnd
