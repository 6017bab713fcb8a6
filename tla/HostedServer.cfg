SPECIFICATION FairSpec
CONSTANTS
  Installs = {a, b}
  Redirects = {web, custom}
  Usable = {web}
  MaxUris = 1
  LoginTtl = 1
  CodeTtl = 1
  Posts = {p}
  Faults = {"unreachable", "lost", "throttled", "not a credential"}
  MaxNow = 2
  MaxLogins = 2
  MaxOnce = 1
  MaxKeys = 2
  Slots = {s1, s2}
  Overlap = FALSE
  s1 = s1
  s2 = s2
INVARIANTS LoginInv EndpointInv
PROPERTIES TransportsAreReleased
CHECK_DEADLOCK FALSE
