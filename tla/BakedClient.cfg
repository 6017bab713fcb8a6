SPECIFICATION Spec
CONSTANTS
  one = one
  other = other
  Aliases <- OneAlias
  Dirs <- OneDir
  Tasks = {"alone", "together"}
  Runs <- MCRuns
  Commands <- MCCommands
  Hash <- Straight
  Gated = {2}
  Breaking = {3}
  Failures <- MCFailures
  MaxChanges <- MCMaxChanges
INVARIANTS TypeOK VerifiedIsSound SyncedIsClean TypesMatchPin
PROPERTIES NothingUnasked LockFollowsClients
SYMMETRY Twins
CHECK_DEADLOCK FALSE
