SPECIFICATION Spec
CONSTANTS
  one = one
  other = other
  Aliases <- OneAlias
  Dirs <- OneDir
  Tasks = {"raced"}
  Runs <- MCRuns
  Commands <- MCCommands
  Hash <- Straight
  Gated = {2}
  Breaking = {3}
  Failures <- MCFailures
  MaxChanges <- MCMaxChanges
PROPERTIES EveryMoveIsVetted
CHECK_DEADLOCK FALSE
