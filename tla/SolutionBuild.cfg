SPECIFICATION FairSpec
CONSTANTS
  Plans <- AllPlans
  Defects <- MCDefects
  MaxEdits <- MCMaxEdits
INVARIANTS TypeOK NothingOnAFailure LeftBehindIsNamed ReadyIsLive
PROPERTIES DependenciesFirst RunReports
CHECK_DEADLOCK FALSE
