SPECIFICATION FairSpec
CONSTANTS
  None = None
  Things <- MCThings
  Sources <- MCSources
  Kind <- MCKind
  DatasetOf <- MCDatasetOf
  Refs0 <- MCRefs0
  Exists0 <- MCExists0
  Jobs <- MCJobs
  Tier <- MCTier
  DocLists <- MCDocLists
  MaxCalls = 2
  Apart = FALSE
  MaxEdits = 1
  Dataset = "built"
  Overlap = FALSE
INVARIANTS WireInv KnowledgeInv
PROPERTIES LostOnlyToOverlap CallsReport
CHECK_DEADLOCK FALSE
