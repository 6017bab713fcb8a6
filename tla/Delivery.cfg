SPECIFICATION Spec
CONSTANTS
  None = None
  MaxCalls <- MCMaxCalls
  MaxTrouble <- MCMaxTrouble
  MaxMoves <- MCMaxMoves
  Wishes <- MCWishes
  MaxActions = 3
  MaxFiles = 3
  TotalFiles = 2
  BatchFiles = 2
  Tasks = {"approvals", "market", "compliance"}
INVARIANTS ApprovalInv ComplianceInv
PROPERTIES ListingsHold
CHECK_DEADLOCK FALSE
