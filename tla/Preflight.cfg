SPECIFICATION FairSpec
CONSTANTS
  None = None
  Envelope = Envelope
  Modes <- MCModes
  Starts <- MCStarts
  Edits <- MCEdits
  Ceilings = {4, 7}
  MaxTrouble = 2
  MaxLost = 1
INVARIANTS VerdictInv
PROPERTIES EveryCallEnds
CHECK_DEADLOCK FALSE
