SPECIFICATION FairSpec
CONSTANTS
  None = None
  Kinds <- MCKinds
  Callable <- MCCallable
  Providers <- MCProviders
  Accounts <- MCAccounts
  Plain <- MCPlain
  AllowDeploy = {"yes", "no"}
  MaxCalls <- MCMaxCalls
  MaxTrouble <- MCMaxTrouble
  MaxEdits <- MCMaxEdits
  Tasks = {"building", "using"}
INVARIANTS SessionInv RunInv VerifiedIsSound
PROPERTIES DeploysHold EveryCallEnds
CHECK_DEADLOCK FALSE
