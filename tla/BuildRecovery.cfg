SPECIFICATION FairSpec
CONSTANTS
  Contents = {"broken", "repaired"}
  Gone = Gone
  NoRevision = NoRevision
  MaxExecutions = 3
  Policy <- MCPolicy
  ChildCodes <- MCChildCodes
  MaxTroubles = 2
  Budgets <- MCBudgets
  MaxRunning = 1
  MaxCanonical = 2
  Applications = {p1}
  None = None
  MaxVersion = 7
  MaxTests = 1
INVARIANTS
  RecoveryTypeOK
  PassIsEarned
  FixedBuildHasLineage
  VerifiedRepairIsTheChange
PROPERTY ExecutionsEnd
