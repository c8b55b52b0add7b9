SPECIFICATION FairSpec
CONSTANTS
  a1 = a1
  a2 = a2
  r1 = r1
  Analyses <- MCAnalyses
  Revisions <- MCOneRevision
  None = None
  Batches = 2
  MaxRuns = 2
  MaxEdits = 1
  MaxTroubles = 1
INVARIANTS
  ProviderTypeOK
  PublishedIsWhole
  CurrentIsThere
  UndisturbedFactsAreFresh
PROPERTIES
  RevisionsAreImmutable
  RunsEnd
CHECK_DEADLOCK FALSE
