SPECIFICATION Spec
CONSTANTS
  Jobs = {j1, j2}
  Ext = Ext
  NoJob = NoJob
  MaxRevisions = 2
  PersistMayFail = TRUE
  Clients = {c1}
  CriteriaKinds = {"test"}
  RequiredKinds = {"test"}
  TestResults = {"PASS", "FAIL"}
  ApprovalRequired = FALSE
  MaxVersion = 9
  MaxFlow = 2
  MaxApprovals = 0
  MaxTime = 1
INVARIANTS
  TypeOK
  ObservationIsJobOutput
  VerifiedByTest
  EvidenceChain
