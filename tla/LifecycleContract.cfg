SPECIFICATION Spec
CONSTANTS
  Jobs = {j1}
  Ext = Ext
  NoJob = NoJob
  MaxRevisions = 1
  PersistMayFail = FALSE
  Clients = {c1, c2}
  CriteriaKinds = {"test"}
  RequiredKinds = {"test"}
  TestResults = {"PASS"}
  ApprovalRequired = TRUE
  MaxVersion = 8
  MaxFlow = 1
  MaxApprovals = 1
  MaxTime = 1
SYMMETRY ClientSymmetry
INVARIANT ClosedUnderApproval
PROPERTIES
  ImplementsContract
  DesignFrozen
