SPECIFICATION Spec
CONSTANTS
  ParseSet = {f}
  KernelSet = {f, g}
  Contents = {"a", "a + comment", "a + body", "b"}
  Evidence <- MCEvidence
  Signature <- MCSignature
  Bound = {f}
  Missing = Missing
  Never = Never
  MaxRevision = 2
  MaxEdits = 3
  MaxTroubles = 2
INVARIANTS
  SyncTypeOK
  AcknowledgedIsProjected
PROPERTY CommitIsComplete
CHECK_DEADLOCK FALSE
