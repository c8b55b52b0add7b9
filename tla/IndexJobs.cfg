SPECIFICATION JobsSpec
CONSTANTS
  Jobs = {j1, j2}
  Ext = Ext
  MaxRevisions = 3
  PersistMayFail = TRUE
INVARIANTS
  JobsTypeOK
  DoneRowNamesOwnRevision
PROPERTIES
  RowsMoveForward
  EnqueuedJobSettles
