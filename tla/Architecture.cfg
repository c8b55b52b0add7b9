\* Three requests that overtake each other, and one proposal.
SPECIFICATION Spec
CONSTANTS
  AsIs = AsIs
  Proposals = {tobe}
  Texts = {"before", "after"}
  Kinds = {"USES", "CALLS"}
  Entities = {e}
  Seeds <- MCNested
  Clients = {c1, c2, c3}
  None = None
  MaxRequests = 3
SYMMETRY ClientSymmetry
INVARIANTS
  ArchTypeOK
  DiffIsExact
PROPERTY ForkStartsEmpty
CHECK_DEADLOCK FALSE
