SPECIFICATION Spec
CONSTANTS
  callee = callee
  commented = commented
  user = user
  broken = broken
  unit = unit
  either = either
  header = header
  f = f
  g = g
  h = h
  Names <- MCNames
  Absent = Absent
  Broken = Broken
  Unread = Unread
  Files <- MCThree
  Contents <- MCContents
  Versions <- MCVersions
  Facts <- MCFacts
  External <- MCExternal
  Postgres = TRUE
  MaxRevisions = 3
  MaxEdits = 2
  MaxUpgrades = 1
INVARIANTS
  IndexTypeOK
  
  ReceiptsAreOfTheFacts
PROPERTY
  LineageIsLinear
CHECK_DEADLOCK FALSE
