SPECIFICATION Spec
CONSTANTS
  a1 = a1
  a2 = a2
  a3 = a3
  f1 = f1
  f2 = f2
  d1 = d1
  Admins = {a1, a2, a3}
  Founder = a1
  Levels = {"primary", "department", "custom"}
  PrimaryAdmin = "primary"
  DepartmentAdmin = "department"
  Capability <- MCCapability
  CapSets <- MCCapSets
  Departments = {d1}
  Files = {f1, f2}
  Fresh = {f2}
  Served <- MCServed
  NoLevel = NoLevel
  NoOne = NoOne
  Unborn = Unborn
  MaxEdits = 1
CHECK_DEADLOCK FALSE
VIEW StateView
SYMMETRY Others
INVARIANT ATypeOK
PROPERTIES
  NoEscalation
  StrandedOnlyByLevelEdit
  BacklogNotUnlockedByDeactivation
  OwnEntryDecidedOnlyWhenAlone
