SPECIFICATION CSpec
CONSTANTS
  p1 = p1
  p2 = p2
  Process = {p1, p2}
  MaxDeks = 2
  MaxMasters = 2
  MaxSeals = 3
  MaxDocuments = 1
  Chosen = {"store", "track"}
  Church = Church
  Absent = Absent
  Empty = Empty
VIEW HeldView
SYMMETRY Interchangeable
INVARIANTS
  OneKeyPerChurch
  KeyIsRecoverable
  EveryRecordHasItsFile
  BackupComesFirst
