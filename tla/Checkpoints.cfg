CONSTANTS
  Docs = {d1, d2}
  Bodies = {a, b}
  Formats = {utf8, utf16}
  Unrecordable = {}
  None = none
  MaxRevisions = 2
SPECIFICATION Spec
INVARIANTS
  TypeOK
  RecordedIsOnDisk
  ClosedLeaveNothing
PROPERTIES
  EditsGetRecorded
  SavedSnapshotsGo
