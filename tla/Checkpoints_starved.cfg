CONSTANTS
  Docs = {d1, d2}
  Bodies = {a, b}
  Formats = {utf8}
  Unrecordable = {d1}
  None = none
  MaxRevisions = 1
SPECIFICATION Spec
PROPERTY EditsGetRecorded
