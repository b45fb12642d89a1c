\* Two issues read one by one; two edits of the field of the first.
SPECIFICATION Spec
CONSTANTS
  a = a None = None
  Values = {a}
  NumIssues = 2
  PageSize = 1
  Overlap = 0
  Minute = 2
  Behind = 0
  Logged = {2}
  MaxTime = 4
  Edited = {1}
  MaxEdits = 2
INVARIANTS TypeOK FieldTells NothingSkipped
