SPECIFICATION Spec
CONSTANTS
  Clients = {c1, c2}
  Paths = {f}
  Cells = {x}
  Hole = Hole
  Absent = Absent
  Dir = Dir
  Idle = Idle
  NoHandle = NoHandle
  MaxOffset = 1
PROPERTIES WritesNeedTheFile
