SPECIFICATION ModeSpec
CONSTANTS
  Modes = {"reuse"}
  SnapBlocks = 3
  Names = {a}
  Values = {v1}
  SnapNames = {s}
  Absent = Absent
  Empty = Empty
  Zero = Zero
  Torn = Torn
  NoFs = NoFs
  NBlocks = 4
  MaxTxg = 3
  MaxFormats = 1
  WithGc = TRUE
  TailFaults = TRUE
INVARIANTS MountsIntact
CHECK_DEADLOCK FALSE
VIEW EofsView
