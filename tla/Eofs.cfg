SPECIFICATION ModeSpec
CONSTANTS
  Modes = {"reuse", "snapshots", "tail"}
  SnapBlocks = 3
  Names = {a}
  Values = {v1}
  SnapNames = {s}
  Absent = Absent
  Empty = Empty
  Zero = Zero
  Torn = Torn
  NoFs = NoFs
  NBlocks = 4
  MaxTxg = 3
  MaxFormats = 1
  WithGc = TRUE
  TailFaults = FALSE
INVARIANTS TypeOK TreesIntact
PROPERTIES ImplementsTxnFs AcknowledgedSurvives
CHECK_DEADLOCK FALSE
VIEW EofsView
