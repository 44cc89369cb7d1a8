CONSTANTS
  Parts = {"tasks", "gate", "disk", "buffers", "kbuffers", "usb", "algebra"}
  SlotCount = 2 LiveCap = 2 MaxPrograms = 2 MaxKeys = 1 RootIsConsole = FALSE
  Kids = {"k1", "k2"} MaxCalls = 2 MaxRuns = 2
  SavedNames = {"s"} BakedNames = {"b"} Compositions = {"x", "y"} Builds = {"v1", "v2"}
  Chunks = {"c"} MaxChunks = 2 CacheEntries = 1 MaxHandles = 1 MaxFaults = 1 MaxBoots = 2
  MaxBuffers = 4 MaxLen = 2 MaxTotal = 4 KMaxBuffers = 4 KMaxLen = 2 KMaxTotal = 4 Overlaps = FALSE
  BlockCells = 2 Blocks = 2 DataCap = 2 Requests <- DiskCalls ReadyAttempts = 2 TagSpace = 4 LateWrites = FALSE MaxUsbFaults = 2
  NoOp = NoOp NoTd = NoTd
  Library <- Shelf Interfaces <- Kinds AllowLists <- Lists Relabels <- Labels WithSlots = {"scratch"}
  Failed = Failed Unnamed = Unnamed NoProvider = NoProvider MaxParts = 4
SPECIFICATION Spec
VIEW KernelView
INVARIANTS
  KernelTypeOK OneEntry NothingStranded
  NoCallLeftBehind GrantsAreTheirOwn
  ServesWhatWasStored AckedSurvivesReset HandlesOwnBytes BudgetsAreExact
  CommandsStandAlone OnlyItsOwnBytes
  LayersLaw ConfiguredInOrder GatesHold
CHECK_DEADLOCK FALSE
