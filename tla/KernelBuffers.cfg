CONSTANTS
  Parts = {"kbuffers"}
  SlotCount = 2 LiveCap = 2 MaxPrograms = 2 MaxKeys = 1 RootIsConsole = FALSE
  Kids = {"k1", "k2"} MaxCalls = 3 MaxRuns = 2
  SavedNames = {"s"} BakedNames = {"b"} Compositions = {"x", "y"} Builds = {"v1", "v2"}
  Chunks = {"c"} MaxChunks = 2 CacheEntries = 1 MaxHandles = 1 MaxFaults = 2 MaxBoots = 2
  MaxBuffers = 4 MaxLen = 2 MaxTotal = 4 KMaxBuffers = 4 KMaxLen = 2 KMaxTotal = 4 Overlaps = TRUE
  BlockCells = 2 Blocks = 2 DataCap = 2 Requests <- DiskCalls ReadyAttempts = 2 TagSpace = 4 LateWrites = FALSE MaxUsbFaults = 1
  NoOp = NoOp NoTd = NoTd
  Library <- Shelf Interfaces <- Kinds AllowLists <- Lists Relabels <- Labels WithSlots = {"scratch"}
  Failed = Failed Unnamed = Unnamed NoProvider = NoProvider MaxParts = 1
SPECIFICATION Spec
INVARIANT KHandlesOwnBytes
CHECK_DEADLOCK FALSE
