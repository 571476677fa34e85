SPECIFICATION HSpec
CONSTANTS
  Names = {"a", "b"}
  Payloads <- MCPayloads
  LogCells = 7
  BlockCells = 2
  MAX_FILES = 2
  MAX_SEGMENTS = 2
  MaxId = 2
INVARIANTS IdsUnique SegmentsTile SegmentsHold ReadsAcknowledged
PROPERTIES LogStable Durable
