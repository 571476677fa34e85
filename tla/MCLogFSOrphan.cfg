SPECIFICATION HSpec
CONSTANTS
  Names = {"a", "b"}
  Payloads <- MCPayloads
  LogCells = 8
  BlockCells = 2
  MAX_FILES = 2
  MAX_SEGMENTS = 1
  MaxId = 3
PROPERTY CreatedStays
