SPECIFICATION PSpec
CONSTANTS
  PageCount = 8
  KernelStart = 3
  BitmapEnd = 4
  PageUnits = 1
  MaxProgram = 3
  BlockUnits = {3}
  PageSize = 4
  Chunk = 3
  BlockSize = 3
  CodePage = 1
  FlatMaxPages = 2
  Word = 64
  IndexMod = 8
  BlobSize = 2
  MaxLent = 1
  FileSystems <- MCFileSystems
  Paths <- MCPaths
INVARIANTS OneOwner WindowOwned ImageIntact
PROPERTY ImplementsMemory
CHECK_DEADLOCK FALSE
