SPECIFICATION RngFairSpec
CONSTANTS
  Size = 4
  IdxMod = 8
INVARIANTS RngRequestSound
PROPERTY FillEnds
