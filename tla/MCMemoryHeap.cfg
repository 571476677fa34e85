SPECIFICATION Spec
CONSTANTS
  PageCount = 9
  KernelStart = 3
  BitmapEnd = 5
  PageUnits = 2
  MaxProgram = 2
  BlockUnits = {1, 3}
INVARIANT HeapAndPagesDisjoint
CHECK_DEADLOCK FALSE
