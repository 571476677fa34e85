SPECIFICATION FairSpec
CONSTANTS
  Size = 2
  IdxMod = 4
  CAPACITY = 3
  ShiftKeys = {LeftShift, RightShift}
  Letter = A
  MaxEvents = 4
INVARIANTS BuffersConserved KeysInOrder CharsAsTyped
PROPERTIES RingIsQueue DeviceGetsBuffers
