SPECIFICATION FairSpec
CONSTANTS
  Size = 4
  IdxMod = 8
INVARIANTS DescriptorsConserved ReturnsItsAnswer RingCaughtUp
PROPERTY TransferEnds
