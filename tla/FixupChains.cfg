SPECIFICATION Spec
CONSTANTS
  Images <- AllImages
  DataLen = 6
  SlotSize = 2
  LongStride = 2
  ShortStride = 1
  MultiBit = 4
  MaxU = 13
INVARIANTS
  TypeOK
  RowsOnDisk
  WalkOrder
  OneRowPerAddress
PROPERTIES
  Forward
  ReportsEverySlot
