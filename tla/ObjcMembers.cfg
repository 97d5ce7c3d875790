SPECIFICATION Spec
CONSTANTS
  Images <- MembersImages
  Strings <- AllStrings
  WordSize = 8
  HalfUnit = 4096
  PacUnit = 16384
  None = None
  SizeUnit = 64
  LowFlags = 4
  DirectFlag = 1024
  SmallFlag = 2048
  ByteUnit = 256
  MaxNames = 1024
  ClassProps = 64
INVARIANTS
  MembersAsWritten
  EachRowOnce
  ItemsSpanString
