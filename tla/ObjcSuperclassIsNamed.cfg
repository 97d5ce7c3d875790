SPECIFICATION Spec
CONSTANTS
  nameA = nameA
  nameB = nameB
  symbol = symbol
  Static = Static
  None = None
  Names = {nameA, nameB, symbol}
  WordSize = 2
  PacUnit = 64
  StdUnit = 64
  SuperAt = 2
  BitsAt = 4
  ClassSize = 6
  NameAt = 0
  RoSize = 2
  Images <- ObjcImages
INVARIANTS
  SuperclassIsNamed
