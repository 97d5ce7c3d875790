SPECIFICATION Spec
CONSTANTS
  Images <- AllImages
  WordSize = 2
  HalfUnit = 16
  PacUnit = 128
  None = None
  Copies = 2
  Signed = 4
  LayoutSize = 8
  EncodingBits = 8
  EncodingUnit = 2
  AsciiFlag = 4
  Utf16Flag = 6
INVARIANTS
  ReferencesInOrder
  LiteralsAsWritten
  FirstSectionTaken
  StringsAsWritten
