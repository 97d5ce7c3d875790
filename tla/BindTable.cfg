SPECIFICATION ImportSpec
CONSTANTS
  Files <- BindFiles
  Names = {"f", "g"}
  Dylibs = {"libA", "libB"}
  Blank = ""
  Unreadable = "?"
  ShortHalf = 2
  LongHalf = 4
  MaxAddend = 3
INVARIANTS
  ImportTypeOK
  LegacyThenChained
  ResolvesAsDyld
