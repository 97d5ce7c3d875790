SPECIFICATION Spec
CONSTANTS
  Calls <- SwiftCalls
  WordSize = 8
  HalfUnit = 4096
  PacUnit = 16384
  None = None
  Limit = 16384
  ShortUnit = 64
  CaseUnit = 256
INVARIANTS
  RowsInOrder
  TablesInOrder
  TablesAsWritten
PROPERTIES
  Terminates
