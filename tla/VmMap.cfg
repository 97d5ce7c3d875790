SPECIFICATION MapSpec
CONSTANTS
  NoOffset = NoOffset
  Limit = 8
  Tables <- SegmentTables
INVARIANTS
  OffsetIsBacked
  BackedIsFound
