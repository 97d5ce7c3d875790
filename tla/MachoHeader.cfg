SPECIFICATION Spec
CONSTANTS
  v1 = v1
  v2 = v2
  v3 = v3
  path = path
  Any = Any
  None = None
  Versions = {v1, v2, v3}
  Values = {v1, path}
  AnySubtype = 7
  CapsUnit = 4
  Payload = 2
  Width = 5
  Files <- MachoFiles
  Wants <- Selections
INVARIANTS
  YieldsEveryStart
  FirstMatchingSlice
  BuildVersionWins
  CountsStarts
