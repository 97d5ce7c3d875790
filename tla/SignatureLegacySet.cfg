SPECIFICATION Spec
CONSTANTS
  Uses <- DerUses
  HeaderSize = 3
  IndexSize = 2
  BlobHeader = 2
  CdHeader = 10
  MaxAlternates = 3
  FirstAlternate = 4096
  WordSize = 2
  MaxEntries = 2
  MaxDepth = 2
  IntBytes = 2
  MaxItems = 2
  MaxValueDepth = 2
INVARIANTS
  LegacySetDecodes
