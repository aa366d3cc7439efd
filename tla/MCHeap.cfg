SPECIFICATION Spec
CONSTANTS
  HeapBytes = 240
  SizeRange = 1024
  Requests = {0, 1, 17, 48, 100, 1010}
  NULL = NULL
INVARIANTS
  TypeOK
  Tiled
  GrantsHold
  Coalesced
  WalkOnList
PROPERTIES
  FailsOnlyWhenFull
