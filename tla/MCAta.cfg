SPECIFICATION AtaSpec
CONSTANTS
  ByteRange = 4
  LbaRange = 16
  SpinLimit = 3
  DiskSectors = 9
  Reads <- MCReads
INVARIANTS
  AtaTypeOK
  ReadExact
PROPERTIES
  ReadReturns
  CallsReturn
