SPECIFICATION RuntimeSpec
CONSTANTS
  ByteRange = 4
  LbaRange = 16
  SpinLimit = 2
  DiskSectors = 14
  Reads = {}
  HeaderBytes = 3
  EntryBytes = 2
  SectorBytes = 2
  PageSize = 4
  VolumeLba = 2
  Volumes <- MCVolumes
  Truncated <- MCTruncated
  NULL = NULL
  ElfHeaderBytes = 1
  AddressRange = 32
  MemoryBytes = 8
  WindowStart = 2
  WindowSize = 4
  ExitCodes = {0, 1}
INVARIANTS
  ReadsBootDisk
