SPECIFICATION Spec
CONSTANTS
  PageSize = 4
  Megabyte = 10
  MaxMegabytes = 5
  HeapPages = 2
  WindowStart = 20
  WindowSize = 8
  BootMemory = {0, 1, 2, 3, 6}
  KernelEnds = {9, 13}
  Requests = {0, 1, 2, 3}
  NULL = NULL
INVARIANTS
  TypeOK
  BitmapExact
  ScanRun
PROPERTIES
  ImplementsPool
