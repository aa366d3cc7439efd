SPECIFICATION Spec
CONSTANTS
  SectorBytes = 2
  MaxTransfer = 4
  ImageBytes = 40
  Stage1At = 4
  Stage2At = 6
  KernelAt = 14
  Stage2Stack = 3
  KernelStack = 29
  StackBytes = 2
  LowMemory = 30
  BssAlign = 2
  KernelSizes = {1, 4, 7, 9}
  BssSizes = {0, 1, 3}
  AppfsSizes = {1, 5}
  Stage2Sizes <- MCStage2Sizes
INVARIANTS
  RunsWhatWasBuilt
  HandsOver
