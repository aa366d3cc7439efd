SPECIFICATION Spec
CONSTANTS
  BufferSize = 4
  IndexRange = 4
  Char = {"a", "A", "enter", "bksp"}
  NUL = NUL
  keymap <- MCkeymap
  shifted_keymap <- MCshifted_keymap
  ScanCodes = {42, 170, 182, 158, 30, 28, 14}
INVARIANTS
  TypeOK
  PopUndisturbed
PROPERTIES
  ImplementsFifo
