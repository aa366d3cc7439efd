SPECIFICATION MachineSpec
CONSTANTS
  BufferSize = 3
  IndexRange = 3
  Char = {"a", "enter", "bksp"}
  NUL = NUL
  keymap <- MCkeymap
  shifted_keymap <- MCshifted_keymap
  ScanCodes = {42, 170, 30, 158, 28, 14}
  InputSize = 3
  TickRange = 1
  Backspace = "bksp"
  Newline = "enter"
INVARIANTS
  MachineTypeOK
  OneHandler
  Acknowledged
PROPERTIES
  UsesKeyboard
