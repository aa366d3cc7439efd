SPECIFICATION MachineSpec
CONSTANTS
  BufferSize = 2
  IndexRange = 2
  Char = {"a", "enter", "bksp"}
  NUL = NUL
  keymap <- MCkeymap
  shifted_keymap <- MCshifted_keymap
  ScanCodes = {30, 28}
  InputSize = 2
  TickRange = 2
  Backspace = "bksp"
  Newline = "enter"
PROPERTIES
  RebootRestarts
