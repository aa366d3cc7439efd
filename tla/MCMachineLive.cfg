SPECIFICATION MachineSpec
CONSTANTS
  BufferSize = 3
  IndexRange = 3
  Char = {"a", "enter", "bksp"}
  NUL = NUL
  keymap <- MCkeymap
  shifted_keymap <- MCshifted_keymap
  ScanCodes = {30, 158, 28}
  InputSize = 2
  TickRange = 2
  Backspace = "bksp"
  Newline = "enter"
PROPERTIES
  KeyRead
  RingDrained
  TimeAdvances
