SPECIFICATION Spec
CONSTANTS
  Width = 4
  Height = 4
  HeaderRows = 1
  Prompt <- MCPrompt
  Blank = " "
  HeaderCell = "H"
  LineFeed = "LF"
  CarriageReturn = "CR"
  InputSize = 5
  Typed = {"a", "b"}
  Output = {"x"}
  NUL = NUL
  Garbage = "?"
  Clear <- MCClear
  Reboot <- MCReboot
  Echo <- MCEcho
  Launch <- MCLaunch
  Words <- MCWords
  MaxRows = 4
INVARIANTS
  TypeOK
  ScreenShowsTranscript
  EchoAgrees
  ExecutesTyped
