SPECIFICATION Spec
CONSTANTS
  WIDTH = 6
  HEIGHT = 2
  Characters <- Chars
  Letters = {"e"}
  Symbols = {" "}
  Shifted <- ShiftedKeys
  DEFAULT_PROMPT <- Prompt
  TAB <- TabSpaces
  Echo <- EchoWord
  Help <- HelpWord
  HelpText <- HelpLines
  Error <- ErrorLine
  MaxKeys = 6
INVARIANTS
  TypeOK
  PlainCommandsRun
  ScrollingKeepsText
  EarlierLinesStay
CHECK_DEADLOCK FALSE
