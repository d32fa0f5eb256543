SPECIFICATION ShellSpec
CONSTANTS
  Threshold = {0, 5}
  Selection = {{0}, {1}}
INVARIANTS
  ShellOK
  ViewIsCurrent
  DiesOfBothOptions
PROPERTY DefaultIsDefault
CHECK_DEADLOCK FALSE
