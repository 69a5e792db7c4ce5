SPECIFICATION PartsSpec
CONSTANTS
  DepthLimit = 9
  SeriesValues = {0, 1, 3}
  NA = NA
  Windows = {1, 2, 3}
  MaxLength = 4
  Plots = {1, 2}
  Widths = {1, 2}
  BarCount = 2
  Period = 2
  OutputLimit = 4
  MaxSignals = 2
  MaxDepthOfIf = 2
  Budgets = {2, 6}
  BookLevels = {1, 2, 3, 4, 5, 6}
  Amounts = {1, 2}
  Doubles = {7}
  Bits = 16
  BadBytes = {0, 1, 49, 130, 255}
  None = None
INVARIANTS
  ScriptsReadAsWritten
  SeriesAgree
  ScriptsRunAsWritten
  TreeHolds
  MessagesSurvive
CHECK_DEADLOCK FALSE
