SPECIFICATION PartsSpec
CONSTANTS
  Names = {"standard", "var", "varip"}
  Values = {0, 1, 2}
  Bars = {1, 2}
  Modifier <- ModifierDef
  Initial <- InitialDef
  Metrics = {1, 2}
  Times = {1, 2, 3, 4}
  Points = {1, 2}
  Retention = 2
  MaxRecords = 2
  MaxBatch = 2
  None = None
  Interval = 2
  TradeTimes = {0, 1, 2, 5}
  TradePrices = {1, 2, 3}
  Volumes = {1, 2}
  MaxTrades = 4
  Frame = 2
  Starts = {0, 1}
  TickTimes = {0, 1, 2}
  TickPrices = {1, 4}
  TickVolumes = {1}
  OriginalBar <- OriginalDef
  MaxTicks = 2
  Capacities = {1, 2, 3, 4}
  MaxAppends = 9
  Records <- RecordsDef
  Ranges <- RangesDef
  PageSizes = {1, 2, 3}
  CandlePrices = {2, 3, 4, 5, 6, 9}
  Bodies = {2, 5}
  BrickSize = 2
  ReversalPct = 50
  MaxInput = 5
  Items = {1, 2, 3, 4}
  EntryLimits = {2, 3}
  Nodes = {1, 2, 3, 4, 5, 6, 7, 8, 9, 10}
  SwingPrices = {1, 2, 3, 4}
  SwingMarks = {0, 1}
  Coordinates = {0, 1, 2}
  Sizes = {0, 1, 2}
INVARIANTS
  ClosePreserved
CHECK_DEADLOCK FALSE
