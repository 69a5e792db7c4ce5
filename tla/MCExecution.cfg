SPECIFICATION PartsSpec
CONSTANTS
  Brackets = {b1, b2}
  Orders = {o1, o2, o3}
  None = None
  GatewayMayRaise = TRUE
  ReuseOrders = TRUE
  OrderIds = {1, 2, 3}
  Prices = {0, 1, 2}
  Quantities = {1, 2, 3}
  Stamps = {1, 2}
  NoOrder = NoOrder
  StopIds = {1, 2}
  Stops <- StopOrders
  Symbols = {1}
  StopPrices = {4, 6, 10}
  MaxFed = 3
  MaxNesting = 2
  SimIds = {1, 2}
  SimOrders <- SimulatedOrders
  SimSymbols = {1}
  SimPrices = {1, 2, 3, 4}
  MaxSimTicks = 4
  MaxLevel = 3
  LotSizes = {1, 2, 3}
  MaxExit = 6
  MaxLots = 5
  Assets = {1, 2}
  TradeSizes = {1, 3}
  AssetPrices = {2, 3}
  InitialCash = 10
  MaxFills = 3
  MarkPrices = {0, 2, 3, 5}
  MaxMoves = 1
SYMMETRY Symmetry
CONSTRAINT IdsInTurn
INVARIANTS
  NoOrphanLeg
  AtMostOneCancel
  BookIsSound
  FillsAreDue
  AccountsAddUp
PROPERTIES
  PriorityHolds
  StopsHold
CHECK_DEADLOCK FALSE
