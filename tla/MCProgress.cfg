SPECIFICATION PartsSpec
CONSTANTS
  Charts = {c1, c2}
  Tasks = {t1, t2, t3}
  Versions = {1, 2}
  NoChart = NoChart
  Nobody = Nobody
  Brackets = {b1, b2}
  Orders = {o1, o2, o3}
  None = None
  GatewayMayRaise = FALSE
  ReuseOrders = FALSE
  SocketTasks = {s1, s2}
  Conns = {n1, n2}
  Null = Null
  MaxRetries = 2
  BaseDelay = 2
  MaxDelay = 3
  Kinds = {"valid", "invalid"}
  MaxPublish = 2
  MaxRuns = 2
  Scripts = {1, 2}
INVARIANTS
  TypeOK
  AcknowledgedIsKept
  RunsAreClean
PROPERTIES
  ImplementsRegister
  OneCancelsTheOther
  WorkerStops
  CallsEnd
CHECK_DEADLOCK FALSE
