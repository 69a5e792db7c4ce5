SPECIFICATION PartsSpec
CONSTANTS
  Senders = {s1, s2}
  BeginStrings = {fix44, fixt11}
  SeqNums = {1, 2, NoField}
  Heartbeats = {10, NoField}
  NoField = NoField
  MaxSessions = 3
  Tasks = {1, 2, 3}
  Conns = {1, 2}
  Null = Null
  MaxRetries = 2
  BaseDelay = 2
  MaxDelay = 3
  AdapterTasks = {1, 2, 3, 4, 5}
  None = None
SYMMETRY Symmetry
CONSTRAINT InTurn
INVARIANTS
  RegistriesAgree
  SocketsAreSound
  ClientsAreSound
PROPERTIES
  SenderIsolation
CHECK_DEADLOCK FALSE
