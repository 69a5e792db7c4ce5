SPECIFICATION PartsSpec
CONSTANTS
  Managers = {1, 2, 3}
  Revisions = {1, 2, 3}
  MaxAttempts = 2
  MaxInFlight = 1
  MaxRunning = 1
  Callers = {1, 2}
  Deliveries = {d1, d2}
  Limits = {0, 1, 2}
  MaxPosts = 3
  Nothing = Nothing
  Charts = {1, 2, 3}
  MaxSubs = 4
  MaxCasts = 2
  MaxDepth = 2
  Nobody = 0
  Kinds = {"valid", "invalid", "other"}
  MaxPublish = 3
  MaxRuns = 2
  Clients = {k1, k2}
  Keys = {1}
  Entries = {v1, v2}
  Absent = Absent
  MaxCalls = 5
  Pixels = 2
  MaxFrames = 2
  MaxDrawn = 4
  MaxSteps = 2
  EventTimes = {1, 2}
  SequenceIds = {0, 1}
  MaxEvents = 3
  MaxHandlers = 2
  MaxDispatches = 2
CONSTRAINT InTurn
INVARIANTS
  DeadLetterOnce
  EveryPeerOnce
  AtMostOnce
  ServesLastStored
  EventsInOrder
PROPERTIES
  RolloutsAreSafe
  FramesAreWhole
CHECK_DEADLOCK FALSE
