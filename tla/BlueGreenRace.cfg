SPECIFICATION Spec
CONSTANTS
  Managers = {m1, m2}
  Revisions = {1, 2, 3}
  MaxAttempts = 2
  MaxInFlight = 1
  MaxRunning = 2
INVARIANT OneDeploymentAtATime
CHECK_DEADLOCK FALSE
