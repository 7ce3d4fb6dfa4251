CONSTANTS
  r1 = r1
  r2 = r2
  c1 = c1
  p1 = p1
  Starter = Starter
  Resumers <- MCResumers
  Cancelers <- MCCancelers
  Pausers <- MCPausers
  MaxRestarts = 1
  MaxFailures = 1
  None = None
SPECIFICATION FairPullSpec
INVARIANTS RestartKeepsOutcome FlagsReachWorker
PROPERTY CancelSettles
CHECK_DEADLOCK FALSE
