CONSTANTS
  Sessions = {s1, s2}
  Models = {m1}
  Limit = 2
  None = None
  Remote = {s1}
  MaxAbandoned = 2
SPECIFICATION StreamFairSpec
INVARIANTS WorkerPerAttach CallsAreSerialAndAdmitted LateWarmUpIsInert LiveSessionPinsRuntime
PROPERTIES WatchdogHitsOwnWorker StartGetsTheGate ClosedGivesPermitBack
CHECK_DEADLOCK FALSE
