CONSTANTS
  f1 = f1
  f2 = f2
  f3 = f3
  r1 = r1
  Files <- MCFiles
  Realtimes <- MCRealtimes
  Limit = 2
  Disconnecting <- MCFirst
  Cancelable <- MCSecond
  None = None
SPECIFICATION FairSpec
INVARIANT AdmittedHasSlot
PROPERTIES NoOvertaking EveryRequestEnds
CHECK_DEADLOCK FALSE
