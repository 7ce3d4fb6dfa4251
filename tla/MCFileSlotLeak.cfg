CONSTANTS
  f1 = f1
  f2 = f2
  f3 = f3
  r1 = r1
  Files <- MCFilesTwo
  Realtimes <- MCRealtimes
  Limit = 2
  Disconnecting <- MCFilesTwo
  Cancelable <- MCFilesTwo
  None = None
SPECIFICATION Spec
INVARIANT AbortReleasesFifo
CHECK_DEADLOCK FALSE
