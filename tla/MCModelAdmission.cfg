CONSTANTS
  Sessions = {s1, s2, s3, s4, s5}
  Models = {m1, m2}
  Limit = 2
  None = None
SPECIFICATION Spec
INVARIANT SlotsAreDistinct
PROPERTY RefusedOnlyAtCapacity
CHECK_DEADLOCK FALSE
