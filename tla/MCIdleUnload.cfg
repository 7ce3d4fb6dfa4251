SPECIFICATION FairSpec
CONSTANTS
  Sessions = {s1, s2}
  Keys = {k1}
  Thresholds = {1, 2}
  Never = Never
  NoGeneration = NoGeneration
INVARIANTS
  ResidentMeansLoaded
  SweepIsJust
PROPERTIES
  TrackerProgress
  TrackerIsSharedExclusive
