CONSTANTS
  m1 = m1
  m2 = m2
  t1 = t1
  t2 = t2
  s1 = s1
  s2 = s2
  d1 = d1
  Models <- MCModels
  Tasks <- MCTwoTasks
  Auxiliary <- MCAuxiliary
  Setters <- MCOneSetter
  Deleters <- MCDeleters
  Boot = Boot
  None = None
SPECIFICATION FairSpec
INVARIANTS RunsServedModel PublishedIsDurable
PROPERTIES PackStaysUnderSession BarrierIsSharedExclusive BootEnds
CHECK_DEADLOCK FALSE
