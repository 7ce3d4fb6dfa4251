CONSTANTS
  m1 = m1
  m2 = m2
  p1 = p1
  p2 = p2
  p3 = p3
  Models <- MCModels
  Quants <- MCQuants
  Packs <- MCPacks
  Recommended = 4
  Processes <- MCTwo
  MaxFailures = 1
  MaxCorruptions = 1
  AutoPin = AutoPin
  None = None
SPECIFICATION Spec
INVARIANT ProjectionsAgree
PROPERTIES SelectionStable BootKeepsNewerChoice DamageIsKept
SYMMETRY MCSymmetry
CHECK_DEADLOCK FALSE
