SPECIFICATION Spec
INVARIANTS OldAnswersAccountedFor LifeNotProlonged
SYMMETRY MCSymmetry
CONSTANTS
  v1 = v1
  v2 = v2
  p1 = p1
  k1 = k1
  broken = broken
  Versions <- MCVersions
  Broken = broken
  Panel <- MCPanel
  Keys = {k1}
  TTL = 2
  MaxTime = 2
  MaxEdits = 2
  MaxRewrites = 2
  None = None
CHECK_DEADLOCK FALSE
