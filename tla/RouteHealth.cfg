SPECIFICATION FairHealth
CONSTANTS
  fi = fi
  de = de
  LaneOrder <- MCLanes
  Elsewhere = Elsewhere
  Speeds = {2, 6}
  FirstError = 8
  ErrorCap = 12
  ProvenRounds = 2
  RatioNum = 7
  RatioDen = 10
INVARIANTS SteersToAnswering LeavesWorkingOnlyForProven
PROPERTY SoleLaneSelected
