SPECIFICATION FairSpec
CONSTANTS
  u1 = u1
  u2 = u2
  c1 = c1
  c2 = c2
  Upstreams = {u1, u2}
  Order <- MCOrder
  Conns = {c1, c2}
  FailThreshold = 2
  ProbeFailThreshold = 2
  CooldownInitial = 1
  CooldownMax = 2
  LivenessEnabled = TRUE
INVARIANTS ExhaustedMeansAllTried PreferenceKept
PROPERTIES NeverShortened ProbeLossNeedsStreak RecoveredRejoins
