SPECIFICATION FairSpec
CONSTANTS
  Keys = {k1, k2, k3}
  Clients = {p1}
  Refreshers = {r1}
  None = None
  MaxEntries = 2
  MaxBytes = 3
  Sizes = {1, 2}
  TTL = 2
  RefreshPart = 1
  RefreshCap = 2
  MaxEpoch = 2
INVARIANTS Bookkeeping SingleFlight
PROPERTIES FetchReturns RemembersAnswers
