SPECIFICATION FairSpec
INVARIANT LoopGuarded
PROPERTIES ForeignServedAgain ConnectReturns
CONSTANTS
  p1 = p1
  p2 = p2
  a1 = a1
  a2 = a2
  None = None
  Procs = {p1, p2}
  Addresses = {a1, a2}
  MaxRetries = 2
  MaxChanges = 2
