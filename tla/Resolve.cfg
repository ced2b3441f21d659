SPECIFICATION ResolveSpec
CONSTANTS
  Queries = {q1, q2, q3}
  Threshold = 2
  Cooldown = 2
  Policies <- MCPolicies
  Askers <- MCAskers
  Names <- MCNames
  Types = {"A", "TXT"}
INVARIANTS BypassedOnlyAfterStreak RuleMostSpecific
PROPERTIES BypassEnds EveryQueryReturns
