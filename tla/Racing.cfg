SPECIFICATION Spec
CONSTANTS
  a = a  b = b  x = x  d1 = d1  s1 = s1  s2 = s2
  Entities = {a, b, x}
  Claims <- MCClaims
  Rank <- MCRank
  Retracted = Retracted
  NoEdge = NoEdge
  NotAlias = NotAlias
  Documents = {d1}
  Extractions <- RetractingRuns
  Requests <- SwapRequests
  Callers = {s1, s2}
  MaxAttempts = 2
  MaxEvents = 4
  MaxRestarts = 1
  Lag = 1
  OneAtATime = FALSE
CHECK_DEADLOCK FALSE
SYMMETRY Symmetry
INVARIANTS AliasesMatchLog ReplayEquivalence GraphWellFormed
