SPECIFICATION Spec
CONSTANTS
  a = a  b = b  x = x  d1 = d1  s1 = s1  s2 = s2
  Entities = {a, b, x}
  Claims <- MCClaims
  Rank <- MCRank
  Retracted = Retracted
  NoEdge = NoEdge
  NotAlias = NotAlias
  Documents = {d1}
  Extractions <- LateEdgeRuns
  Requests <- ChainRequests
  Callers = {s1}
  MaxAttempts = 2
  MaxEvents = 4
  MaxRestarts = 0
  Lag = 1
  OneAtATime = FALSE
CHECK_DEADLOCK FALSE
INVARIANTS UndoIsInverse
