SPECIFICATION FairSpec
CONSTANTS
  a = a  b = b  x = x  d1 = d1  s1 = s1  s2 = s2
  Entities = {a, b, x}
  Claims <- MCClaims
  Rank <- MCRank
  Retracted = Retracted
  NoEdge = NoEdge
  NotAlias = NotAlias
  Documents = {d1}
  Extractions <- EveryRun
  Requests <- AllRequests
  Callers = {s1}
  MaxAttempts = 3
  MaxEvents = 4
  MaxRestarts = 1
  Lag = 1
  OneAtATime = TRUE
CHECK_DEADLOCK FALSE
INVARIANTS EdgesOnCanonicals UndoIsInverse
PROPERTIES CatchesUp
