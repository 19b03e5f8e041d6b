SPECIFICATION Spec
CONSTANTS
  a = a  b = b  x = x
  Entities = {a, b, x}
  Claims <- MCClaims
  Rank <- MCRank
  IdOrder <- MCIdOrder
  Retracted = Retracted
  NoEdge = NoEdge
  NotAlias = NotAlias
  SubjectLists <- Sweeps
  Scorings <- MCScorings
  High = 2
  Low = 1
  Concurrency = 2
  BatchSize = 2
  EarlierMerges <- Earlier
  MaxOutside = 1
  Deferred = FALSE
CHECK_DEADLOCK FALSE
INVARIANTS VerdictsMatchQuestions AloneNeverFails
PROPERTIES PassEnds
