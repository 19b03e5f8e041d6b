SPECIFICATION MCFairSpec
CONSTANTS
  Which = {"breaker", "limiter", "cache", "retry"}
  Workers = {w1, w2, w3}
  Threshold = 2
  MaxProbes = 2
  Shared = FALSE
  MaxTurns = 3
  Callers = {c1, c2, c3}
  Rpm = 2
  Window = 2
  MaxTime = 4
  Processes = {p1, p2}
  TimeToLive = 2
  WindowWidth = 1
  Values = {v1}
  Never = Never
  Nothing = Nothing
  LastInstant = 3
  MaxCount = 2
  MaxRetriesSet = {0, 1, 3}
  Jitters = {0, 10, 100}
  Multiplier = 2
  MaxDelay = 300
  DelayGrid = 50
CHECK_DEADLOCK FALSE
INVARIANTS WindowBound AdaptersAgree CountersExpire RetryKeepsItsPromise
PROPERTIES HalfOpenResolves
