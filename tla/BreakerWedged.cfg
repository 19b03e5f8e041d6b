SPECIFICATION MCSpec
CONSTANTS
  Which = {"breaker"}
  Workers = {w1, w2}
  Threshold = 1
  MaxProbes = 1
  Shared = TRUE
  MaxTurns = 4
  Callers = {c1, c2, c3}
  Rpm = 2
  Window = 2
  MaxTime = 4
  Processes = {p1, p2}
  TimeToLive = 2
  WindowWidth = 1
  Values = {v1}
  Never = Never
  Nothing = Nothing
  LastInstant = 3
  MaxCount = 2
  MaxRetriesSet = {0, 1, 3}
  Jitters = {0, 10, 100}
  Multiplier = 2
  MaxDelay = 300
  DelayGrid = 50
CHECK_DEADLOCK FALSE
INVARIANTS NotWedged
