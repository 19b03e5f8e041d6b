SPECIFICATION AlgorithmsSpec
CONSTANTS
  Parts = {"chunking", "meaning", "timeline", "retrieval", "themes"}
  Idle = Idle
  CutTexts <- MCTexts
  Sizes = {2, 3, 4}
  Overlaps = {0, 1, 2, 3}
  LookBack = 3
  None = None
  Ambiguous = Ambiguous
  Raised = Raised
  Expressions <- MCExpressions
  Samples <- MCSamples
  References <- MCReferences
  MaxYear = 2030
  ProbeA <- MCProbeA
  ProbeB <- MCProbeB
  MaxEntity = 3
  Extents <- MCExtents
  Windows <- MCWindows
  EntitiesPerPage = 2
  TimelinePages = 2
  MaxPairs = 3
  TimelineWrites = 1
  NoEntity = NoEntity
  MaxItem = 3
  Rows <- MCRows
  Vectors <- MCVectors
  Wanted = {{"p"}, {"p", "q"}}
  Ks = {1, 2}
  Overfetch = 1
  RrfK = 60
  RetrievalWrites = 1
  MaxNode = 5
  Edges <- MCEdges
  Tenants <- MCTenants
  NodesPerPage = 2
  ThemePages = 3
  MaxPasses = 5
  Resolution = 1
  MinSize = 2
  MaxShown = 2
  ThemeWrites = 1
  Absent = Absent
  Pending = Pending
  Failure = Failure
CHECK_DEADLOCK FALSE
INVARIANTS ChunksCover RelationsAreMeant RenderingsParseBack ScanSeesSettled RelationsFollowTheTimeline MatchesHold ThemesAccountForTheTenant
PROPERTIES ModularityNeverFalls
