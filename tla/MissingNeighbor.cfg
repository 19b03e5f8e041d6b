SPECIFICATION AdaptersSpec
CONSTANTS
  Entities = {x, y, z}
  Relationships = {e1, e2}
  Types = {t, u}
  BlockingKeys = {kk}
  NoRow = NoRow
  BatchSize = 2
  a = a
  b = b
  c = c
  r1 = r1
  r2 = r2
  k = k
  Nodes = {a, b, c}
  Rels = {r1, r2}
  Keys = {k}
  EntityBatches <- MCEntityBatches
  EdgeBatches <- MCEdgeBatches
  AliasPairs <- MCAliasPairs
  NoNode = NoNode
  NoCall = NoCall
  ChunkIds = {c1, c2}
  Sources = {s1, s2}
  Links = {v1, v2}
  NoChunk = NoChunk
  Terms = {t1, t2}
  SourceOf <- MCSourceOf
  TermsOf <- MCTermsOf
  ChunkBatchSize = 2
  c1 = c1
  c2 = c2
  s1 = s1
  s2 = s2
  t1 = t1
  t2 = t2
  Stores = {p1, p2, p3, p4}
  EntityIds = {d}
  Models = {m1, m2}
  Prefixes = {q1, Empty}
  Empty = Empty
  Unset = Unset
  ModelOf <- MCModelOf
  PrefixOf <- MCPrefixOf
  DimensionOf <- MCDimensionOf
  m1 = m1
  m2 = m2
  q1 = q1
  p1 = p1
  p2 = p2
  p3 = p3
  p4 = p4
INVARIANTS NeighborsComplete
