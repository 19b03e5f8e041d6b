SPECIFICATION Spec
CONSTANTS
  Entities = {a, b, c}
  Redirections = {p, q}
  NotAlias = NotAlias
  NoEvent = NoEvent
  Sessions = {s1, s2}
  SnapshotEvery = 2
  MaxEvents = 4
SYMMETRY Symmetry
INVARIANTS CopiesAreReplays SingleParent UndoRestoresItsMerge
PROPERTIES ImplementsLedger
