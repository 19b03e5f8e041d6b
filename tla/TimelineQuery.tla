---------------------------- MODULE TimelineQuery ----------------------------
(***************************************************************************)
(* `TemporalQuery` over a tenant whose entities are written and deleted    *)
(* while it pages through them, and the relations inferred from what it    *)
(* read: src/src/redstring/temporal/{query,inference}.py.                  *)
(***************************************************************************)
EXTENDS TemporalExtents, Sequences, Sorting

Ext == INSTANCE SequencesExt

CONSTANTS
  MaxId,     \* entity ids are 1..MaxId, in the order of their strings
  Extents,   \* what an entity's extent may be
  Windows,   \* the interval of a call, or None
  PageSize,  \* page_size
  MaxPages,  \* MAX_PAGES
  MaxPairs,  \* max_pairs
  MaxWrites, \* bound on the writes made during a scan
  NoEntity   \* no entity has this id

VARIABLES
  stored,   \* id -> its extent, or NoEntity
  window,   \* the interval asked about
  cursor,   \* the last id read; 0 at first
  pages,    \* pages read
  scan,     \* "running", "done", "stalled"
  yielded,  \* what _scan yielded, [id, extent]
  settled,  \* ids that were not written since the scan began
  writes

vars == <<stored, window, cursor, pages, scan, yielded, settled, writes>>

Ids == 1..MaxId

Init ==
  /\ stored \in [Ids -> {NoEntity} \union Extents]
  /\ window \in Windows
  /\ cursor = 0
  /\ pages = 0
  /\ scan = "running"
  /\ yielded = <<>>
  /\ settled = Ids
  /\ writes = 0

(* find_entities *)
Page ==
  LET after == {i \in Ids : i > cursor /\ stored[i] # NoEntity}
      order == Ranked(after, Ascending(after))
  IN SubSeq(order, 1, IF Len(order) < PageSize THEN Len(order) ELSE PageSize)

IsLast(page) == Len(page) < PageSize

(* Mutant: pages are counted instead of remembered by their last id. *)
SkippedSoFar(page) == cursor + Len(page)

NextCursor(page) == Ext!Last(page)

ReadPage ==
  /\ scan = "running" /\ pages < MaxPages
  /\ pages' = pages + 1
  /\ yielded' = yielded \o [i \in DOMAIN Page |-> [id |-> Page[i], extent |-> stored[Page[i]]]]
  /\ IF IsLast(Page)
     THEN scan' = "done" /\ UNCHANGED cursor
     ELSE cursor' = NextCursor(Page) /\ UNCHANGED scan
  /\ UNCHANGED <<stored, window, settled, writes>>

(* CursorStalledError *)
Stall ==
  /\ scan = "running" /\ pages = MaxPages
  /\ scan' = "stalled"
  /\ UNCHANGED <<stored, window, cursor, pages, yielded, settled, writes>>

Write(i, what) ==
  /\ scan = "running" /\ writes < MaxWrites /\ stored[i] # what
  /\ stored' = [stored EXCEPT ![i] = what]
  /\ settled' = settled \ {i}
  /\ writes' = writes + 1
  /\ UNCHANGED <<window, cursor, pages, scan, yielded>>

Next ==
  \/ ReadPage
  \/ Stall
  \/ \E i \in Ids, what \in {NoEntity} \union Extents : Write(i, what)

Spec == Init /\ [][Next]_vars

-----------------------------------------------------------------------------
(* What is made of the entities that were read *)

Dated(e) == Bounds(e.extent) # None

Intersecting == {"during", "contains", "overlaps", "equals"}

(* entities_in_interval, or every dated entity. *)
InWindow(e) ==
  Dated(e) /\ (window # None => RelateBounds(Bounds(e.extent), window) \in Intersecting)

(* The signs of offsets are characters, and "+" comes before "-". *)
OffsetKey(offset) == IF offset < 0 THEN Width.day - offset ELSE offset

(* order_key: the ends as isoformat() writes them, a wall clock and its offset,
   an open lower end first and an open upper end last. *)
LowerKey(p) == IF p = None THEN <<0, 0, 0>> ELSE <<1, p.local, OffsetKey(p.offset)>>
UpperKey(p) == IF p = None THEN <<2, 0, 0>> ELSE <<1, p.local, OffsetKey(p.offset)>>
OrderKey(e) == LowerKey(Bounds(e.extent).lower) \o UpperKey(Bounds(e.extent).upper) \o <<e.id>>

Less(k, l) == \E i \in DOMAIN k : k[i] < l[i] /\ \A j \in 1..(i - 1) : k[j] = l[j]

Chronological(es) == Ranked(es, {p \in es \X es : Less(OrderKey(p[1]), OrderKey(p[2]))})

(* timeline *)
Timeline == Chronological({e \in Ext!ToSet(yielded) : InWindow(e)})

(* _unique: of two copies of an entity the first counts. *)
Unique(es) == {es[i] : i \in {k \in DOMAIN es : \A j \in 1..(k - 1) : es[j].id # es[k].id}}

(* Mutant: a pair is written down in the order it was met. *)
AsMet(e, f) ==
  [source |-> e.id, target |-> f.id, relation |-> RelateBounds(Bounds(e.extent), Bounds(f.extent))]

(* CANONICAL_INVERSES *)
Related(e, f) ==
  LET r == RelateBounds(Bounds(e.extent), Bounds(f.extent))
  IN CASE r = "after" -> [source |-> f.id, target |-> e.id, relation |-> "before"]
       [] r = "during" -> [source |-> f.id, target |-> e.id, relation |-> "contains"]
       [] OTHER -> [source |-> e.id, target |-> f.id, relation |-> r]

(* infer_relations, of any iterable of entities. *)
InferRelations(es) ==
  LET dated == Chronological({e \in Unique(es) : Dated(e)})
  IN IF (Len(dated) * (Len(dated) - 1)) \div 2 > MaxPairs THEN Raised
     ELSE {Related(dated[p[1]], dated[p[2]]) :
             p \in {q \in (DOMAIN dated) \X (DOMAIN dated) : q[1] < q[2]}}

-----------------------------------------------------------------------------
(* Properties *)

(* A scan yields every entity that was there throughout exactly once, as it
   is, and nothing twice, whatever is written and deleted around its cursor
   (query.py:225-245). *)
ScanSeesSettled ==
  scan = "done" =>
    /\ \A i, j \in DOMAIN yielded : yielded[i].id = yielded[j].id => i = j
    /\ \A i \in settled : stored[i] # NoEntity =>
         [id |-> i, extent |-> stored[i]] \in Ext!ToSet(yielded)

(* Neither begins on a wall clock of its own. *)
SameClock(e, f) ==
  None \in {Bounds(e.extent).lower, Bounds(f.extent).lower}
    \/ Bounds(e.extent).lower.offset = Bounds(f.extent).lower.offset

(* The relations read off a timeline agree with it: whatever order the entities
   come in and however often, a pair is related once, and of two that begin on
   one clock the entity that is before the other comes before it on the
   timeline (inference.py:205-240). *)
RelationsFollowTheTimeline ==
  scan = "done" =>
    LET line == Timeline
        found == InferRelations(line)
        Place(id) == CHOOSE i \in DOMAIN line : line[i].id = id
    IN found # Raised =>
         /\ found = InferRelations(Ext!Reverse(line) \o line)
         /\ \A i, j \in DOMAIN line : i # j =>
              Cardinality({r \in found : {r.source, r.target} = {line[i].id, line[j].id}}) = 1
         /\ \A r \in found :
              /\ r.relation \in {"before", "contains", "overlaps", "equals"}
              /\ r.relation = "before" /\ SameClock(line[Place(r.source)], line[Place(r.target)])
                   => Place(r.source) < Place(r.target)

(* On a timeline what is over before something else begins comes before it
   ("the ISO rendering [...] sorts identically to the value it came from",
   inference.py:223-225).  (Known limit: wall clocks are sorted before their
   offsets are.) *)
TimelineIsChronological ==
  scan = "done" =>
    \A i, j \in DOMAIN Timeline :
      RelateBounds(Bounds(Timeline[i].extent), Bounds(Timeline[j].extent)) = "before" => i < j
=============================================================================
