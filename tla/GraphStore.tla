----------------------------- MODULE GraphStore -----------------------------
(***************************************************************************)
(* One tenant's graph read model as a value, and what the writing methods  *)
(* of the `GraphStore` port make of it: src/src/redstring/ports/           *)
(* graph_store.py as implemented by graph/adapters/memory.py.              *)
(*                                                                         *)
(* A relationship id is a hash of the endpoints extraction found (and of a *)
(* type, of which there is one here), so the claim <<source, target>> is   *)
(* the id; the edge stored under it may have been moved by a merge.  An    *)
(* entity row is the set of property keys it carries: its own, the ones a  *)
(* merge gave it, and Retracted.  A row is never empty; {} is no row.      *)
(***************************************************************************)
EXTENDS Integers, FiniteSets

CONSTANTS
  Entities,   \* the tenant's entity ids
  Claims,     \* the relationship ids: pairs <<source, target>>
  Retracted,  \* the `_retracted` property key
  NoEdge,     \* no edge is stored under this id
  NotAlias    \* no alias row for this entity

ASSUME EntitiesAssumption == IsFiniteSet(Entities)
ASSUME ClaimsAssumption ==
  \A c \in Claims : c = <<c[1], c[2]>> /\ c[1] \in Entities /\ c[2] \in Entities
                      /\ c[1] # c[2]
ASSUME SentinelAssumption == NotAlias \notin Entities

Keys == Entities \union {Retracted}
Row == (SUBSET Keys) \ {{}}

Edge == [source : Entities, target : Entities]

ASSUME NoEdgeAssumption == NoEdge \notin Edge

Graph == [rows : [Entities -> SUBSET Keys],
          rels : [Claims -> Edge \union {NoEdge}],
          aliases : [Entities -> Entities \union {NotAlias}]]

EmptyGraph == [rows |-> [x \in Entities |-> {}],
               rels |-> [c \in Claims |-> NoEdge],
               aliases |-> [x \in Entities |-> NotAlias]]

HasRow(g, x) == g.rows[x] # {}

(* The edge as extraction claims it. *)
ClaimedEdge(c) == [source |-> c[1], target |-> c[2]]

Touches(edge, xs) == edge.source \in xs \/ edge.target \in xs

(* get_relationships_for: the ids of the stored edges touching any of xs. *)
RelationshipsFor(g, xs) ==
  {c \in Claims : g.rels[c] # NoEdge /\ Touches(g.rels[c], xs)}

-----------------------------------------------------------------------------
(* Writes *)

UpsertEntity(g, x, row) == [g EXCEPT !.rows[x] = row]

(* upsert_entities with the rows an extraction carries. *)
UpsertExtracted(g, xs) ==
  [g EXCEPT !.rows = [x \in Entities |-> IF x \in xs THEN {x} ELSE @[x]]]

DeleteRelationship(g, c) == [g EXCEPT !.rels[c] = NoEdge]

(* _require_endpoints, for every edge of a batch {[id, edge]}. *)
EndpointsExist(g, batch) ==
  \A u \in batch : HasRow(g, u.edge.source) /\ HasRow(g, u.edge.target)

(* upsert_relationships: all or nothing, so its caller checks the endpoints
   of the whole batch first; one edge per id. *)
UpsertRelationships(g, batch) ==
  [g EXCEPT !.rels = [c \in Claims |->
     IF \E u \in batch : u.id = c
     THEN (CHOOSE u \in batch : u.id = c).edge
     ELSE @[c]]]

UpsertAlias(g, x, canonical) == [g EXCEPT !.aliases[x] = canonical]
RemoveAlias(g, x) == [g EXCEPT !.aliases[x] = NotAlias]

-----------------------------------------------------------------------------
(* resolve_entity_ids: follow the alias rows to the end of the chain.  A walk
   longer than the number of alias rows has met a cycle. *)

Hop(g, x) == IF g.aliases[x] = NotAlias THEN x ELSE g.aliases[x]

Walk(g, x) ==
  LET walk[n \in Nat] == IF n = 0 THEN x ELSE Hop(g, walk[n - 1]) IN walk

Resolve(g, x) == Walk(g, x)[Cardinality({y \in Entities : g.aliases[y] # NotAlias})]

(* AliasCycleError *)
CyclicFrom(g, x) == g.aliases[Resolve(g, x)] # NotAlias

-----------------------------------------------------------------------------
(* Well-formedness of a graph *)

(* Relationship refuses a self-loop, and an edge needs both its rows. *)
NoSelfLoopIn(g) ==
  \A c \in Claims : g.rels[c] # NoEdge => g.rels[c].source # g.rels[c].target

NoDanglingIn(g) ==
  \A c \in Claims :
    g.rels[c] # NoEdge => HasRow(g, g.rels[c].source) /\ HasRow(g, g.rels[c].target)

NoAliasCycleIn(g) == \A x \in Entities : ~ CyclicFrom(g, x)

EdgesOnCanonicalsIn(g) ==
  \A c \in RelationshipsFor(g, Entities) :
    g.aliases[g.rels[c].source] = NotAlias /\ g.aliases[g.rels[c].target] = NotAlias

(* No two stored edges make the same claim. *)
OneEdgePerClaimIn(g) ==
  \A c, k \in RelationshipsFor(g, Entities) : g.rels[c] = g.rels[k] => c = k
=============================================================================
