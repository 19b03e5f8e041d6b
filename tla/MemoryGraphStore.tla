-------------------------- MODULE MemoryGraphStore --------------------------
(***************************************************************************)
(* `InMemoryGraphStore` with the indexes it keeps beside the rows, for one *)
(* tenant: src/src/redstring/graph/adapters/memory.py.                     *)
(*                                                                         *)
(* Every write keeps three relationship indexes and a blocking-key index   *)
(* up to date by removing the old row's entries and adding the new one's.  *)
(* The read methods answer from the indexes; the properties compare them   *)
(* with the rows.  No method suspends, so each is one step, but for the    *)
(* batch write, which is a run of steps with nothing else in between.      *)
(***************************************************************************)
EXTENDS Integers, Sequences

CONSTANTS
  Entities,        \* entity ids
  Relationships,   \* relationship ids
  Types,           \* relationship types
  BlockingKeys,    \* blocking keys an entity may carry
  NoRow,           \* the id has no row
  BatchSize        \* the most edges one upsert_relationships carries

ASSUME NoRowAssumption == NoRow \notin [keys : SUBSET BlockingKeys]
ASSUME NoEdgeAssumption ==
  NoRow \notin [source : Entities, target : Entities, type : Types]
ASSUME BatchAssumption == BatchSize \in Nat

VARIABLES
  entities,    \* _entities: each entity's row
  edges,       \* _relationships: each relationship's row
  blocking,    \* _blocking_index
  outgoing,    \* _outgoing
  incoming,    \* _incoming
  adjacency,   \* _adjacency: (neighbour, type) pairs, whatever edge put them there
  todo         \* the edges of the current batch still to be written

indexes == <<outgoing, incoming, adjacency>>
vars == <<entities, edges, blocking, outgoing, incoming, adjacency, todo>>

EntityRow == [keys : SUBSET BlockingKeys]
Edge == {e \in [source : Entities, target : Entities, type : Types] : e.source # e.target}

Init ==
  /\ entities = [x \in Entities |-> NoRow]
  /\ edges = [r \in Relationships |-> NoRow]
  /\ blocking = [k \in BlockingKeys |-> {}]
  /\ outgoing = [x \in Entities |-> {}]
  /\ incoming = [x \in Entities |-> {}]
  /\ adjacency = [x \in Entities |-> {}]
  /\ todo = <<>>

KeysOf(row) == IF row = NoRow THEN {} ELSE row.keys

(* Mutant: the old row's keys stay in the index. *)
UpsertEntityKeepsKeys(x, row) ==
  /\ entities' = [entities EXCEPT ![x] = row]
  /\ blocking' = [k \in BlockingKeys |->
       IF k \in row.keys THEN blocking[k] \union {x} ELSE blocking[k]]
  /\ UNCHANGED <<edges, indexes, todo>>

(* upsert_entity: out of the index under the old keys, in under the new. *)
UpsertEntity(x, row) ==
  /\ entities' = [entities EXCEPT ![x] = row]
  /\ blocking' = [k \in BlockingKeys |->
       IF k \in row.keys THEN blocking[k] \union {x}
       ELSE IF k \in KeysOf(entities[x]) THEN blocking[k] \ {x}
       ELSE blocking[k]]
  /\ UNCHANGED <<edges, indexes, todo>>

-----------------------------------------------------------------------------
(* Relationships and their indexes *)

(* What is left of an index entry once r's old row is out of it. *)
OutgoingWithout(r, x) == outgoing[x] \ {r}
IncomingWithout(r, x) == incoming[x] \ {r}

Ends(e) == {e.source, e.target}
OtherEnd(e, x) == IF x = e.source THEN e.target ELSE e.source

(* The adjacency pair an edge puts at one of its ends. *)
PairAt(e, x) == <<OtherEnd(e, x), e.type>>

(* _unindex_relationship takes the edge's pair out at both ends. *)
AdjacencyWithout(r, x) ==
  IF edges[r] # NoRow /\ x \in Ends(edges[r])
  THEN adjacency[x] \ {PairAt(edges[r], x)}
  ELSE adjacency[x]

(* Replace r's row: unindex the old one, store and index the new one. *)
Replace(r, e) ==
  /\ edges' = [edges EXCEPT ![r] = e]
  /\ outgoing' = [x \in Entities |->
       OutgoingWithout(r, x) \union (IF x = e.source THEN {r} ELSE {})]
  /\ incoming' = [x \in Entities |->
       IncomingWithout(r, x) \union (IF x = e.target THEN {r} ELSE {})]
  /\ adjacency' = [x \in Entities |->
       AdjacencyWithout(r, x) \union (IF x \in Ends(e) THEN {PairAt(e, x)} ELSE {})]

(* _require_endpoints *)
EndpointsExist(e) == entities[e.source] # NoRow /\ entities[e.target] # NoRow

(* upsert_relationships (upsert_relationship is a batch of one): every endpoint
   is checked before anything is written ... *)
UpsertRelationships(batch) ==
  /\ batch # <<>>
  /\ \A n \in 1..Len(batch) : EndpointsExist(batch[n].edge)
  /\ todo' = batch
  /\ UNCHANGED <<entities, edges, blocking, indexes>>

(* ... then the edges are written one after the other. *)
WriteNext ==
  /\ Replace(Head(todo).id, Head(todo).edge)
  /\ todo' = Tail(todo)
  /\ UNCHANGED <<entities, blocking>>

(* delete_relationship; deleting an absent id changes nothing. *)
DeleteRelationship(r) ==
  /\ edges[r] # NoRow
  /\ edges' = [edges EXCEPT ![r] = NoRow]
  /\ outgoing' = [x \in Entities |-> OutgoingWithout(r, x)]
  /\ incoming' = [x \in Entities |-> IncomingWithout(r, x)]
  /\ adjacency' = [x \in Entities |-> AdjacencyWithout(r, x)]
  /\ UNCHANGED <<entities, blocking, todo>>

(* delete_by_tenant: rows and indexes go together. *)
DeleteByTenant ==
  /\ entities' = [x \in Entities |-> NoRow]
  /\ edges' = [r \in Relationships |-> NoRow]
  /\ blocking' = [k \in BlockingKeys |-> {}]
  /\ outgoing' = [x \in Entities |-> {}]
  /\ incoming' = [x \in Entities |-> {}]
  /\ adjacency' = [x \in Entities |-> {}]
  /\ UNCHANGED todo

Update == [id : Relationships, edge : Edge]

Batches == UNION {[1..n -> Update] : n \in 1..BatchSize}

(* No method suspends: the next one starts when a batch is written. *)
Next ==
  \/ todo # <<>> /\ WriteNext
  \/ /\ todo = <<>>
     /\ \/ \E x \in Entities, row \in EntityRow : UpsertEntity(x, row)
        \/ \E batch \in Batches : UpsertRelationships(batch)
        \/ \E r \in Relationships : DeleteRelationship(r)
        \/ DeleteByTenant

Spec == Init /\ [][Next]_vars

-----------------------------------------------------------------------------
(* The read methods *)

(* get_relationships *)
GetRelationships(x, direction) ==
  {r \in (IF direction \in {"out", "both"} THEN outgoing[x] ELSE {})
           \union (IF direction \in {"in", "both"} THEN incoming[x] ELSE {}) :
     edges[r] # NoRow}

(* find_by_blocking_key *)
FindByBlockingKey(k) == {x \in blocking[k] : entities[x] # NoRow}

(* neighbors, one hop *)
Neighbors(x) == {p[1] : p \in {q \in adjacency[x] : entities[q[1]] # NoRow}}

-----------------------------------------------------------------------------
(* Properties *)

TypeOK ==
  /\ entities \in [Entities -> EntityRow \union {NoRow}]
  /\ edges \in [Relationships -> Edge \union {NoRow}]
  /\ blocking \in [BlockingKeys -> SUBSET Entities]
  /\ outgoing \in [Entities -> SUBSET Relationships]
  /\ incoming \in [Entities -> SUBSET Relationships]
  /\ adjacency \in [Entities -> SUBSET (Entities \X Types)]
  /\ todo \in Seq(Update)

HasEdge(r) == edges[r] # NoRow

(* get_relationships reports exactly the stored edges, at the endpoints they
   have now, however often they were moved. *)
ReadsExact ==
  \A x \in Entities :
    /\ GetRelationships(x, "out") = {r \in Relationships : HasEdge(r) /\ edges[r].source = x}
    /\ GetRelationships(x, "in") = {r \in Relationships : HasEdge(r) /\ edges[r].target = x}
    /\ GetRelationships(x, "both") = {r \in Relationships : HasEdge(r) /\ x \in Ends(edges[r])}

(* find_by_blocking_key reports exactly the entities whose latest row carries
   the key. *)
BlockingExact ==
  \A k \in BlockingKeys :
    FindByBlockingKey(k) = {x \in Entities : k \in KeysOf(entities[x])}

(* neighbors never invents one: every pair belongs to a stored edge. *)
NeighborsReal ==
  \A x \in Entities : \A p \in adjacency[x] :
    \E r \in Relationships :
      HasEdge(r) /\ x \in Ends(edges[r]) /\ p = PairAt(edges[r], x)

(* Whatever is written, moved, deleted or refused half way through a batch, the
   indexes answer what the rows say (memory.py:58-77, 189-237). *)
IndexesExact == ReadsExact /\ BlockingExact /\ NeighborsReal

(* "Traversal follows edges in both directions" (ports/graph_store.py): an
   entity at the other end of a stored edge is a neighbour. *)
NeighborsComplete ==
  todo = <<>> =>
    \A r \in Relationships : HasEdge(r) =>
      /\ edges[r].target \in Neighbors(edges[r].source)
      /\ edges[r].source \in Neighbors(edges[r].target)
=============================================================================
