-------------------------- MODULE Neo4jGraphStore --------------------------
(***************************************************************************)
(* `Neo4jGraphStore`, one tenant of it:                                    *)
(* src/src/redstring/graph/adapters/neo4j.py.                              *)
(*                                                                         *)
(* Every `_run` is an auto-committed transaction of its own, so a method   *)
(* of several statements is several steps, and anything may happen between *)
(* two of them: the process dies and the event is delivered again (one     *)
(* projection writes a tenant's graph, so nothing else writes meanwhile),  *)
(* or an operator's delete_by_tenant, itself three statements, runs across *)
(* it.  A statement is atomic: what Cypher does inside one is external.    *)
(***************************************************************************)
EXTENDS Integers, FiniteSets

CONSTANTS
  Entities,        \* entity ids
  Relationships,   \* relationship ids
  BlockingKeys,    \* blocking keys
  EntityBatches,   \* the batches given to upsert_entities: id -> set of keys
  EdgeBatches,     \* the batches given to upsert_relationships: id -> edge
  AliasPairs,      \* the <<alias, canonical>> given to upsert_alias
  NoNode,          \* no :Entity node has this id
  NoCall           \* the projection is between two calls

Edge == {e \in [source : Entities, target : Entities] : e.source # e.target}

VARIABLES
  nodes,      \* :Entity nodes: each one's blocking_keys property, or NoNode
  rels,       \* :RELATES_TO edges, by their id property
  keyNodes,   \* :BlockingKey nodes
  keyEdges,   \* :BLOCKED_BY edges, <<entity, key>>
  aliasEdges, \* :ALIAS_OF edges, <<alias, canonical>>
  call,       \* the projection's call, or NoCall
  step,       \* the statement of that call that runs next
  purge,      \* the statement of delete_by_tenant that runs next, 0 outside
  raced       \* entities whose last write ran across a purge

graph == <<nodes, rels, keyNodes, keyEdges, aliasEdges>>
vars == <<nodes, rels, keyNodes, keyEdges, aliasEdges, call, step, purge, raced>>

Calls == [op : {"entities"}, batch : EntityBatches]
           \union [op : {"edges"}, batch : EdgeBatches]
           \union [op : {"alias"}, pair : AliasPairs]
           \union [op : {"unalias"}, alias : {p[1] : p \in AliasPairs}]
           \union [op : {"delete"}, id : Relationships]

Init ==
  /\ nodes = [x \in Entities |-> NoNode]
  /\ rels = [r \in Relationships |-> NoNode]
  /\ keyNodes = {}
  /\ keyEdges = {}
  /\ aliasEdges = {}
  /\ call = NoCall
  /\ step = 1
  /\ purge = 0
  /\ raced = {}

Exists(x) == nodes[x] # NoNode
Stored(r) == rels[r] # NoNode
EndsOf(batch) == UNION {{batch[r].source, batch[r].target} : r \in DOMAIN batch}

Running(op, n) == call # NoCall /\ call.op = op /\ step = n

Begin(c) ==
  /\ call = NoCall
  /\ call' = c
  /\ step' = 1
  /\ UNCHANGED <<graph, purge, raced>>

Advance == step' = step + 1 /\ UNCHANGED <<call, purge>>
Return == call' = NoCall /\ step' = 1 /\ UNCHANGED purge

-----------------------------------------------------------------------------
(* upsert_entities: the nodes, then each one's key edges taken out, then the
   ones its keys call for put in. *)

WriteNodes ==
  /\ Running("entities", 1)
  /\ nodes' = [x \in Entities |-> IF x \in DOMAIN call.batch THEN call.batch[x] ELSE nodes[x]]
  /\ raced' = IF purge = 0 THEN raced \ DOMAIN call.batch ELSE raced \union DOMAIN call.batch
  /\ Advance
  /\ UNCHANGED <<rels, keyNodes, keyEdges, aliasEdges>>

(* rows_carrying_keys *)
RowsCarryingKeys(batch) == {x \in DOMAIN batch : batch[x] # {}}

(* Mutant: only rows that will get edges lose their old ones. *)
KeyedOnly(batch) == RowsCarryingKeys(batch)

(* Every row loses its old edges, the ones without keys included. *)
Unkeyed(batch) == DOMAIN batch

DropKeyEdges ==
  /\ Running("entities", 2)
  /\ keyEdges' = {p \in keyEdges : p[1] \notin Unkeyed(call.batch)}
  /\ raced' = IF purge = 0 THEN raced ELSE raced \union DOMAIN call.batch
  /\ IF RowsCarryingKeys(call.batch) = {} THEN Return ELSE Advance
  /\ UNCHANGED <<nodes, rels, keyNodes, aliasEdges>>

(* MATCH finds the rows whose node is still there. *)
WriteKeyEdges ==
  /\ Running("entities", 3)
  /\ LET keyed == {x \in RowsCarryingKeys(call.batch) : Exists(x)}
     IN /\ keyNodes' = keyNodes \union UNION {call.batch[x] : x \in keyed}
        /\ keyEdges' = keyEdges \union UNION {{x} \X call.batch[x] : x \in keyed}
  /\ raced' = IF purge = 0 THEN raced ELSE raced \union DOMAIN call.batch
  /\ Return
  /\ UNCHANGED <<nodes, rels, aliasEdges>>

-----------------------------------------------------------------------------
(* upsert_relationships: look for missing endpoints, write the edges whose
   endpoints match, and raise unless that was all of them. *)

AbsentEnds(batch) == {x \in EndsOf(batch) : ~ Exists(x)}

RejectDangling ==
  /\ Running("edges", 1)
  /\ IF AbsentEnds(call.batch) = {} THEN Advance ELSE Return
  /\ UNCHANGED <<graph, raced>>

Matched(batch) ==
  {r \in DOMAIN batch : Exists(batch[r].source) /\ Exists(batch[r].target)}

(* The rows the statement returns. *)
Written(batch) == Matched(batch)

WriteEdges ==
  /\ Running("edges", 2)
  /\ rels' = [r \in Relationships |->
                IF r \in Matched(call.batch) THEN call.batch[r] ELSE rels[r]]
  /\ step' = IF Written(call.batch) = DOMAIN call.batch THEN 4 ELSE 3
  /\ UNCHANGED <<nodes, keyNodes, keyEdges, aliasEdges, call, purge, raced>>

(* The second _reject_dangling only names the endpoint: MissingEntityError
   is raised whatever it finds. *)
RaiseMissing ==
  /\ Running("edges", 3)
  /\ Return
  /\ UNCHANGED <<graph, raced>>

(* ... and the call that wrote them all returns. *)
ReturnWritten ==
  /\ Running("edges", 4)
  /\ Return
  /\ UNCHANGED <<graph, raced>>

DeleteRelationship ==
  /\ Running("delete", 1)
  /\ rels' = [rels EXCEPT ![call.id] = NoNode]
  /\ Return
  /\ UNCHANGED <<nodes, keyNodes, keyEdges, aliasEdges, raced>>

-----------------------------------------------------------------------------
(* Aliases *)

AliasEdgesWithout(x) == {p \in aliasEdges : p[1] # x}

UpsertAlias ==
  /\ Running("alias", 1)
  /\ aliasEdges' = AliasEdgesWithout(call.pair[1]) \union {call.pair}
  /\ Return
  /\ UNCHANGED <<nodes, rels, keyNodes, keyEdges, raced>>

RemoveAlias ==
  /\ Running("unalias", 1)
  /\ aliasEdges' = {p \in aliasEdges : p[1] # call.alias}
  /\ Return
  /\ UNCHANGED <<nodes, rels, keyNodes, keyEdges, raced>>

-----------------------------------------------------------------------------
(* delete_by_tenant, by an operator *)

BeginPurge ==
  /\ purge = 0
  /\ purge' = 1
  /\ UNCHANGED <<graph, call, step, raced>>

(* DETACH DELETE takes every edge of an entity with it. *)
PurgeEntities ==
  /\ purge = 1
  /\ nodes' = [x \in Entities |-> NoNode]
  /\ rels' = [r \in Relationships |-> NoNode]
  /\ keyEdges' = {}
  /\ purge' = 2
  /\ raced' = IF call # NoCall /\ call.op = "entities" THEN raced \union DOMAIN call.batch
              ELSE raced
  /\ UNCHANGED <<keyNodes, aliasEdges, call, step>>

AliasesGone == purge = 2 /\ aliasEdges' = {}

PurgeAliases ==
  /\ AliasesGone
  /\ purge' = 3
  /\ UNCHANGED <<nodes, rels, keyNodes, keyEdges, call, step, raced>>

PurgeKeys ==
  /\ purge = 3
  /\ keyNodes' = {}
  /\ keyEdges' = {}
  /\ purge' = 0
  /\ UNCHANGED <<nodes, rels, aliasEdges, call, step, raced>>

-----------------------------------------------------------------------------
(* Between two statements the projection's process dies: the event is not
   acknowledged, and the handler runs the whole call again.  The operator's
   process may die too, and nobody runs its call again. *)

Redeliver ==
  /\ call # NoCall
  /\ step > 1
  /\ step' = 1
  /\ UNCHANGED <<graph, call, purge, raced>>

PurgeDies ==
  /\ purge > 1
  /\ purge' = 0
  /\ UNCHANGED <<graph, call, step, raced>>

Statement ==
  \/ WriteNodes \/ DropKeyEdges \/ WriteKeyEdges
  \/ RejectDangling \/ WriteEdges \/ RaiseMissing \/ ReturnWritten
  \/ DeleteRelationship \/ UpsertAlias \/ RemoveAlias

Purge == BeginPurge \/ PurgeEntities \/ PurgeAliases \/ PurgeKeys

Next ==
  \/ \E c \in Calls : Begin(c)
  \/ Statement
  \/ Purge
  \/ Redeliver
  \/ PurgeDies

Spec == Init /\ [][Next]_vars

-----------------------------------------------------------------------------
(* Reads: one statement each *)

(* find_by_blocking_key *)
FindByBlockingKey(k) == {x \in Entities : <<x, k>> \in keyEdges}

(* get_relationships_for: the pattern matched from each id asked for. *)
GetRelationshipsFor(xs, direction) ==
  {r \in Relationships :
     Stored(r) /\ \E x \in {y \in xs : Exists(y)} :
       \/ direction \in {"out", "both"} /\ rels[r].source = x
       \/ direction \in {"in", "both"} /\ rels[r].target = x}

(* neighbors: the ends of the paths of 1 to depth edges, walked either way,
   but for the origin.  A path repeats no edge; reaching does not need to. *)
Neighbors(x, depth) ==
  LET ring[n \in 0..depth] ==
        IF n = 0 THEN {y \in {x} : Exists(y)}
        ELSE ring[n - 1] \union
             UNION {{rels[r].source, rels[r].target} :
                      r \in GetRelationshipsFor(ring[n - 1], "both")}
  IN ring[depth] \ {x}

IsAlias(x) == \E p \in aliasEdges : p[1] = x

(* The nodes one or more ALIAS_OF edges away ... *)
AliasReach(x) ==
  LET Onward(xs) == {p[2] : p \in {q \in aliasEdges : q[1] \in xs}}
      reach[n \in 1..Cardinality(Entities)] ==
        IF n = 1 THEN Onward({x}) ELSE reach[n - 1] \union Onward(reach[n - 1])
  IN reach[Cardinality(Entities)]

(* Mutant: the path may end anywhere. *)
AnyReached(x) == AliasReach(x)

(* ... of which the query returns the ones that are no alias themselves. *)
CanonicalsOf(x) == {c \in AliasReach(x) : ~ IsAlias(c)}

(* resolve_entity_ids, for one id; Entities stands for AliasCycleError. *)
Resolved(x) ==
  IF CanonicalsOf(x) # {} THEN CanonicalsOf(x)
  ELSE IF IsAlias(x) THEN Entities ELSE {x}

-----------------------------------------------------------------------------
(* Properties *)

TypeOK ==
  /\ nodes \in [Entities -> {NoNode} \union SUBSET BlockingKeys]
  /\ rels \in [Relationships -> {NoNode} \union Edge]
  /\ keyNodes \subseteq BlockingKeys
  /\ keyEdges \subseteq Entities \X keyNodes
  /\ aliasEdges \subseteq AliasPairs
  /\ call \in Calls \union {NoCall}
  /\ step \in 1..4
  /\ purge \in 0..3
  /\ raced \subseteq Entities

(* Between two calls of the projection, and however often one of them was cut
   short and run again, find_by_blocking_key answers from the rows: no entity
   under a key its row has lost, and, unless the write ran across a purge, none
   missing under a key its row has. *)
KeysFollowRows ==
  call = NoCall =>
    \A k \in BlockingKeys :
      /\ \A x \in FindByBlockingKey(k) : Exists(x) /\ k \in nodes[x]
      /\ \A x \in Entities \ raced :
           Exists(x) /\ k \in nodes[x] => x \in FindByBlockingKey(k)

(* The answer a re-run gives does not need the purge exception: an entity whose
   write ran across a purge may keep a row no key leads to.  (Known limit.) *)
KeysFindEveryRow ==
  call = NoCall =>
    \A x \in Entities : Exists(x) => \A k \in nodes[x] : x \in FindByBlockingKey(k)

(* resolve_entity_ids gives every id the answer the in-memory adapter's walk
   gives: the end of its chain, or an error when it has none. *)
ResolvesLikeTheWalk ==
  LET Hop(x) == IF IsAlias(x) THEN (CHOOSE p \in aliasEdges : p[1] = x)[2] ELSE x
      End(x) ==
        LET walk[n \in 0..Cardinality(Entities)] == IF n = 0 THEN x ELSE Hop(walk[n - 1])
        IN walk[Cardinality(Entities)]
  IN \A x \in Entities : Resolved(x) = IF IsAlias(End(x)) THEN Entities ELSE {End(x)}

=============================================================================
