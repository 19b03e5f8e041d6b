------------------------- MODULE StoreAdaptersProofs -------------------------
(***************************************************************************)
(* Proofs about the store adapters: the in-memory graph store's indexes,   *)
(* the blocking keys and alias queries of Neo4j, the term index of the     *)
(* Postgres chunk store beside the in-memory one, and the provenance of    *)
(* the vector store.  Each adapter has a specification and an inductive    *)
(* invariant of its own; AdaptersHold says all of them of the system that  *)
(* MCStoreAdapters puts together.                                          *)
(***************************************************************************)
EXTENDS MCStoreAdapters, Iteration, FiniteSetTheorems, TLAPS

(***************************************************************************)
(* The in-memory graph store                                               *)
(***************************************************************************)

OutgoingExact ==
  \A x \in Entities : \A r \in Relationships :
    r \in outgoing[x] <=> HasEdge(r) /\ edges[r].source = x

IncomingExact ==
  \A x \in Entities : \A r \in Relationships :
    r \in incoming[x] <=> HasEdge(r) /\ edges[r].target = x

BlockingIndexExact ==
  \A key \in BlockingKeys : \A x \in Entities :
    x \in blocking[key] <=> key \in KeysOf(entities[x])

IndexesInv ==
  /\ TypeOK
  /\ OutgoingExact
  /\ IncomingExact
  /\ BlockingIndexExact
  /\ NeighborsReal

LEMMA RowFacts ==
  /\ \A e \in Edge : /\ e \in [source : Entities, target : Entities, type : Types]
                     /\ e.source # e.target /\ e # NoRow
                     /\ Ends(e) \subseteq Entities
                     /\ \A x \in Entities : PairAt(e, x) \in Entities \X Types
  /\ \A row \in EntityRow : row # NoRow /\ row.keys \subseteq BlockingKeys
<1>1. ASSUME NEW e \in Edge
      PROVE  /\ e \in [source : Entities, target : Entities, type : Types]
             /\ e.source # e.target /\ e # NoRow
             /\ Ends(e) \subseteq Entities
             /\ \A x \in Entities : PairAt(e, x) \in Entities \X Types
  BY NoEdgeAssumption DEF Edge, Ends, PairAt, OtherEnd
<1>2. ASSUME NEW row \in EntityRow
      PROVE  row # NoRow /\ row.keys \subseteq BlockingKeys
  BY NoRowAssumption DEF EntityRow
<1> QED BY <1>1, <1>2

LEMMA IndexesInit == Init => IndexesInv
BY DEF Init, IndexesInv, TypeOK, OutgoingExact, IncomingExact, BlockingIndexExact,
       NeighborsReal, HasEdge, KeysOf

LEMMA UpsertEntityKeeps ==
  ASSUME IndexesInv, NEW x \in Entities, NEW row \in EntityRow, UpsertEntity(x, row)
  PROVE  IndexesInv'
<1>1. TypeOK'
  BY DEF IndexesInv, TypeOK, UpsertEntity, indexes
<1>2. BlockingIndexExact'
  <2> SUFFICES ASSUME NEW key \in BlockingKeys, NEW y \in Entities
               PROVE  y \in blocking'[key] <=> key \in KeysOf(entities'[y])
    BY DEF BlockingIndexExact, KeysOf
  <2>1. y \in blocking[key] <=> key \in KeysOf(entities[y])
    BY DEF IndexesInv, BlockingIndexExact
  <2>2. blocking'[key] = IF key \in row.keys THEN blocking[key] \union {x}
                       ELSE IF key \in KeysOf(entities[x]) THEN blocking[key] \ {x}
                       ELSE blocking[key]
    BY DEF UpsertEntity
  <2>3. entities'[y] = IF y = x THEN row ELSE entities[y]
    BY DEF UpsertEntity, IndexesInv, TypeOK
  <2>4. KeysOf(row) = row.keys
    BY RowFacts DEF KeysOf
  <2> QED BY <2>1, <2>2, <2>3, <2>4
<1>3. OutgoingExact' /\ IncomingExact' /\ NeighborsReal'
  BY DEF IndexesInv, OutgoingExact, IncomingExact, NeighborsReal, UpsertEntity,
         indexes, HasEdge
<1> QED BY <1>1, <1>2, <1>3 DEF IndexesInv

LEMMA ReplaceKeeps ==
  ASSUME IndexesInv, NEW r \in Relationships, NEW e \in Edge, Replace(r, e),
         UNCHANGED <<entities, blocking>>, todo' \in Seq(Update)
  PROVE  IndexesInv'
<1>1. /\ \A z \in Relationships : edges'[z] = IF z = r THEN e ELSE edges[z]
      /\ \A x \in Entities :
           /\ outgoing'[x] = OutgoingWithout(r, x) \union (IF x = e.source THEN {r} ELSE {})
           /\ incoming'[x] = IncomingWithout(r, x) \union (IF x = e.target THEN {r} ELSE {})
           /\ adjacency'[x] = AdjacencyWithout(r, x)
                                \union (IF x \in Ends(e) THEN {PairAt(e, x)} ELSE {})
  BY DEF Replace, IndexesInv, TypeOK
<1>2. TypeOK'
  <2>1. edges' \in [Relationships -> Edge \union {NoRow}]
    BY DEF Replace, IndexesInv, TypeOK
  <2>2. outgoing' \in [Entities -> SUBSET Relationships]
    BY DEF Replace, IndexesInv, TypeOK, OutgoingWithout
  <2>3. incoming' \in [Entities -> SUBSET Relationships]
    BY DEF Replace, IndexesInv, TypeOK, IncomingWithout
  <2>4. \A x \in Entities : AdjacencyWithout(r, x) \subseteq Entities \X Types
    BY DEF AdjacencyWithout, IndexesInv, TypeOK
  <2>5. \A x \in Entities :
          AdjacencyWithout(r, x) \union (IF x \in Ends(e) THEN {PairAt(e, x)} ELSE {})
            \subseteq Entities \X Types
    BY <2>4, RowFacts
  <2>6. adjacency' \in [Entities -> SUBSET (Entities \X Types)]
    BY <2>5 DEF Replace
  <2> QED BY <2>1, <2>2, <2>3, <2>6 DEF IndexesInv, TypeOK
<1>3. OutgoingExact'
  BY <1>1, RowFacts DEF IndexesInv, OutgoingExact, OutgoingWithout, HasEdge
<1>4. IncomingExact'
  BY <1>1, RowFacts DEF IndexesInv, IncomingExact, IncomingWithout, HasEdge
<1>5. BlockingIndexExact'
  BY DEF IndexesInv, BlockingIndexExact, KeysOf
<1>6. NeighborsReal'
  <2> SUFFICES ASSUME NEW x \in Entities, NEW p \in adjacency'[x]
               PROVE  \E z \in Relationships :
                        /\ edges'[z] # NoRow /\ x \in Ends(edges'[z])
                        /\ p = PairAt(edges'[z], x)
    BY DEF NeighborsReal, HasEdge, Ends, PairAt, OtherEnd
  <2>1. CASE x \in Ends(e) /\ p = PairAt(e, x)
    BY <2>1, <1>1, RowFacts
  <2>2. CASE p \in AdjacencyWithout(r, x)
    <3>1. p \in adjacency[x]
      BY <2>2 DEF AdjacencyWithout
    <3>2. PICK z \in Relationships : /\ edges[z] # NoRow /\ x \in Ends(edges[z])
                                     /\ p = PairAt(edges[z], x)
      BY <3>1 DEF IndexesInv, NeighborsReal, HasEdge
    <3>3. z # r
      BY <2>2, <3>2 DEF AdjacencyWithout
    <3> QED BY <3>2, <3>3, <1>1
  <2> QED BY <2>1, <2>2, <1>1
<1> QED BY <1>2, <1>3, <1>4, <1>5, <1>6 DEF IndexesInv

LEMMA DeleteEdgeKeeps ==
  ASSUME IndexesInv, NEW r \in Relationships, DeleteRelationship(r)
  PROVE  IndexesInv'
<1>1. /\ \A z \in Relationships : edges'[z] = IF z = r THEN NoRow ELSE edges[z]
      /\ \A x \in Entities : /\ outgoing'[x] = OutgoingWithout(r, x)
                             /\ incoming'[x] = IncomingWithout(r, x)
                             /\ adjacency'[x] = AdjacencyWithout(r, x)
      /\ UNCHANGED <<entities, blocking, todo>>
  BY DEF DeleteRelationship, IndexesInv, TypeOK
<1>2. TypeOK'
  BY DEF DeleteRelationship, IndexesInv, TypeOK, OutgoingWithout, IncomingWithout,
         AdjacencyWithout
<1>3. OutgoingExact' /\ IncomingExact'
  BY <1>1 DEF IndexesInv, OutgoingExact, IncomingExact, OutgoingWithout,
              IncomingWithout, HasEdge
<1>4. BlockingIndexExact'
  BY <1>1 DEF IndexesInv, BlockingIndexExact, KeysOf
<1>5. NeighborsReal'
  <2> SUFFICES ASSUME NEW x \in Entities, NEW p \in adjacency'[x]
               PROVE  \E z \in Relationships :
                        /\ edges'[z] # NoRow /\ x \in Ends(edges'[z])
                        /\ p = PairAt(edges'[z], x)
    BY DEF NeighborsReal, HasEdge, Ends, PairAt, OtherEnd
  <2>1. p \in adjacency[x]
    BY <1>1 DEF AdjacencyWithout
  <2>2. PICK z \in Relationships : /\ edges[z] # NoRow /\ x \in Ends(edges[z])
                                   /\ p = PairAt(edges[z], x)
    BY <2>1 DEF IndexesInv, NeighborsReal, HasEdge
  <2>3. z # r
    BY <2>2, <1>1 DEF AdjacencyWithout
  <2> QED BY <2>2, <2>3, <1>1
<1> QED BY <1>2, <1>3, <1>4, <1>5 DEF IndexesInv

LEMMA IndexesStep == IndexesInv /\ [Next]_vars => IndexesInv'
<1> SUFFICES ASSUME IndexesInv, [Next]_vars PROVE IndexesInv'
  OBVIOUS
<1>1. CASE todo # <<>> /\ WriteNext
  <2>1. /\ Head(todo) \in Update /\ Tail(todo) \in Seq(Update)
    BY <1>1 DEF IndexesInv, TypeOK
  <2>2. Head(todo).id \in Relationships /\ Head(todo).edge \in Edge
    BY <2>1 DEF Update
  <2> QED BY <1>1, <2>1, <2>2, ReplaceKeeps DEF WriteNext
<1>2. ASSUME NEW x \in Entities, NEW row \in EntityRow, UpsertEntity(x, row)
      PROVE  IndexesInv'
  BY <1>2, UpsertEntityKeeps
<1>3. ASSUME NEW batch \in Batches, UpsertRelationships(batch)
      PROVE  IndexesInv'
  <2>1. batch \in Seq(Update)
    BY BatchAssumption DEF Batches
  <2>2. todo' \in Seq(Update) /\ UNCHANGED <<entities, edges, blocking, indexes>>
    BY <1>3, <2>1 DEF UpsertRelationships
  <2> QED BY <2>2 DEF IndexesInv, TypeOK, OutgoingExact, IncomingExact,
                      BlockingIndexExact, NeighborsReal, indexes, HasEdge, KeysOf
<1>4. ASSUME NEW r \in Relationships, DeleteRelationship(r)
      PROVE  IndexesInv'
  BY <1>4, DeleteEdgeKeeps
<1>5. CASE DeleteByTenant
  BY <1>5 DEF DeleteByTenant, IndexesInv, TypeOK, OutgoingExact, IncomingExact,
              BlockingIndexExact, NeighborsReal, HasEdge, KeysOf
<1>6. CASE UNCHANGED vars
  BY <1>6 DEF vars, IndexesInv, TypeOK, OutgoingExact, IncomingExact,
              BlockingIndexExact, NeighborsReal, HasEdge, KeysOf
<1> QED BY <1>1, <1>2, <1>3, <1>4, <1>5, <1>6 DEF Next

(***************************************************************************)
(* Whatever was written, moved and deleted, get_relationships reports      *)
(* exactly the stored edges, find_by_blocking_key exactly the entities     *)
(* whose current row has the key, and neighbors never reports an entity no *)
(* stored edge leads to.                                                   *)
(***************************************************************************)
THEOREM IndexesSayWhatTheRowsSay ==
  Spec => [](TypeOK /\ IndexesExact)
<1>1. IndexesInv => ReadsExact
  <2> SUFFICES ASSUME IndexesInv, NEW x \in Entities
               PROVE  /\ GetRelationships(x, "out") =
                           {r \in Relationships : HasEdge(r) /\ edges[r].source = x}
                      /\ GetRelationships(x, "in") =
                           {r \in Relationships : HasEdge(r) /\ edges[r].target = x}
                      /\ GetRelationships(x, "both") =
                           {r \in Relationships : HasEdge(r) /\ x \in Ends(edges[r])}
    BY DEF ReadsExact
  <2>1. /\ GetRelationships(x, "out") = {r \in outgoing[x] : edges[r] # NoRow}
        /\ GetRelationships(x, "in") = {r \in incoming[x] : edges[r] # NoRow}
        /\ GetRelationships(x, "both") =
             {r \in outgoing[x] \union incoming[x] : edges[r] # NoRow}
    BY DEF GetRelationships
  <2>2. outgoing[x] \subseteq Relationships /\ incoming[x] \subseteq Relationships
    BY DEF IndexesInv, TypeOK
  <2>3. \A r \in Relationships :
          /\ r \in outgoing[x] <=> HasEdge(r) /\ edges[r].source = x
          /\ r \in incoming[x] <=> HasEdge(r) /\ edges[r].target = x
    BY DEF IndexesInv, OutgoingExact, IncomingExact
  <2>4. \A r : x \in Ends(edges[r]) <=> edges[r].source = x \/ edges[r].target = x
    BY DEF Ends
  <2> QED BY <2>1, <2>2, <2>3, <2>4 DEF HasEdge
<1>2. IndexesInv => BlockingExact
  BY RowFacts DEF IndexesInv, TypeOK, BlockingIndexExact, BlockingExact,
                  FindByBlockingKey, KeysOf
<1>3. IndexesInv => TypeOK /\ NeighborsReal
  BY DEF IndexesInv
<1>4. IndexesInv => TypeOK /\ IndexesExact
  BY <1>1, <1>2, <1>3 DEF IndexesExact
<1> QED BY <1>4, IndexesInit, IndexesStep, PTL DEF Spec


(***************************************************************************)
(* Blocking keys in Neo4j                                                  *)
(***************************************************************************)

(* While a batch of entities is being written, nothing is promised of them. *)
BeingWritten == IF call # NoCall /\ call.op = "entities" THEN DOMAIN call.batch ELSE {}

HasKey(x, key) == Neo4j!Exists(x) /\ key \in nodes[x]

EdgesTrue ==
  \A x \in Nodes \ BeingWritten, key \in Keys : <<x, key>> \in keyEdges => HasKey(x, key)

EdgesThere ==
  \A x \in Nodes \ (BeingWritten \union raced), key \in Keys :
    HasKey(x, key) => <<x, key>> \in keyEdges

(* Nothing but the call in progress writes rows: once it has written its own,
   they stay as they are in the batch, or a purge takes them. *)
BatchWritten ==
  Neo4j!Running("entities", 2) \/ Neo4j!Running("entities", 3) =>
    \A x \in Nodes \intersect BeingWritten : Neo4j!Exists(x) => nodes[x] = call.batch[x]

BatchUnkeyed ==
  Neo4j!Running("entities", 3) =>
    \A x \in Nodes \intersect BeingWritten, key \in Keys : <<x, key>> \notin keyEdges

(* The purge's last statement takes key edges without their rows; by then every
   row was written across it. *)
PurgeMarks == purge \in {2, 3} => \A x \in Nodes : Neo4j!Exists(x) => x \in raced

KeysInv == EdgesTrue /\ EdgesThere /\ BatchWritten /\ BatchUnkeyed /\ PurgeMarks

LEMMA KeysInit == Neo4j!Init => KeysInv
BY DEF Neo4j!Init, KeysInv, EdgesTrue, EdgesThere, BatchWritten, BatchUnkeyed, PurgeMarks,
       BeingWritten, HasKey, Neo4j!Exists, Neo4j!Running

LEMMA KeysGiven == KeysInv => KeysFollowRows
BY DEF KeysInv, EdgesTrue, EdgesThere, BeingWritten, HasKey, KeysFollowRows,
       Neo4j!KeysFollowRows, Neo4j!FindByBlockingKey

(* What WriteNodes changes is in the batch. *)
LEMMA WriteNodesKeeps == KeysInv /\ Neo4j!WriteNodes => KeysInv'
<1> SUFFICES ASSUME KeysInv, Neo4j!WriteNodes PROVE KeysInv'
  OBVIOUS
<1> USE DEF KeysInv
<1>1. BeingWritten' = BeingWritten /\ BeingWritten = DOMAIN call.batch
  BY DEF Neo4j!WriteNodes, Neo4j!Running, Neo4j!Advance, BeingWritten
<1>2. \A x \in Nodes \ BeingWritten : nodes'[x] = nodes[x]
  BY <1>1 DEF Neo4j!WriteNodes
<1>3. EdgesTrue'
  BY <1>1, <1>2 DEF EdgesTrue, HasKey, Neo4j!Exists, Neo4j!WriteNodes
<1>4. EdgesThere'
  BY <1>1, <1>2 DEF EdgesThere, HasKey, Neo4j!Exists, Neo4j!WriteNodes
<1>5. BatchWritten'
  BY <1>1 DEF BatchWritten, Neo4j!Exists, Neo4j!WriteNodes, Neo4j!Advance
<1>6. BatchUnkeyed'
  BY DEF BatchUnkeyed, Neo4j!WriteNodes, Neo4j!Running, Neo4j!Advance
<1>7. PurgeMarks'
  BY <1>1, <1>2 DEF PurgeMarks, Neo4j!Exists, Neo4j!WriteNodes, Neo4j!Advance
<1> QED BY <1>3, <1>4, <1>5, <1>6, <1>7

(* When no row of the batch has keys, the call ends here. *)
LEMMA DropKeyEdgesKeeps == KeysInv /\ Neo4j!DropKeyEdges => KeysInv'
<1> SUFFICES ASSUME KeysInv, Neo4j!DropKeyEdges PROVE KeysInv'
  OBVIOUS
<1> USE DEF KeysInv
<1>1. BeingWritten = DOMAIN call.batch /\ Neo4j!Running("entities", 2)
  BY DEF Neo4j!DropKeyEdges, Neo4j!Running, BeingWritten
<1>2. \A x \in Nodes, key \in Keys :
        <<x, key>> \in keyEdges' <=> <<x, key>> \in keyEdges /\ x \notin BeingWritten
  BY <1>1 DEF Neo4j!DropKeyEdges, Neo4j!Unkeyed
<1>3. nodes' = nodes /\ purge' = purge /\ raced \subseteq raced'
  BY DEF Neo4j!DropKeyEdges, Neo4j!Return, Neo4j!Advance
<1>4. \A x \in Nodes \intersect BeingWritten : Neo4j!Exists(x) => nodes[x] = call.batch[x]
  BY <1>1 DEF BatchWritten
<1>5. PurgeMarks'
  BY <1>3 DEF PurgeMarks, Neo4j!Exists
<1>6. CASE Neo4j!RowsCarryingKeys(call.batch) = {}
  <2>1. BeingWritten' = {} /\ ~ Neo4j!Running("entities", 2)' /\ ~ Neo4j!Running("entities", 3)'
    BY <1>6 DEF Neo4j!DropKeyEdges, Neo4j!Return, BeingWritten, Neo4j!Running
  <2>2. \A x \in BeingWritten : call.batch[x] = {}
    BY <1>1, <1>6 DEF Neo4j!RowsCarryingKeys
  <2>3. EdgesTrue'
    BY <1>2, <1>3 DEF EdgesTrue, HasKey, Neo4j!Exists
  <2>4. EdgesThere'
    BY <1>2, <1>3, <1>4, <2>2 DEF EdgesThere, HasKey, Neo4j!Exists
  <2> QED BY <1>5, <2>1, <2>3, <2>4 DEF BatchWritten, BatchUnkeyed
<1>7. CASE Neo4j!RowsCarryingKeys(call.batch) # {}
  <2>1. BeingWritten' = BeingWritten /\ call' = call
    BY <1>7 DEF Neo4j!DropKeyEdges, Neo4j!Advance, BeingWritten
  <2>2. EdgesTrue' /\ EdgesThere'
    BY <1>2, <1>3, <2>1 DEF EdgesTrue, EdgesThere, HasKey, Neo4j!Exists
  <2>3. BatchWritten' /\ BatchUnkeyed'
    BY <1>2, <1>3, <1>4, <2>1 DEF BatchWritten, BatchUnkeyed, Neo4j!Exists
  <2> QED BY <1>5, <2>2, <2>3
<1> QED BY <1>6, <1>7

(* The batch's rows have no edges before it, and the ones they call for after. *)
LEMMA WriteKeyEdgesKeeps == KeysInv /\ Neo4j!WriteKeyEdges => KeysInv'
<1> SUFFICES ASSUME KeysInv, Neo4j!WriteKeyEdges PROVE KeysInv'
  OBVIOUS
<1> USE DEF KeysInv
<1> DEFINE keyed == {x \in Neo4j!RowsCarryingKeys(call.batch) : Neo4j!Exists(x)}
<1>1. BeingWritten = DOMAIN call.batch /\ Neo4j!Running("entities", 3)
  BY DEF Neo4j!WriteKeyEdges, Neo4j!Running, BeingWritten
<1>2. keyEdges' = keyEdges \union UNION {{x} \X call.batch[x] : x \in keyed}
  BY DEF Neo4j!WriteKeyEdges
<1>3. \A x \in Nodes, key \in Keys :
        <<x, key>> \in keyEdges' <=>
          <<x, key>> \in keyEdges \/ (x \in keyed /\ key \in call.batch[x])
  BY <1>2
<1>4. nodes' = nodes /\ purge' = purge /\ raced \subseteq raced'
  BY DEF Neo4j!WriteKeyEdges, Neo4j!Return
<1>5. BeingWritten' = {} /\ ~ Neo4j!Running("entities", 2)' /\ ~ Neo4j!Running("entities", 3)'
  BY DEF Neo4j!WriteKeyEdges, Neo4j!Return, BeingWritten, Neo4j!Running
<1>6. keyed \subseteq BeingWritten
  BY <1>1 DEF Neo4j!RowsCarryingKeys
<1>7. \A x \in Nodes \intersect BeingWritten :
        /\ Neo4j!Exists(x) => nodes[x] = call.batch[x]
        /\ \A key \in Keys : <<x, key>> \notin keyEdges
  BY <1>1 DEF BatchWritten, BatchUnkeyed
<1>8. EdgesTrue'
  BY <1>3, <1>4, <1>6, <1>7 DEF EdgesTrue, HasKey, Neo4j!Exists
<1>9. EdgesThere'
  <2> SUFFICES ASSUME NEW x \in Nodes, NEW key \in Keys, x \notin raced, HasKey(x, key)
               PROVE  <<x, key>> \in keyEdges'
    BY <1>4, <1>5 DEF EdgesThere, HasKey, Neo4j!Exists
  <2>1. CASE x \in BeingWritten
    <3>1. key \in call.batch[x] /\ Neo4j!Exists(x)
      BY <1>7, <2>1 DEF HasKey
    <3>2. x \in keyed
      BY <1>1, <2>1, <3>1 DEF Neo4j!RowsCarryingKeys
    <3> QED BY <1>3, <3>1, <3>2
  <2>2. CASE x \notin BeingWritten
    <3>1. x \in Nodes \ (BeingWritten \union raced) BY <2>2
    <3>2. <<x, key>> \in keyEdges BY <3>1 DEF EdgesThere
    <3> QED BY <1>3, <3>2
  <2> QED BY <2>1, <2>2
<1>10. PurgeMarks'
  BY <1>4 DEF PurgeMarks, Neo4j!Exists
<1> QED BY <1>5, <1>8, <1>9, <1>10 DEF BatchWritten, BatchUnkeyed

(* The calls that write neither entities nor key edges. *)
LEMMA OtherCallsKeep ==
  ASSUME KeysInv, UNCHANGED <<nodes, keyEdges, purge, raced>>, call.op # "entities",
         call' = call \/ call' = NoCall
  PROVE  KeysInv'
BY DEF KeysInv, EdgesTrue, EdgesThere, BatchWritten, BatchUnkeyed, PurgeMarks, BeingWritten,
       HasKey, Neo4j!Exists, Neo4j!Running

LEMMA StatementKeeps == KeysInv /\ Neo4j!Statement => KeysInv'
<1> SUFFICES ASSUME KeysInv, Neo4j!Statement PROVE KeysInv'
  OBVIOUS
<1>1. CASE Neo4j!WriteNodes BY <1>1, WriteNodesKeeps
<1>2. CASE Neo4j!DropKeyEdges BY <1>2, DropKeyEdgesKeeps
<1>3. CASE Neo4j!WriteKeyEdges BY <1>3, WriteKeyEdgesKeeps
<1>4. CASE Neo4j!RejectDangling \/ Neo4j!WriteEdges \/ Neo4j!RaiseMissing \/ Neo4j!ReturnWritten
  BY <1>4, OtherCallsKeep
     DEF Neo4j!RejectDangling, Neo4j!WriteEdges, Neo4j!RaiseMissing, Neo4j!ReturnWritten,
         Neo4j!Running, Neo4j!Advance, Neo4j!Return, Neo4j!graph
<1>5. CASE Neo4j!DeleteRelationship \/ Neo4j!UpsertAlias \/ Neo4j!RemoveAlias
  BY <1>5, OtherCallsKeep DEF Neo4j!DeleteRelationship, Neo4j!UpsertAlias, Neo4j!RemoveAlias,
      Neo4j!Running, Neo4j!Return
<1> QED BY <1>1, <1>2, <1>3, <1>4, <1>5 DEF Neo4j!Statement

LEMMA PurgeKeeps == KeysInv /\ Neo4j!Purge => KeysInv'
<1> SUFFICES ASSUME KeysInv, Neo4j!Purge PROVE KeysInv'
  OBVIOUS
<1> USE DEF KeysInv, EdgesTrue, EdgesThere, BatchWritten, BatchUnkeyed, PurgeMarks,
      BeingWritten,
            HasKey, Neo4j!Exists, Neo4j!Running
<1>1. CASE Neo4j!BeginPurge BY <1>1 DEF Neo4j!BeginPurge, Neo4j!graph
<1>2. CASE Neo4j!PurgeEntities BY <1>2 DEF Neo4j!PurgeEntities
<1>3. CASE Neo4j!PurgeAliases BY <1>3 DEF Neo4j!PurgeAliases, Neo4j!AliasesGone
<1>4. CASE Neo4j!PurgeKeys BY <1>4 DEF Neo4j!PurgeKeys
<1> QED BY <1>1, <1>2, <1>3, <1>4 DEF Neo4j!Purge

LEMMA KeysStep == KeysInv /\ [Neo4j!Next]_(Neo4j!vars) => KeysInv'
<1> SUFFICES ASSUME KeysInv, [Neo4j!Next]_(Neo4j!vars) PROVE KeysInv'
  OBVIOUS
<1> USE DEF KeysInv, EdgesTrue, EdgesThere, BatchWritten, BatchUnkeyed, PurgeMarks,
      BeingWritten,
            HasKey, Neo4j!Exists, Neo4j!Running
<1>1. ASSUME NEW new \in Neo4j!Calls,
      Neo4j!Begin(new) PROVE KeysInv' BY <1>1 DEF Neo4j!Begin, Neo4j!graph
<1>2. CASE Neo4j!Statement BY <1>2, StatementKeeps
<1>3. CASE Neo4j!Purge BY <1>3, PurgeKeeps
<1>4. CASE Neo4j!Redeliver BY <1>4 DEF Neo4j!Redeliver, Neo4j!graph
<1>5. CASE Neo4j!PurgeDies BY <1>5 DEF Neo4j!PurgeDies, Neo4j!graph
<1>6. CASE UNCHANGED Neo4j!vars BY <1>6 DEF Neo4j!vars
<1> QED BY <1>1, <1>2, <1>3, <1>4, <1>5, <1>6 DEF Neo4j!Next

(* Between two calls of the projection, find_by_blocking_key answers from the
   rows, whatever the calls before were cut short after; only an entity whose
   write ran across a purge may be missing under a key. *)
THEOREM KeysFollowTheRows == Neo4j!Spec => []KeysFollowRows
BY KeysInit, KeysStep, KeysGiven, PTL DEF Neo4j!Spec


(***************************************************************************)
(* The chunk store in Postgres, beside the in-memory one                   *)
(***************************************************************************)

ChunkRow == [links : Links, length : Nat]

ChunkTypes ==
  /\ rows \in [ChunkIds -> {NoChunk} \union ChunkRow]
  /\ twin \in [ChunkIds -> {NoChunk} \union Links]
  /\ \A p \in terms : p[1] \in ChunkIds
  /\ backfill \subseteq ChunkIds

ChunksInv == ChunkTypes /\ RowsMatchMemory /\ IndexWhole

(* A batch is a sequence of chunks, and has a last entry for each of its ids. *)
LEMMA BatchFacts ==
  ASSUME NEW batch \in Postgres!Memory!Batches
  PROVE  /\ Postgres!Memory!IdsOf(batch) \subseteq ChunkIds
         /\ \A id \in Postgres!Memory!IdsOf(batch) :
              Postgres!Memory!LinksAfter(batch, id) \in Links
<1>1. PICK n \in 0..ChunkBatchSize : batch \in [1..n -> Postgres!Memory!Chunk]
  BY DEF Postgres!Memory!Batches
<1>2. n \in Nat /\ batch \in Seq(Postgres!Memory!Chunk) /\ Len(batch) = n
  BY <1>1, ChunksAssumption
<1>3. Postgres!Memory!IdsOf(batch) \subseteq ChunkIds
  BY <1>1, <1>2 DEF Postgres!Memory!IdsOf, Postgres!Memory!Chunk
<1>4. ASSUME NEW id \in Postgres!Memory!IdsOf(batch)
      PROVE  Postgres!Memory!LinksAfter(batch, id) \in Links
  <2> DEFINE S == {l \in 1..n : batch[l].id = id}
             Last(l) == batch[l].id = id /\ \A m \in l + 1..Len(batch) : batch[m].id # id
  <2>1. S # {} /\ S \subseteq 1..n
    BY <1>2 DEF Postgres!Memory!IdsOf
  <2>2. PICK m \in S : \A l \in S : l <= m
    <3> HIDE DEF S
    <3>1. S \in SUBSET Nat /\ \A l \in S : l <= n BY <1>2, <2>1
    <3> QED BY <1>2, <2>1, <3>1, GreatestNatural
  <2>3. m \in 1..Len(batch) /\ Last(m)
    BY <1>2, <2>2
  <2>4. (CHOOSE l \in 1..Len(batch) : Last(l)) \in 1..Len(batch)
    <3> HIDE DEF Last
    <3> QED BY <2>3
  <2> QED BY <1>1, <1>2, <2>4 DEF Postgres!Memory!LinksAfter, Postgres!Memory!Chunk
<1> QED BY <1>3, <1>4

LEMMA Relinked ==
  ASSUME NEW row \in ChunkRow, NEW l \in Links
  PROVE  [row EXCEPT !.links = l] \in ChunkRow /\ [row EXCEPT !.links = l].links = l
BY DEF ChunkRow

LEMMA TermRowFacts ==
  ASSUME NEW ids
  PROVE  /\ \A p \in Postgres!TermRows(ids) : p[1] \in ids
         /\ \A id, t : <<id, t>> \in Postgres!TermRows(ids) <=> id \in ids /\ t \in TermsOf[id]
BY DEF Postgres!TermRows

LEMMA LengthType ==
  ASSUME NEW id \in ChunkIds
  PROVE  Postgres!Length(id) \in Nat
BY FS_CardinalityType, ChunksAssumption, Zenon DEF Postgres!Length, Postgres!Cardinality,
    Cardinality

LEMMA ChunksInit ==
  ASSUME Postgres!Init PROVE ChunksInv
<1>1. PICK old \in SUBSET ChunkIds, l \in Links :
        /\ rows = [id \in ChunkIds |-> IF id \in old THEN Postgres!LegacyRow(l) ELSE NoChunk]
        /\ twin = [id \in ChunkIds |-> IF id \in old THEN l ELSE NoChunk]
  BY DEF Postgres!Init
<1>2. Postgres!LegacyRow(l) \in ChunkRow /\ Postgres!LegacyRow(l) # NoChunk /\ Postgres!LegacyRow(l).links = l
        /\ Postgres!LegacyRow(l).length = 0
  BY ChunksAssumption DEF Postgres!LegacyRow, ChunkRow
<1>3. terms = {} /\ backfill = {}
  BY DEF Postgres!Init
<1>4. ChunkTypes
  BY <1>1, <1>2, <1>3 DEF ChunkTypes
<1>5. RowsMatchMemory
  BY <1>1, <1>2 DEF RowsMatchMemory, Postgres!RowsMatchMemory
<1>6. IndexWhole
  BY <1>1, <1>2, <1>3 DEF IndexWhole, Postgres!IndexWhole, Postgres!Held
<1> QED BY <1>4, <1>5, <1>6 DEF ChunksInv

(* Both adapters write the same batch over the same chunks; `kept` is what is
   left of the rows, and `there` of the twin, when the batch is written. *)
LEMMA WriteKeeps ==
  ASSUME ChunksInv, NEW batch \in Postgres!Memory!Batches, NEW gone \in SUBSET ChunkIds,
         gone \intersect Postgres!Memory!IdsOf(batch) = {},
         rows' = Postgres!Written([id \in ChunkIds |-> IF id \in gone THEN NoChunk ELSE rows[id]], batch),
         twin' = Postgres!Memory!Upserted([id \in ChunkIds |-> IF id \in gone THEN NoChunk ELSE twin[id]],
                                 batch),
         terms' = Postgres!Cascaded(gone) \union Postgres!TermRows(Postgres!Memory!IdsOf(batch)),
         backfill' = backfill
  PROVE  ChunksInv'
<1> DEFINE ids == Postgres!Memory!IdsOf(batch)
<1> DEFINE after(id) == Postgres!Memory!LinksAfter(batch, id)
<1>0. ids \subseteq ChunkIds /\ \A id \in ids : after(id) \in Links
  BY BatchFacts
<1>1. /\ \A id \in ids :
           rows'[id] = IF rows[id] # NoChunk THEN [rows[id] EXCEPT !.links = after(id)]
                       ELSE [links |-> after(id), length |-> Postgres!Length(id)]
      /\ \A id \in ChunkIds \ ids : rows'[id] = IF id \in gone THEN NoChunk ELSE rows[id]
      /\ \A id \in ids : twin'[id] = after(id)
      /\ \A id \in ChunkIds \ ids : twin'[id] = IF id \in gone THEN NoChunk ELSE twin[id]
  BY <1>0 DEF Postgres!Written, Postgres!Memory!Upserted
<1>2. DOMAIN rows' = ChunkIds /\ DOMAIN twin' = ChunkIds
        /\ rows' = [id \in ChunkIds |-> rows'[id]] /\ twin' = [id \in ChunkIds |-> twin'[id]]
  BY DEF Postgres!Written, Postgres!Memory!Upserted
<1> HIDE DEF ids, after
<1>3. \A id \in ChunkIds : rows[id] \in {NoChunk} \union ChunkRow
  BY DEF ChunksInv, ChunkTypes
<1>4. ASSUME NEW id \in ids
      PROVE  rows'[id] \in ChunkRow /\ rows'[id] # NoChunk /\ rows'[id].links = after(id)
  <2>1. Postgres!Length(id) \in Nat /\ after(id) \in Links BY <1>0, LengthType
  <2>2. CASE rows[id] = NoChunk
    <3>1. rows'[id] = [links |-> after(id), length |-> Postgres!Length(id)] BY <1>1, <2>2, Zenon
    <3>2. rows'[id] \in ChunkRow /\ rows'[id].links = after(id) BY <2>1, <3>1 DEF ChunkRow
    <3> QED BY <3>2, ChunksAssumption DEF ChunkRow
  <2>3. CASE rows[id] # NoChunk
    <3>1. id \in ChunkIds /\ rows[id] \in ChunkRow BY <1>0, <1>3, <2>3
    <3>2. rows'[id] = [rows[id] EXCEPT !.links = after(id)] BY <1>1, <2>3, Zenon
    <3>3. [rows[id] EXCEPT !.links = after(id)] \in ChunkRow
            /\ [rows[id] EXCEPT !.links = after(id)].links = after(id)
      BY <2>1, <3>1, Relinked
    <3>4. rows'[id] \in ChunkRow /\ rows'[id].links = after(id)
      BY <3>2, <3>3
    <3> QED BY <3>4, ChunksAssumption DEF ChunkRow
  <2> QED BY <2>2, <2>3
<1>5. \A p \in terms' : (p \in terms /\ p[1] \notin gone) \/ p[1] \in ids
  BY TermRowFacts DEF Postgres!Cascaded, ids
<1>6. \A id, t : <<id, t>> \in terms' <=>
        (<<id, t>> \in terms /\ id \notin gone) \/ (id \in ids /\ t \in TermsOf[id])
  BY TermRowFacts DEF Postgres!Cascaded, ids
<1>7. ChunkTypes'
  <2>1. rows' \in [ChunkIds -> {NoChunk} \union ChunkRow]
    BY <1>1, <1>2, <1>3, <1>4
  <2>2. twin' \in [ChunkIds -> {NoChunk} \union Links]
    BY <1>0, <1>1, <1>2 DEF ChunksInv, ChunkTypes
  <2> QED BY <1>0, <1>5, <2>1, <2>2 DEF ChunksInv, ChunkTypes
<1>8. RowsMatchMemory'
  BY <1>0, <1>1, <1>4 DEF ChunksInv, RowsMatchMemory, Postgres!RowsMatchMemory
<1>9. IndexWhole'
  <2>1. ASSUME NEW p \in terms' PROVE rows'[p[1]] # NoChunk
    BY <1>1, <1>4, <1>5 DEF ChunksInv, IndexWhole, Postgres!IndexWhole, ChunkTypes
  <2>2. ASSUME NEW id \in ChunkIds, rows'[id] # NoChunk, id \in ids
        PROVE  \A t \in TermsOf[id] : <<id, t>> \in terms'
    BY <1>6, <2>2
  <2>3. ASSUME NEW id \in ChunkIds, rows'[id] # NoChunk, id \notin ids
        PROVE  \/ \A t \in TermsOf[id] : <<id, t>> \in terms'
               \/ rows'[id].length = 0 /\ \A t \in Terms : <<id, t>> \notin terms'
    <3>1. id \notin gone /\ rows'[id] = rows[id] BY <1>1, <2>3
    <3>2. id \in Postgres!Held(rows) BY <2>3, <3>1 DEF Postgres!Held
    <3>3. \/ \A t \in TermsOf[id] : <<id, t>> \in terms
          \/ rows[id].length = 0 /\ \A t \in Terms : <<id, t>> \notin terms
      BY <3>2 DEF ChunksInv, IndexWhole, Postgres!IndexWhole
    <3> QED BY <1>6, <2>3, <3>1, <3>3
  <2> QED BY <2>1, <2>2, <2>3 DEF IndexWhole, Postgres!IndexWhole, Postgres!Held
<1> QED BY <1>7, <1>8, <1>9 DEF ChunksInv

LEMMA DeleteKeeps ==
  ASSUME ChunksInv, NEW gone \in SUBSET ChunkIds, Postgres!Delete(gone),
         twin' = [id \in ChunkIds |-> IF id \in gone THEN NoChunk ELSE twin[id]]
  PROVE  ChunksInv'
<1>1. rows' = [id \in ChunkIds |-> IF id \in gone THEN NoChunk ELSE rows[id]]
        /\ terms' = {p \in terms : p[1] \notin gone} /\ backfill' = backfill
  BY DEF Postgres!Delete, Postgres!Cascaded
<1>2. ChunkTypes' /\ RowsMatchMemory'
  BY <1>1 DEF ChunksInv, ChunkTypes, RowsMatchMemory, Postgres!RowsMatchMemory
<1>3. IndexWhole'
  <2>1. \A p \in terms' : rows'[p[1]] # NoChunk
    BY <1>1 DEF ChunksInv, IndexWhole, Postgres!IndexWhole, ChunkTypes
  <2>2. ASSUME NEW id \in ChunkIds, rows'[id] # NoChunk
        PROVE  \/ \A t \in TermsOf[id] : <<id, t>> \in terms'
               \/ rows'[id].length = 0 /\ \A t \in Terms : <<id, t>> \notin terms'
    <3>1. id \notin gone /\ rows'[id] = rows[id] BY <1>1, <2>2
    <3>2. id \in Postgres!Held(rows) BY <2>2, <3>1 DEF Postgres!Held
    <3>3. \/ \A t \in TermsOf[id] : <<id, t>> \in terms
          \/ rows[id].length = 0 /\ \A t \in Terms : <<id, t>> \notin terms
      BY <3>2 DEF ChunksInv, IndexWhole, Postgres!IndexWhole
    <3>4. \A t : <<id, t>> \in terms' <=> <<id, t>> \in terms BY <1>1, <3>1
    <3> QED BY <3>1, <3>3, <3>4
  <2> QED BY <2>1, <2>2 DEF IndexWhole, Postgres!IndexWhole, Postgres!Held
<1> QED BY <1>2, <1>3 DEF ChunksInv

(* A row is there exactly when the twin has the chunk. *)
LEMMA SameChunks ==
  ASSUME ChunksInv
  PROVE  /\ \A id \in ChunkIds : rows[id] = NoChunk <=> twin[id] = NoChunk
         /\ rows = [id \in ChunkIds |-> rows[id]]
         /\ twin = [id \in ChunkIds |-> twin[id]]
BY ChunksAssumption DEF ChunksInv, ChunkTypes, RowsMatchMemory, Postgres!RowsMatchMemory,
    ChunkRow

LEMMA UpsertManyKeeps ==
  ASSUME ChunksInv, NEW batch \in Postgres!Memory!Batches, Postgres!UpsertMany(batch)
  PROVE  ChunksInv'
<1>1. /\ rows = [id \in ChunkIds |-> IF id \in {} THEN NoChunk ELSE rows[id]]
      /\ twin = [id \in ChunkIds |-> IF id \in {} THEN NoChunk ELSE twin[id]]
  BY SameChunks
<1>2. Postgres!Cascaded({}) = terms
  BY DEF Postgres!Cascaded
<1>3. /\ rows' = Postgres!Written(rows, batch)
      /\ terms' = terms \union Postgres!TermRows(Postgres!Memory!IdsOf(batch))
      /\ twin' = Postgres!Memory!Upserted(twin, batch)
      /\ backfill' = backfill
  BY DEF Postgres!UpsertMany, Postgres!Memory!UpsertMany
<1> QED BY <1>1, <1>2, <1>3, WriteKeeps

LEMMA ReplaceSourceKeeps ==
  ASSUME ChunksInv, NEW source \in Sources, NEW batch \in Postgres!Memory!Batches,
         Postgres!ReplaceSource(source, batch)
  PROVE  ChunksInv'
<1> DEFINE gone == Postgres!Orphans(source, batch)
<1>1. gone = Postgres!Memory!Orphans(twin, source, batch)
  BY SameChunks DEF Postgres!Orphans, Postgres!Held, Postgres!Memory!Orphans
<1>2. gone \in SUBSET ChunkIds /\ gone \intersect Postgres!Memory!IdsOf(batch) = {}
  BY DEF Postgres!Orphans, Postgres!Held
<1>3. /\ rows' = Postgres!Written([id \in ChunkIds |-> IF id \in gone THEN NoChunk ELSE rows[id]], batch)
      /\ terms' = Postgres!Cascaded(gone) \union Postgres!TermRows(Postgres!Memory!IdsOf(batch))
      /\ backfill' = backfill
  BY DEF Postgres!ReplaceSource
<1>4. twin' = Postgres!Memory!Upserted([id \in ChunkIds |-> IF id \in gone THEN NoChunk ELSE twin[id]],
                              batch)
  BY <1>1 DEF Postgres!ReplaceSource, Postgres!Memory!ReplaceSource
<1> HIDE DEF gone
<1> QED BY <1>2, <1>3, <1>4, WriteKeeps

LEMMA DeleteBySourceKeeps ==
  ASSUME ChunksInv, NEW source \in Sources, Postgres!DeleteBySource(source)
  PROVE  ChunksInv'
<1> DEFINE gone == {id \in Postgres!Held(rows) : SourceOf[id] = source}
<1>1. gone \in SUBSET ChunkIds /\ Postgres!Delete(gone)
  BY DEF Postgres!DeleteBySource, Postgres!Held
<1>2. twin' = [id \in ChunkIds |-> IF id \in gone THEN NoChunk ELSE twin[id]]
  BY SameChunks DEF Postgres!DeleteBySource, Postgres!Memory!DeleteBySource, Postgres!Held
<1> HIDE DEF gone
<1> QED BY <1>1, <1>2, DeleteKeeps

LEMMA DeleteByTenantKeeps ==
  ASSUME ChunksInv, Postgres!DeleteByTenant
  PROVE  ChunksInv'
<1>1. Postgres!Held(rows) \in SUBSET ChunkIds /\ Postgres!Delete(Postgres!Held(rows))
  BY DEF Postgres!DeleteByTenant, Postgres!Held
<1>2. twin' = [id \in ChunkIds |-> IF id \in Postgres!Held(rows) THEN NoChunk ELSE twin[id]]
  BY SameChunks DEF Postgres!DeleteByTenant, Postgres!Memory!DeleteByTenant, Postgres!Held
<1> QED BY <1>1, <1>2, DeleteKeeps

LEMMA BackfillWriteKeeps ==
  ASSUME ChunksInv, Postgres!BackfillWrite
  PROVE  ChunksInv'
<1>1. /\ rows' = [id \in ChunkIds |-> IF id \in backfill THEN Postgres!Measured(id) ELSE rows[id]]
      /\ terms' = terms \union Postgres!TermRows(backfill)
      /\ twin' = twin /\ backfill' = backfill /\ backfill \subseteq Postgres!Held(rows)
  BY DEF Postgres!BackfillWrite
<1>2. ASSUME NEW id \in backfill
      PROVE  Postgres!Measured(id) \in ChunkRow /\ Postgres!Measured(id).links = rows[id].links
  <2>1. id \in ChunkIds /\ rows[id] \in ChunkRow BY <1>1 DEF ChunksInv, ChunkTypes,
        Postgres!Held
  <2>2. Postgres!Length(id) \in Nat BY <2>1, LengthType
  <2> QED BY <2>1, <2>2 DEF Postgres!Measured, ChunkRow
<1>3. ChunkTypes'
  BY <1>1, <1>2, TermRowFacts DEF ChunksInv, ChunkTypes
<1>4. RowsMatchMemory'
  BY <1>1, <1>2, ChunksAssumption
     DEF ChunksInv, ChunkRow, RowsMatchMemory, Postgres!RowsMatchMemory, Postgres!Held
<1>5. \A id \in ChunkIds : rows[id] # NoChunk <=> rows'[id] # NoChunk
  BY <1>1, <1>2, ChunksAssumption DEF ChunkRow, Postgres!Held
<1>6. IndexWhole'
  <2>1. \A p \in terms' : rows'[p[1]] # NoChunk
    BY <1>1, <1>5, TermRowFacts DEF ChunksInv, IndexWhole, Postgres!IndexWhole, ChunkTypes,
        Postgres!Held
  <2>2. ASSUME NEW id \in ChunkIds, rows'[id] # NoChunk
        PROVE  \/ \A t \in TermsOf[id] : <<id, t>> \in terms'
               \/ rows'[id].length = 0 /\ \A t \in Terms : <<id, t>> \notin terms'
    <3>1. CASE id \in backfill
      BY <1>1, <3>1, TermRowFacts
    <3>2. CASE id \notin backfill
      <4>1. rows'[id] = rows[id] /\ id \in Postgres!Held(rows) BY <1>1, <1>5, <2>2,
            <3>2 DEF Postgres!Held
      <4>2. \A t : <<id, t>> \in terms' <=> <<id, t>> \in terms BY <1>1, <3>2, TermRowFacts
      <4>3. \/ \A t \in TermsOf[id] : <<id, t>> \in terms
            \/ rows[id].length = 0 /\ \A t \in Terms : <<id, t>> \notin terms
        BY <4>1 DEF ChunksInv, IndexWhole, Postgres!IndexWhole
      <4> QED BY <4>1, <4>2, <4>3
    <3> QED BY <3>1, <3>2
  <2> QED BY <2>1, <2>2 DEF IndexWhole, Postgres!IndexWhole, Postgres!Held
<1> QED BY <1>3, <1>4, <1>6 DEF ChunksInv

LEMMA ChunksStep ==
  ASSUME ChunksInv, [Postgres!Next]_(Postgres!vars)
  PROVE  ChunksInv'
<1>1. ASSUME NEW batch \in Postgres!Memory!Batches, Postgres!UpsertMany(batch) PROVE ChunksInv'
  BY <1>1, UpsertManyKeeps
<1>2. ASSUME NEW source \in Sources, NEW batch \in Postgres!Memory!Batches,
      Postgres!ReplaceSource(source, batch)
      PROVE  ChunksInv'
  BY <1>2, ReplaceSourceKeeps
<1>3. ASSUME NEW source \in Sources, Postgres!DeleteBySource(source) PROVE ChunksInv'
  BY <1>3, DeleteBySourceKeeps
<1>4. CASE Postgres!DeleteByTenant BY <1>4, DeleteByTenantKeeps
<1>5. CASE Postgres!BackfillWrite BY <1>5, BackfillWriteKeeps
<1>6. CASE Postgres!BackfillRead \/ Postgres!BackfillFails \/ Postgres!Search \/ UNCHANGED Postgres!vars
  BY <1>6 DEF Postgres!BackfillRead, Postgres!BackfillFails, Postgres!Search,
      Postgres!CountDocs, Postgres!CountTerms, Postgres!FetchCandidates, Postgres!vars,
              ChunksInv, ChunkTypes, RowsMatchMemory, Postgres!RowsMatchMemory, IndexWhole,
              Postgres!IndexWhole, Postgres!Held
<1> QED BY <1>1, <1>2, <1>3, <1>4, <1>5, <1>6 DEF Postgres!Next

(* The same calls leave the same chunks in both adapters, and a chunk is in the
   term index wholly or not at all: after any writes, and backfills cut short or
   run across them, over a table of any age. *)
THEOREM TableFollowsMemory ==
  Postgres!Spec => [](RowsMatchMemory /\ IndexWhole)
<1>1. Postgres!Init => ChunksInv BY ChunksInit
<1>2. ChunksInv /\ [Postgres!Next]_(Postgres!vars) => ChunksInv' BY ChunksStep
<1>3. ChunksInv => RowsMatchMemory /\ IndexWhole BY DEF ChunksInv
<1> QED BY <1>1, <1>2, <1>3, PTL DEF Postgres!Spec


(***************************************************************************)
(* The vector store                                                        *)
(***************************************************************************)

(* What a provenance and a store's own parameters have in common. *)
Suits(p, s) ==
  /\ p.model # Unset => ModelOf[s] \in {Unset, p.model}
  /\ PrefixOf[s] \in {Unset, p.prefix}

(* What a store answers suits it, and a vector suits what it was written
   under. *)
Signed ==
  /\ DOMAIN provenance = Stores /\ DOMAIN vectors = EntityIds
  /\ \A s \in Stores : provenance[s] # Unset => Suits(provenance[s], s)
  /\ \A x \in EntityIds :
       vectors[x] # Unset /\ vectors[x].under # Unset =>
         \E s \in Stores : /\ vectors[x].model = ModelOf[s] /\ vectors[x].prefix = PrefixOf[s]
                          /\ Suits(vectors[x].under, s)

LEMMA OwnSuits ==
  ASSUME NEW s \in Stores
  PROVE  Suits(PgVector!Own(s), s)
BY DEF Suits, PgVector!Own

LEMMA VerifiedSuits ==
  ASSUME NEW p, NEW s \in Stores, p.prefix # Unset, PgVector!Verifies(p, s)
  PROVE  Suits(p, s)
BY DEF Suits, PgVector!Verifies, PgVector!Clash

(* The row names a prefix. *)
Named == recorded # Unset => recorded.prefix # Unset

LEMMA NamedStep ==
  ASSUME Named, PgVector!Next
  PROVE  Named'
<1>1. CASE \E s \in Stores : PgVector!RecordProvenance(s)
  <2>1. PICK s \in Stores : recorded' = PgVector!Recorded(s)
    BY <1>1 DEF PgVector!RecordProvenance
  <2>2. PgVector!Own(s).prefix # Unset BY PrefixesAssumption DEF PgVector!Own
  <2> QED BY <2>1, <2>2 DEF Named, PgVector!Recorded
<1>2. CASE UNCHANGED recorded BY <1>2 DEF Named
<1> QED BY <1>1, <1>2 DEF PgVector!Next, PgVector!CreateTable, PgVector!CheckDimension,
        PgVector!ReadProvenance, PgVector!EnsureAgain, PgVector!Reopen, PgVector!Upsert,
        PgVector!Delete, PgVector!DeleteByTenant

(* A step of one store's changes what that store answers at most. *)
LEMMA AnswersStep ==
  ASSUME Signed, NEW s \in Stores, NEW p,
         provenance' = [provenance EXCEPT ![s] = p], p # Unset => Suits(p, s),
         UNCHANGED vectors
  PROVE  Signed'
BY DEF Signed

LEMMA ReadStep ==
  ASSUME Signed, Named, NEW s \in Stores, PgVector!ReadProvenance(s)
  PROVE  Signed'
<1>1. UNCHANGED vectors BY DEF PgVector!ReadProvenance
<1>2. CASE PgVector!AdoptRecord(s)
  <2>1. Suits(recorded, s) BY <1>2, VerifiedSuits DEF PgVector!AdoptRecord, Named
  <2> QED BY <1>1, <1>2, <2>1, AnswersStep DEF PgVector!AdoptRecord
<1>3. CASE PgVector!RefuseRecord(s)
  BY <1>1, <1>3 DEF PgVector!RefuseRecord, Signed
<1>4. CASE PgVector!FindNoRecord(s)
  <2>1. UNCHANGED provenance \/ provenance' = [provenance EXCEPT ![s] = Unset]
    BY <1>4 DEF PgVector!FindNoRecord
  <2>2. CASE UNCHANGED provenance BY <1>1, <2>2 DEF Signed
  <2>3. CASE provenance' = [provenance EXCEPT ![s] = Unset] BY <1>1, <2>3, AnswersStep
  <2> QED BY <2>1, <2>2, <2>3
<1> QED BY <1>2, <1>3, <1>4 DEF PgVector!ReadProvenance

LEMMA UpsertStep ==
  ASSUME Signed, NEW s \in Stores, NEW x \in EntityIds, PgVector!Upsert(s, x)
  PROVE  Signed'
<1>1. PICK v : v = [model |-> ModelOf[s], prefix |-> PrefixOf[s], under |-> provenance[s]]
  OBVIOUS
<1>2. v.model = ModelOf[s] /\ v.prefix = PrefixOf[s] /\ v.under = provenance[s] BY <1>1
<1>3. vectors' = [vectors EXCEPT ![x] = v] /\ UNCHANGED provenance
  BY <1>1 DEF PgVector!Upsert
<1>4. \A y \in EntityIds : vectors'[y] = IF y = x THEN v ELSE vectors[y]
  BY <1>3 DEF Signed
<1> QED BY <1>2, <1>3, <1>4 DEF Signed

LEMMA SignedStep ==
  ASSUME Signed, Named, [PgVector!Next]_(PgVector!vars)
  PROVE  Signed'
<1>1. ASSUME NEW s \in Stores, PgVector!RecordProvenance(s) PROVE Signed'
  BY <1>1, OwnSuits, AnswersStep DEF PgVector!RecordProvenance
<1>2. ASSUME NEW s \in Stores, PgVector!Reopen(s) PROVE Signed'
  BY <1>2, AnswersStep DEF PgVector!Reopen
<1>3. CASE \E s \in Stores :
             PgVector!CreateTable(s) \/ PgVector!CheckDimension(s) \/ PgVector!EnsureAgain(s)
  <2>1. UNCHANGED <<provenance, vectors>>
    BY <1>3 DEF PgVector!CreateTable, PgVector!CheckDimension, PgVector!EnsureAgain
  <2> QED BY <2>1 DEF Signed
<1>4. CASE (\E x \in EntityIds : PgVector!Delete(x)) \/ PgVector!DeleteByTenant
  <2>1. /\ UNCHANGED provenance /\ DOMAIN vectors' = EntityIds
        /\ \A y \in EntityIds : vectors'[y] \in {Unset, vectors[y]}
    BY <1>4 DEF PgVector!Delete, PgVector!DeleteByTenant, Signed
  <2> QED BY <2>1 DEF Signed
<1>5. CASE UNCHANGED PgVector!vars BY <1>5 DEF PgVector!vars, Signed
<1> QED BY <1>1, <1>2, <1>3, <1>4, <1>5, ReadStep, UpsertStep DEF PgVector!Next

(***************************************************************************)
(* However many processes open, race to sign, reopen and write the table,  *)
(* a vector written under the provenance a store answers was made with the *)
(* store's prefix and, if that provenance names a model, with its model    *)
(* (vector/provenance.py:72-118).                                          *)
(***************************************************************************)
THEOREM SignaturesTellVectorsApart == PgVector!Spec => []SignedVectorsAgree
<1>1. PgVector!Init => Signed /\ Named
  BY DEF PgVector!Init, Signed, Named
<1>2. Signed /\ Named /\ [PgVector!Next]_(PgVector!vars) => Signed' /\ Named'
  BY SignedStep, NamedStep DEF Named, PgVector!vars
<1>3. Signed => SignedVectorsAgree
  BY DEF Signed, Suits, SignedVectorsAgree, PgVector!SignedVectorsAgree, PgVector!Clash
<1> QED BY <1>1, <1>2, <1>3, PTL DEF PgVector!Spec

(***************************************************************************)
(* Aliases in Neo4j                                                        *)
(***************************************************************************)

(* An id has one canonical: the edge MERGEd last. *)
OneCanonical ==
  /\ aliasEdges \subseteq Nodes \X Nodes
  /\ \A p, q \in aliasEdges : p[1] = q[1] => p = q
  /\ call # NoCall /\ call.op = "alias" => call.pair \in Nodes \X Nodes

LEMMA OneCanonicalHolds == Neo4j!Spec => []OneCanonical
<1>1. Neo4j!Init => OneCanonical
  BY DEF Neo4j!Init, OneCanonical
<1>2. OneCanonical /\ [Neo4j!Next]_(Neo4j!vars) => OneCanonical'
  <2> SUFFICES ASSUME OneCanonical, [Neo4j!Next]_(Neo4j!vars) PROVE OneCanonical'
    OBVIOUS
  <2> USE DEF OneCanonical
  <2>1. ASSUME NEW new \in Neo4j!Calls, Neo4j!Begin(new) PROVE OneCanonical'
    <3>1. aliasEdges' = aliasEdges /\ call' = new
      BY <2>1 DEF Neo4j!Begin, Neo4j!graph
    <3>2. new.op = "alias" => new.pair \in Nodes \X Nodes
      BY NodesAssumption DEF Neo4j!Calls
    <3> QED BY <3>1, <3>2
  <2>2. CASE Neo4j!Statement
    <3>1. call' = call \/ call' = NoCall
      BY <2>2 DEF Neo4j!Statement, Neo4j!WriteNodes, Neo4j!DropKeyEdges, Neo4j!WriteKeyEdges,
           Neo4j!RejectDangling, Neo4j!WriteEdges, Neo4j!RaiseMissing, Neo4j!ReturnWritten,
           Neo4j!DeleteRelationship, Neo4j!UpsertAlias, Neo4j!RemoveAlias, Neo4j!Advance,
           Neo4j!Return
    <3>2. CASE Neo4j!UpsertAlias
      <4>1. aliasEdges' = {p \in aliasEdges : p[1] # call.pair[1]} \union {call.pair}
              /\ call.pair \in Nodes \X Nodes
        BY <3>2 DEF Neo4j!UpsertAlias, Neo4j!AliasEdgesWithout, Neo4j!Running
      <4> QED BY <3>1, <4>1
    <3>3. CASE ~ Neo4j!UpsertAlias
      <4>1. aliasEdges' \subseteq aliasEdges
        BY <2>2, <3>3 DEF Neo4j!Statement, Neo4j!WriteNodes, Neo4j!DropKeyEdges,
             Neo4j!WriteKeyEdges, Neo4j!RejectDangling, Neo4j!WriteEdges, Neo4j!RaiseMissing,
             Neo4j!ReturnWritten, Neo4j!DeleteRelationship, Neo4j!RemoveAlias, Neo4j!graph
      <4> QED BY <3>1, <4>1
    <3> QED BY <3>2, <3>3
  <2>3. CASE Neo4j!Purge \/ Neo4j!Redeliver \/ Neo4j!PurgeDies \/ UNCHANGED Neo4j!vars
    <3>1. aliasEdges' \subseteq aliasEdges /\ (call' = call \/ call' = NoCall)
      BY <2>3 DEF Neo4j!Purge, Neo4j!BeginPurge, Neo4j!PurgeEntities, Neo4j!PurgeAliases,
           Neo4j!AliasesGone, Neo4j!PurgeKeys, Neo4j!Redeliver, Neo4j!PurgeDies, Neo4j!graph,
           Neo4j!vars
    <3> QED BY <3>1
  <2> QED BY <2>1, <2>2, <2>3 DEF Neo4j!Next
<1> QED BY <1>1, <1>2, PTL DEF Neo4j!Spec

(* What upsert_alias last named for x, or x. *)
CanonicalOf(x) == IF Neo4j!IsAlias(x) THEN (CHOOSE p \in aliasEdges : p[1] = x)[2] ELSE x

Onward(xs) == {p[2] : p \in {q \in aliasEdges : q[1] \in xs}}

(* The walk from x, and what the query's path reaches from it, up to a length. *)
IsWalk(f, x, N) ==
  f = [n \in 0..N |-> IF n = 0 THEN x ELSE CanonicalOf(f[n - 1])]

IsReach(f, x, N) ==
  f = [n \in 1..N |-> IF n = 1 THEN Onward({x}) ELSE f[n - 1] \union Onward(f[n - 1])]

LEMMA CanonicalFacts ==
  ASSUME OneCanonical
  PROVE  /\ \A x \in Nodes : CanonicalOf(x) \in Nodes
         /\ \A x \in Nodes : Neo4j!IsAlias(x) => <<x, CanonicalOf(x)>> \in aliasEdges
         /\ \A x \in Nodes : ~ Neo4j!IsAlias(x) => CanonicalOf(x) = x
         /\ \A xs \in SUBSET Nodes : Onward(xs) \in SUBSET Nodes
         /\ \A xs \in SUBSET Nodes :
              Onward(xs) = {CanonicalOf(x) : x \in {y \in xs : Neo4j!IsAlias(y)}}
<1>1. ASSUME NEW x \in Nodes, Neo4j!IsAlias(x)
      PROVE  /\ CanonicalOf(x) \in Nodes /\ <<x, CanonicalOf(x)>> \in aliasEdges
             /\ \A p \in aliasEdges : p[1] = x => p[2] = CanonicalOf(x)
  <2>1. PICK p \in aliasEdges : p[1] = x BY <1>1 DEF Neo4j!IsAlias
  <2>2. (CHOOSE q \in aliasEdges : q[1] = x) = p BY <2>1 DEF OneCanonical
  <2>3. CanonicalOf(x) = p[2] BY <1>1, <2>2 DEF CanonicalOf
  <2>4. p = <<p[1], p[2]>> /\ p[2] \in Nodes BY <2>1 DEF OneCanonical
  <2> QED BY <2>1, <2>3, <2>4 DEF OneCanonical
<1>2. \A x \in Nodes : ~ Neo4j!IsAlias(x) => CanonicalOf(x) = x BY DEF CanonicalOf
<1>3. ASSUME NEW xs \in SUBSET Nodes
      PROVE  /\ Onward(xs) \in SUBSET Nodes
             /\ Onward(xs) = {CanonicalOf(x) : x \in {y \in xs : Neo4j!IsAlias(y)}}
  <2>1. ASSUME NEW z \in Onward(xs)
        PROVE  z \in Nodes /\ \E x \in xs : Neo4j!IsAlias(x) /\ z = CanonicalOf(x)
    <3>1. PICK p \in aliasEdges : p[1] \in xs /\ z = p[2] BY DEF Onward
    <3>2. Neo4j!IsAlias(p[1]) /\ p[1] \in Nodes BY <3>1 DEF Neo4j!IsAlias
    <3> QED BY <1>1, <3>1, <3>2
  <2>2. ASSUME NEW x \in xs, Neo4j!IsAlias(x) PROVE CanonicalOf(x) \in Onward(xs)
    BY <1>1, <2>2 DEF Onward
  <2> QED BY <2>1, <2>2
<1> QED BY <1>1, <1>2, <1>3

LEMMA NodesCounted == Neo4j!Cardinality(Nodes) \in Nat
BY FS_CardinalityType, NodesAssumption, Zenon DEF Neo4j!Cardinality, Cardinality

(* The queries' recursive functions are what their equations say. *)
LEMMA WalkNamed ==
  ASSUME OneCanonical
  PROVE  \E walk : /\ \A x \in Nodes : IsWalk(walk[x], x, Neo4j!Cardinality(Nodes))
                   /\ ResolvesLikeTheWalk <=>
                        \A x \in Nodes :
                          LET end == walk[x][Neo4j!Cardinality(Nodes)]
                          IN Neo4j!Resolved(x) = IF Neo4j!IsAlias(end) THEN Nodes ELSE {end}
<1> DEFINE N == Neo4j!Cardinality(Nodes)
           walk == [x \in Nodes |-> CHOOSE f : IsWalk(f, x, N)]
<1>1. ASSUME NEW x \in Nodes PROVE \E f : IsWalk(f, x, N)
  <2> DEFINE hop == [y \in Nodes |-> CanonicalOf(y)]
  <2>1. hop \in [Nodes -> Nodes] /\ N \in Nat /\ 0 \in Nat BY CanonicalFacts, NodesCounted
  <2>2. PICK f : Recurring(f, Nodes, x, hop, 0, N)
    <3> HIDE DEF hop, N
    <3> QED BY <2>1, Recurs
  <2>3. \A n \in 0..N : n # 0 => hop[f[n - 1]] = CanonicalOf(f[n - 1])
    <3>1. f \in [0..N -> Nodes] BY <2>2 DEF Recurring
    <3> SUFFICES ASSUME NEW n \in 0..N, n # 0 PROVE hop[f[n - 1]] = CanonicalOf(f[n - 1])
      OBVIOUS
    <3>2. n - 1 \in 0..N
      <4> HIDE DEF N
      <4> QED BY <2>1
    <3>3. f[n - 1] \in Nodes BY <3>1, <3>2, Zenon
    <3> QED BY <3>3
  <2>4. IsWalk(f, x, N)
    <3> HIDE DEF hop, N
    <3> QED BY <2>2, <2>3 DEF IsWalk, Recurring
  <2> QED BY <2>4
<1>2. \A x \in Nodes : IsWalk(walk[x], x, N) BY <1>1
<1>3. ResolvesLikeTheWalk <=>
        \A x \in Nodes : Neo4j!Resolved(x) = IF Neo4j!IsAlias(walk[x][N]) THEN Nodes ELSE {walk[x][N]}
  BY Zenon DEF ResolvesLikeTheWalk, Neo4j!ResolvesLikeTheWalk, IsWalk, CanonicalOf
<1> QED BY <1>2, <1>3

LEMMA ReachNamed ==
  ASSUME OneCanonical, NEW x \in Nodes
  PROVE  \E reach : /\ IsReach(reach, x, Neo4j!Cardinality(Nodes))
                    /\ Neo4j!AliasReach(x) = reach[Neo4j!Cardinality(Nodes)]
<1> DEFINE N == Neo4j!Cardinality(Nodes)
           reach == CHOOSE f : IsReach(f, x, N)
<1>1. \E f : IsReach(f, x, N)
  <2> DEFINE more == [xs \in SUBSET Nodes |-> xs \union Onward(xs)]
  <2>1. more \in [SUBSET Nodes -> SUBSET Nodes] /\ Onward({x}) \in SUBSET Nodes
    BY CanonicalFacts
  <2>2. N \in Nat /\ 1 \in Nat BY NodesCounted
  <2>3. PICK f : Recurring(f, SUBSET Nodes, Onward({x}), more, 1, N)
    <3> DEFINE S == SUBSET Nodes
    <3> HIDE DEF more, N, S
    <3>1. \E f : Recurring(f, S, Onward({x}), more, 1, N) BY <2>1, <2>2, Recurs DEF S
    <3> QED BY <3>1 DEF S
  <2>4. \A n \in 1..N : n # 1 => more[f[n - 1]] = f[n - 1] \union Onward(f[n - 1])
    <3>1. f \in [1..N -> SUBSET Nodes] BY <2>3 DEF Recurring
    <3> SUFFICES ASSUME NEW n \in 1..N, n # 1
                 PROVE  more[f[n - 1]] = f[n - 1] \union Onward(f[n - 1])
      OBVIOUS
    <3>2. n - 1 \in 1..N
      <4> HIDE DEF N
      <4> QED BY <2>2
    <3>3. f[n - 1] \in SUBSET Nodes BY <3>1, <3>2, Zenon
    <3> QED BY <3>3
  <2>5. IsReach(f, x, N)
    <3> HIDE DEF more, N
    <3> QED BY <2>3, <2>4 DEF IsReach, Recurring
  <2> QED BY <2>5
<1>2. Neo4j!AliasReach(x) = reach[N]
  BY Zenon DEF Neo4j!AliasReach, IsReach, Onward
<1> QED BY <1>1, <1>2

(* What the walk and the path of the query have in common: the path has come to
   what the walk has come to, and to nothing but aliases before. *)
LEMMA PathFollowsWalk ==
  ASSUME OneCanonical, NEW x \in Nodes, NEW N \in Nat, NEW w, NEW r,
         IsWalk(w, x, N), IsReach(r, x, N), Neo4j!IsAlias(x)
  PROVE  \A n \in 1..N :
           /\ r[n] \in SUBSET Nodes /\ w[n] \in r[n]
           /\ \A y \in r[n] : y = w[n] \/ (Neo4j!IsAlias(y) /\ CanonicalOf(y) \in r[n])
<1> DEFINE Common(n) == /\ r[n] \in SUBSET Nodes /\ w[n] \in r[n]
                        /\ \A y \in r[n] :
                             y = w[n] \/ (Neo4j!IsAlias(y) /\ CanonicalOf(y) \in r[n])
           P == {n \in Nat : n + 1 \in 1..N => Common(n + 1)}
<1>1. /\ \A n \in 0..N : n = 0 => w[n] = x
      /\ \A n \in 0..N : n # 0 => w[n] = CanonicalOf(w[n - 1])
      /\ \A n \in 1..N : n = 1 => r[n] = Onward({x})
      /\ \A n \in 1..N : n # 1 => r[n] = r[n - 1] \union Onward(r[n - 1])
  BY DEF IsWalk, IsReach
<1>2. \A xs \in SUBSET Nodes :
        /\ Onward(xs) \in SUBSET Nodes
        /\ Onward(xs) = {CanonicalOf(y) : y \in {z \in xs : Neo4j!IsAlias(z)}}
  BY CanonicalFacts
<1>3. 0 \in P
  <2> SUFFICES ASSUME 1 \in 1..N PROVE Common(1) OBVIOUS
  <2>1. 0 \in 0..N /\ 1 \in 0..N /\ 1 - 1 = 0 /\ 1 # 0 OBVIOUS
  <2>2. w[0] = x /\ w[1] = CanonicalOf(x) /\ r[1] = Onward({x}) BY <1>1, <2>1
  <2>3. Onward({x}) = {CanonicalOf(x)} /\ Onward({x}) \in SUBSET Nodes BY <1>2
  <2> QED BY <2>2, <2>3
<1>4. ASSUME NEW n \in P PROVE n + 1 \in P
  <2> SUFFICES ASSUME (n + 1) + 1 \in 1..N PROVE Common((n + 1) + 1) OBVIOUS
  <2> DEFINE m == n + 1
  <2>1. /\ m \in 1..N /\ m + 1 \in 0..N /\ m + 1 \in 1..N /\ m + 1 # 0 /\ m + 1 # 1
        /\ (m + 1) - 1 = m
    OBVIOUS
  <2>2. Common(m) BY <2>1
  <2>3. w[m + 1] = CanonicalOf(w[m]) /\ r[m + 1] = r[m] \union Onward(r[m]) BY <1>1, <2>1
  <2> HIDE DEF m
  <2>4. Onward(r[m]) \in SUBSET Nodes
          /\ \A y : y \in Onward(r[m]) <=> \E z \in r[m] : Neo4j!IsAlias(z) /\ y = CanonicalOf(z)
    <3>1. Onward(r[m]) = {CanonicalOf(y) : y \in {z \in r[m] : Neo4j!IsAlias(z)}}
      BY <1>2, <2>2
    <3> QED BY <1>2, <2>2, <3>1
  <2>5. r[m + 1] \in SUBSET Nodes BY <2>2, <2>3, <2>4
  <2>6. w[m + 1] \in r[m + 1]
    <3>1. CASE Neo4j!IsAlias(w[m]) BY <2>2, <2>3, <2>4, <3>1
    <3>2. CASE ~ Neo4j!IsAlias(w[m])
      <4>1. w[m + 1] = w[m] BY <2>2, <2>3, <3>2, CanonicalFacts
      <4> QED BY <2>2, <2>3, <4>1
    <3> QED BY <3>1, <3>2
  <2>7. ASSUME NEW y \in r[m] PROVE y = w[m + 1] \/ (Neo4j!IsAlias(y) /\ CanonicalOf(y) \in r[m + 1])
    <3>1. CASE y = w[m] /\ Neo4j!IsAlias(y) BY <2>3, <2>6, <3>1
    <3>2. CASE y = w[m] /\ ~ Neo4j!IsAlias(y)
      <4>1. w[m + 1] = w[m] BY <2>2, <2>3, <3>2, CanonicalFacts
      <4> QED BY <3>2, <4>1
    <3>3. CASE y # w[m] BY <2>2, <2>3, <3>3
    <3> QED BY <3>1, <3>2, <3>3
  <2>8. ASSUME NEW y \in Onward(r[m]) PROVE y \in r[m] \/ y = w[m + 1]
    BY <2>2, <2>3, <2>4
  <2> QED BY <2>3, <2>5, <2>6, <2>7, <2>8 DEF m
<1>5. P \in SUBSET Nat OBVIOUS
<1>6. P = Nat
  <2> HIDE DEF P
  <2> QED BY <1>3, <1>4, <1>5, Inductive
<1>7. ASSUME NEW n \in 1..N PROVE Common(n)
  <2>1. n - 1 \in Nat /\ (n - 1) + 1 = n OBVIOUS
  <2>2. n - 1 \in P
    <3> HIDE DEF P
    <3> QED BY <1>6, <2>1
  <2> QED BY <2>1, <2>2
<1> QED BY <1>7

(* An id that is no alias reaches nothing. *)
LEMMA NoAliasNoPath ==
  ASSUME OneCanonical, NEW x \in Nodes, NEW N \in Nat, NEW r, IsReach(r, x, N),
         ~ Neo4j!IsAlias(x)
  PROVE  \A n \in 1..N : r[n] = {}
<1> DEFINE P == {n \in Nat : n + 1 \in 1..N => r[n + 1] = {}}
<1>1. /\ \A n \in 1..N : n = 1 => r[n] = Onward({x})
      /\ \A n \in 1..N : n # 1 => r[n] = r[n - 1] \union Onward(r[n - 1])
  BY DEF IsReach
<1>2. Onward({x}) = {} /\ Onward({}) = {} BY DEF Onward, Neo4j!IsAlias
<1>3. 0 \in P
  <2> SUFFICES ASSUME 0 + 1 \in 1..N PROVE r[0 + 1] = {} OBVIOUS
  <2>1. 0 + 1 = 1 OBVIOUS
  <2> QED BY <1>1, <1>2, <2>1
<1>4. ASSUME NEW n \in P PROVE n + 1 \in P
  <2> SUFFICES ASSUME (n + 1) + 1 \in 1..N PROVE r[(n + 1) + 1] = {} OBVIOUS
  <2>1. n + 1 \in 1..N /\ (n + 1) + 1 # 1 /\ ((n + 1) + 1) - 1 = n + 1 OBVIOUS
  <2>2. r[n + 1] = {} BY <2>1
  <2> QED BY <1>1, <1>2, <2>1, <2>2
<1>5. P \in SUBSET Nat OBVIOUS
<1>6. P = Nat
  <2> HIDE DEF P
  <2> QED BY <1>3, <1>4, <1>5, Inductive
<1>7. ASSUME NEW n \in 1..N PROVE r[n] = {}
  <2>1. n - 1 \in Nat /\ (n - 1) + 1 = n OBVIOUS
  <2>2. n - 1 \in P
    <3> HIDE DEF P
    <3> QED BY <1>6, <2>1
  <2> QED BY <2>1, <2>2
<1> QED BY <1>7

(* An id that is no alias stays where it is. *)
LEMMA NoAliasNoWalk ==
  ASSUME OneCanonical, NEW x \in Nodes, NEW N \in Nat, NEW w, IsWalk(w, x, N),
         ~ Neo4j!IsAlias(x)
  PROVE  w[N] = x
<1> DEFINE P == {n \in Nat : n \in 0..N => w[n] = x}
<1>1. /\ \A n \in 0..N : n = 0 => w[n] = x
      /\ \A n \in 0..N : n # 0 => w[n] = CanonicalOf(w[n - 1])
      /\ CanonicalOf(x) = x
  BY CanonicalFacts DEF IsWalk
<1>2. 0 \in P BY <1>1
<1>3. ASSUME NEW n \in P PROVE n + 1 \in P
  <2> SUFFICES ASSUME n + 1 \in 0..N PROVE w[n + 1] = x OBVIOUS
  <2>1. n \in 0..N /\ n + 1 # 0 /\ (n + 1) - 1 = n OBVIOUS
  <2>2. w[n] = x BY <2>1
  <2> QED BY <1>1, <2>1, <2>2
<1>4. P \in SUBSET Nat OBVIOUS
<1>5. P = Nat
  <2> HIDE DEF P
  <2> QED BY <1>2, <1>3, <1>4, Inductive
<1>6. N \in P /\ N \in 0..N BY <1>5
<1> QED BY <1>6

(***************************************************************************)
(* However many nodes there are, and in whatever order their aliases were  *)
(* written, removed and purged, one path query gives each id the answer    *)
(* the in-memory adapter walks to, or raises when that walk has no end.    *)
(***************************************************************************)
THEOREM ResolvesAsTheWalk == Neo4j!Spec => []ResolvesLikeTheWalk
<1> DEFINE N == Neo4j!Cardinality(Nodes)
<1>1. OneCanonical => ResolvesLikeTheWalk
  <2> SUFFICES ASSUME OneCanonical PROVE ResolvesLikeTheWalk OBVIOUS
  <2>1. PICK walk : /\ \A x \in Nodes : IsWalk(walk[x], x, N)
                    /\ ResolvesLikeTheWalk <=>
                         \A x \in Nodes :
                           LET end == walk[x][N]
                           IN Neo4j!Resolved(x) = IF Neo4j!IsAlias(end) THEN Nodes ELSE {end}
    BY WalkNamed
  <2> SUFFICES ASSUME NEW x \in Nodes
               PROVE  Neo4j!Resolved(x) =
                        IF Neo4j!IsAlias(walk[x][N]) THEN Nodes ELSE {walk[x][N]}
    BY <2>1
  <2>2. PICK reach : IsReach(reach, x, N) /\ Neo4j!AliasReach(x) = reach[N] BY ReachNamed
  <2>3. N \in Nat /\ N \in 1..N
    <3>1. N # 0 BY FS_EmptySet, NodesAssumption, Zenon DEF Neo4j!Cardinality, Cardinality
    <3> QED BY <3>1, NodesCounted
  <2> HIDE DEF N
  <2>4. Neo4j!CanonicalsOf(x) = {c0 \in reach[N] : ~ Neo4j!IsAlias(c0)}
    BY <2>2 DEF Neo4j!CanonicalsOf
  <2>5. CASE Neo4j!IsAlias(x)
    <3>1. /\ walk[x][N] \in reach[N]
          /\ \A y \in reach[N] : y = walk[x][N] \/ Neo4j!IsAlias(y)
      BY <2>1, <2>2, <2>3, <2>5, PathFollowsWalk
    <3>2. CASE Neo4j!IsAlias(walk[x][N])
      <4>1. Neo4j!CanonicalsOf(x) = {} BY <2>4, <3>1, <3>2
      <4> QED BY <2>5, <3>2, <4>1 DEF Neo4j!Resolved
    <3>3. CASE ~ Neo4j!IsAlias(walk[x][N])
      <4>1. Neo4j!CanonicalsOf(x) = {walk[x][N]} BY <2>4, <3>1, <3>3
      <4> QED BY <3>3, <4>1 DEF Neo4j!Resolved
    <3> QED BY <3>2, <3>3
  <2>6. CASE ~ Neo4j!IsAlias(x)
    <3>1. reach[N] = {} /\ walk[x][N] = x
      BY <2>1, <2>2, <2>3, <2>6, NoAliasNoPath, NoAliasNoWalk
    <3>2. Neo4j!CanonicalsOf(x) = {} BY <2>4, <3>1
    <3> QED BY <2>6, <3>1, <3>2 DEF Neo4j!Resolved
  <2> QED BY <2>5, <2>6
<1> QED BY <1>1, OneCanonicalHolds, PTL

(***************************************************************************)
(* All the adapters                                                        *)
(***************************************************************************)

(***************************************************************************)
(* All of them, of the system the runs check: whichever adapter moves, the *)
(* others' promises stand.                                                 *)
(***************************************************************************)
THEOREM AdaptersHold ==
  AdaptersSpec => /\ [](TypeOK /\ IndexesExact /\ KeysFollowRows /\ ResolvesLikeTheWalk)
                  /\ [](RowsMatchMemory /\ IndexWhole)
                  /\ []SignedVectorsAgree
<1>1. AdaptersInit => Init /\ Neo4j!Init /\ Postgres!Init /\ PgVector!Init
  BY DEF AdaptersInit
<1>2. [AdaptersNext]_adapterVars =>
        /\ [Next]_vars /\ [Neo4j!Next]_(Neo4j!vars)
        /\ [Postgres!Next]_(Postgres!vars) /\ [PgVector!Next]_(PgVector!vars)
  BY Zenon DEF AdaptersNext, adapterVars, vars, neo4jVars, chunkVars, vectorVars, Neo4j!vars,
        Postgres!vars, PgVector!vars
<1>3. AdaptersSpec => Spec /\ Neo4j!Spec /\ Postgres!Spec /\ PgVector!Spec
  BY <1>1, <1>2, PTL DEF AdaptersSpec, Spec, Neo4j!Spec, Postgres!Spec, PgVector!Spec
<1> QED BY <1>3, IndexesSayWhatTheRowsSay, KeysFollowTheRows, ResolvesAsTheWalk,
           TableFollowsMemory, SignaturesTellVectorsApart, PTL
=============================================================================
