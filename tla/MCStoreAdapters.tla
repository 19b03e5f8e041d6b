-------------------------- MODULE MCStoreAdapters --------------------------
(* The store adapters for TLC, one of them at a time: `which` picks it in the
   initial state, the others never move. *)
EXTENDS MemoryGraphStore, FiniteSets, TLC

CONSTANTS
  Nodes, Rels, Keys, EntityBatches, EdgeBatches, AliasPairs, NoNode, NoCall, \* Neo4jGraphStore
  ChunkIds, Sources, Links, NoChunk, Terms, SourceOf, TermsOf, ChunkBatchSize, \* PostgresChunkStore
  Stores, EntityIds, Models, Prefixes, Empty, Unset, ModelOf, PrefixOf, DimensionOf, \* PgVectorStore
  a, b, c, r1, r2, k, c1, c2, s1, s2, t1, t2, m1, m2, q1, p1, p2, p3, p4

(* No chunk is not a chunk, and a text has finitely many terms. *)
ASSUME ChunksAssumption ==
  /\ NoChunk \notin Links \union [links : Links, length : Nat]
  /\ ChunkBatchSize \in Nat
  /\ \A id \in ChunkIds : IsFiniteSet(TermsOf[id])

(* There are finitely many nodes, and aliases relate them. *)
ASSUME NodesAssumption ==
  IsFiniteSet(Nodes) /\ AliasPairs \subseteq Nodes \X Nodes

(* A prefix is named, if only the empty one. *)
ASSUME PrefixesAssumption == Empty # Unset

VARIABLES
  which,
  nodes, rels, keyNodes, keyEdges, aliasEdges, call, step, purge, raced,
  rows, terms, twin, backfill, filling, search,
  declared, recorded, opened, provenance, vectors

neo4jVars == <<nodes, rels, keyNodes, keyEdges, aliasEdges, call, step, purge, raced>>
chunkVars == <<rows, terms, twin, backfill, filling, search>>
vectorVars == <<declared, recorded, opened, provenance, vectors>>
adapterVars == <<which, vars, neo4jVars, chunkVars, vectorVars>>

(* Three nodes, one key, edges out of the first node, and alias rows that can
   chain and close a cycle. *)
MCEntityBatches ==
  {a :> {k}, b :> {k}, a :> {}, a :> {k} @@ b :> {}, b :> {} @@ c :> {k}}
MCEdgeBatches ==
  {r1 :> [source |-> a, target |-> b],
   r1 :> [source |-> a, target |-> b] @@ r2 :> [source |-> a, target |-> c],
   r1 :> [source |-> c, target |-> b]}
MCAliasPairs == {<<b, a>>, <<a, c>>, <<c, b>>, <<b, c>>}

Neo4j == INSTANCE Neo4jGraphStore WITH
  Entities <- Nodes, Relationships <- Rels, BlockingKeys <- Keys

(* Two chunks of one source, sharing a term; the other source is empty. *)
MCSourceOf == c1 :> s1 @@ c2 :> s1
MCTermsOf == c1 :> {t1} @@ c2 :> {t1, t2}

Postgres == INSTANCE PostgresChunkStore WITH BatchSize <- ChunkBatchSize

(* A process with a model and a prefix, one with another model, one with
   another prefix, and one with neither, of another dimension. *)
MCModelOf == p1 :> m1 @@ p2 :> Unset @@ p3 :> m2 @@ p4 :> Unset
MCPrefixOf == p1 :> q1 @@ p2 :> Unset @@ p3 :> Unset @@ p4 :> Empty
MCDimensionOf == p1 :> 1 @@ p2 :> 2 @@ p3 :> 1 @@ p4 :> 1

PgVector == INSTANCE PgVectorStore

AdaptersInit ==
  /\ which \in {"memory", "neo4j", "chunks", "vectors"}
  /\ Init
  /\ Neo4j!Init
  /\ Postgres!Init
  /\ which # "chunks" => Postgres!Held(rows) = {}
  /\ PgVector!Init

AdaptersNext ==
  \/ /\ which = "memory"
     /\ Next
     /\ UNCHANGED <<which, neo4jVars, chunkVars, vectorVars>>
  \/ /\ which = "neo4j"
     /\ Neo4j!Next
     /\ UNCHANGED <<which, vars, chunkVars, vectorVars>>
  \/ /\ which = "chunks"
     /\ Postgres!Next
     /\ UNCHANGED <<which, vars, neo4jVars, vectorVars>>
  \/ /\ which = "vectors"
     /\ PgVector!Next
     /\ UNCHANGED <<which, vars, neo4jVars, chunkVars>>

AdaptersSpec == AdaptersInit /\ [][AdaptersNext]_adapterVars

(* The ids of the in-memory graph store are interchangeable. *)
Symmetry ==
  Permutations(Entities) \union Permutations(Relationships)
    \union Permutations(Types) \union Permutations(BlockingKeys)

(* The properties of the other modules, under the names they have there. *)

(* Neo4jGraphStore: find_by_blocking_key answers from the rows. *)
KeysFollowRows == Neo4j!KeysFollowRows

(* Neo4jGraphStore: every row is found by its key (known limit). *)
KeysFindEveryRow == Neo4j!KeysFindEveryRow

(* Neo4jGraphStore: resolve_entity_ids agrees with the in-memory walk. *)
ResolvesLikeTheWalk == Neo4j!ResolvesLikeTheWalk

(* PostgresChunkStore: the same calls leave the in-memory adapter's chunks. *)
RowsMatchMemory == Postgres!RowsMatchMemory

(* PostgresChunkStore: a chunk is in the term index wholly or not at all. *)
IndexWhole == Postgres!IndexWhole

(* PostgresChunkStore: a candidate has a length (known limit). *)
CandidatesMeasured == Postgres!CandidatesMeasured

(* PostgresChunkStore: one search reads one corpus (known limit). *)
OneCorpus == Postgres!OneCorpus

(* PgVectorStore: a store agrees with the vectors of its provenance. *)
SignedVectorsAgree == PgVector!SignedVectorsAgree

(* PgVectorStore: the stores that opened the table agree (known limit). *)
OneModelPerTable == PgVector!OneModelPerTable
=============================================================================
