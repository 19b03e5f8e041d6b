-------------------------- MODULE MemoryChunkStore --------------------------
(***************************************************************************)
(* `InMemoryChunkStore`, the reference adapter of the `ChunkStore` port,   *)
(* for one tenant: src/src/redstring/chunks/adapters/memory.py.            *)
(*                                                                         *)
(* A chunk id is a hash of its source and its text, so both are functions  *)
(* of the id; the rest of a chunk (its position, its entity links, its     *)
(* metadata) is one value, the links.  No method suspends.  Embeddings are *)
(* left to PostgresChunkStore: they are where the two adapters part.       *)
(***************************************************************************)
EXTENDS Integers, Sequences

CONSTANTS
  ChunkIds,   \* chunk ids
  Sources,    \* source ids
  Links,      \* what a chunk says besides its source and text
  NoChunk,    \* nothing is stored under this id
  SourceOf,   \* id -> its source
  BatchSize   \* the most chunks one call carries

VARIABLE chunks   \* _chunks[tenant]

Chunk == [id : ChunkIds, links : Links]
Batches == UNION {[1..n -> Chunk] : n \in 0..BatchSize}

IdsOf(batch) == {batch[n].id : n \in 1..Len(batch)}

(* The last chunk of a batch with this id is the one that stays. *)
LinksAfter(batch, id) ==
  batch[CHOOSE n \in 1..Len(batch) :
          batch[n].id = id /\ \A m \in n + 1..Len(batch) : batch[m].id # id].links

(* upsert_many over what `stored` holds *)
Upserted(stored, batch) ==
  [id \in ChunkIds |-> IF id \in IdsOf(batch) THEN LinksAfter(batch, id) ELSE stored[id]]

Init == chunks = [id \in ChunkIds |-> NoChunk]

UpsertMany(batch) == chunks' = Upserted(chunks, batch)

(* reject_foreign_chunks *)
AllOf(source, batch) == \A id \in IdsOf(batch) : SourceOf[id] = source

Orphans(stored, source, batch) ==
  {id \in ChunkIds : stored[id] # NoChunk /\ SourceOf[id] = source /\ id \notin IdsOf(batch)}

ReplaceSource(source, batch) ==
  /\ AllOf(source, batch)
  /\ chunks' = Upserted([id \in ChunkIds |->
                           IF id \in Orphans(chunks, source, batch) THEN NoChunk
                           ELSE chunks[id]], batch)

DeleteBySource(source) ==
  chunks' = [id \in ChunkIds |-> IF SourceOf[id] = source THEN NoChunk ELSE chunks[id]]

DeleteByTenant == chunks' = [id \in ChunkIds |-> NoChunk]

Next ==
  \/ \E batch \in Batches : UpsertMany(batch)
  \/ \E source \in Sources, batch \in Batches : ReplaceSource(source, batch)
  \/ \E source \in Sources : DeleteBySource(source)
  \/ DeleteByTenant

Spec == Init /\ [][Next]_chunks
=============================================================================
