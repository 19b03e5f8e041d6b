------------------------- MODULE PostgresChunkStore -------------------------
(***************************************************************************)
(* `PostgresChunkStore`, for one tenant: src/src/redstring/chunks/         *)
(* adapters/postgres/.                                                     *)
(*                                                                         *)
(* A chunk is a row, and its terms are rows of a second table the foreign  *)
(* key ties to it.  Every write is one statement.  A lexical search is     *)
(* three, without a transaction around them, and the backfill reads the    *)
(* texts in one and writes the index in another, so other writes come in   *)
(* between.  Rows may be older than the term index and have no terms, no   *)
(* length.                                                                 *)
(***************************************************************************)
EXTENDS Integers, Sequences, FiniteSets

CONSTANTS
  ChunkIds, Sources, Links, NoChunk, SourceOf, BatchSize,  \* as in MemoryChunkStore
  Terms,      \* terms
  TermsOf     \* id -> the terms of its text, at least one, each once

VARIABLES
  rows,      \* kg_chunks: id -> [links, length], or NoChunk
  terms,     \* kg_chunks_terms: <<id, term>>
  twin,      \* what an InMemoryChunkStore given the same calls holds
  backfill,  \* the ids backfill_lexical has read the texts of
  filling,   \* it is between its two statements
  search     \* what the one lexical search has read so far

vars == <<rows, terms, twin, backfill, filling, search>>

NoSearch == [step |-> 0, docs |-> 0, excess |-> FALSE, found |-> {}]

Held(r) == {id \in ChunkIds : r[id] # NoChunk}

Memory == INSTANCE MemoryChunkStore WITH chunks <- twin

LegacyRow(links) == [links |-> links, length |-> 0]

(* A table written before the term index and the embedding column. *)
Init ==
  /\ \E old \in SUBSET ChunkIds : \E l \in Links :
       /\ rows = [id \in ChunkIds |-> IF id \in old THEN LegacyRow(l) ELSE NoChunk]
       /\ twin = [id \in ChunkIds |-> IF id \in old THEN l ELSE NoChunk]
  /\ terms = {}
  /\ backfill = {}
  /\ filling = FALSE
  /\ search = NoSearch

-----------------------------------------------------------------------------
(* Writes *)

Length(id) == Cardinality(TermsOf[id])
TermRows(ids) == UNION {{id} \X TermsOf[id] : id \in ids}

(* Mutant: a row that is there is left alone. *)
WrittenIfNew(stored, batch) ==
  [id \in ChunkIds |->
     IF id \notin Memory!IdsOf(batch) \/ stored[id] # NoChunk THEN stored[id]
     ELSE [links |-> Memory!LinksAfter(batch, id), length |-> Length(id)]]

(* ON CONFLICT leaves doc_length of the row as it is (and its embedding, which is not
   modelled here). *)
Written(stored, batch) ==
  [id \in ChunkIds |->
     IF id \notin Memory!IdsOf(batch) THEN stored[id]
     ELSE IF stored[id] # NoChunk
          THEN [stored[id] EXCEPT !.links = Memory!LinksAfter(batch, id)]
          ELSE [links |-> Memory!LinksAfter(batch, id), length |-> Length(id)]]

(* upsert_many.  The rows get their terms whether they are new or not ... *)
UpsertMany(batch) ==
  /\ rows' = Written(rows, batch)
  /\ terms' = terms \union TermRows(Memory!IdsOf(batch))
  /\ Memory!UpsertMany(batch)
  /\ UNCHANGED <<backfill, filling, search>>

(* Mutant: the term rows of a deleted chunk stay. *)
NotCascaded(gone) == terms

(* ON DELETE CASCADE *)
Cascaded(gone) == {p \in terms : p[1] \notin gone}

Orphans(source, batch) ==
  {id \in Held(rows) : SourceOf[id] = source /\ id \notin Memory!IdsOf(batch)}

(* replace_source *)
ReplaceSource(source, batch) ==
  /\ Memory!AllOf(source, batch)
  /\ rows' = Written([id \in ChunkIds |->
                        IF id \in Orphans(source, batch) THEN NoChunk ELSE rows[id]], batch)
  /\ terms' = Cascaded(Orphans(source, batch)) \union TermRows(Memory!IdsOf(batch))
  /\ Memory!ReplaceSource(source, batch)
  /\ UNCHANGED <<backfill, filling, search>>

Delete(gone) ==
  /\ rows' = [id \in ChunkIds |-> IF id \in gone THEN NoChunk ELSE rows[id]]
  /\ terms' = Cascaded(gone)
  /\ UNCHANGED <<backfill, filling, search>>

DeleteBySource(source) ==
  Delete({id \in Held(rows) : SourceOf[id] = source}) /\ Memory!DeleteBySource(source)
DeleteByTenant == Delete(Held(rows)) /\ Memory!DeleteByTenant

-----------------------------------------------------------------------------
(* backfill_lexical *)

BackfillRead ==
  /\ ~ filling
  /\ backfill' = Held(rows)
  /\ filling' = (Held(rows) # {})
  /\ UNCHANGED <<rows, terms, twin, search>>

Measured(id) == [rows[id] EXCEPT !.length = Length(id)]

(* The texts were read before, but a chunk's id fixes its text. *)
BackfillWrite ==
  /\ filling
  /\ backfill \subseteq Held(rows)
  /\ rows' = [id \in ChunkIds |-> IF id \in backfill THEN Measured(id) ELSE rows[id]]
  /\ terms' = terms \union TermRows(backfill)
  /\ filling' = FALSE
  /\ UNCHANGED <<twin, backfill, search>>

(* A term row for a chunk that is gone breaks the foreign key, and the whole
   statement with it; the operator may run the backfill again. *)
BackfillFails ==
  /\ filling
  /\ ~ (backfill \subseteq Held(rows))
  /\ filling' = FALSE
  /\ UNCHANGED <<rows, terms, twin, backfill, search>>

-----------------------------------------------------------------------------
(* search_lexical: the size of the corpus, the document frequencies (of which
   all that is kept is whether one is in excess of the size), and the
   candidates. *)

Frequency(t) == Cardinality({id \in ChunkIds : <<id, t>> \in terms})

CountDocs ==
  /\ search.step = 0
  /\ search' = [search EXCEPT !.step = 1, !.docs = Cardinality(Held(rows))]
  /\ UNCHANGED <<rows, terms, twin, backfill, filling>>

CountTerms ==
  /\ search.step = 1
  /\ search' = [search EXCEPT !.step = 2, !.docs = 0,
                  !.excess = \E t \in Terms : Frequency(t) > search.docs]
  /\ UNCHANGED <<rows, terms, twin, backfill, filling>>

FetchCandidates ==
  /\ search.step = 2
  /\ search' = [search EXCEPT !.step = 3, !.excess = FALSE, !.found = {p[1] : p \in terms}]
  /\ UNCHANGED <<rows, terms, twin, backfill, filling>>

Search == CountDocs \/ CountTerms \/ FetchCandidates

Next ==
  \/ \E batch \in Memory!Batches : UpsertMany(batch)
  \/ \E source \in Sources, batch \in Memory!Batches : ReplaceSource(source, batch)
  \/ \E source \in Sources : DeleteBySource(source)
  \/ DeleteByTenant
  \/ BackfillRead \/ BackfillWrite \/ BackfillFails
  \/ Search

Spec == Init /\ [][Next]_vars

-----------------------------------------------------------------------------
(* Properties *)

(* Whatever the table was written by, the same calls leave the same chunks in
   both adapters. *)
RowsMatchMemory ==
  \A id \in ChunkIds :
    twin[id] = IF rows[id] = NoChunk THEN NoChunk ELSE rows[id].links

(* A chunk is in the term index wholly or, when it is older than the index and
   nobody wrote it since, not at all; one the index knows only a part of, or
   knows without its row, would be ranked on the wrong counts. *)
IndexWhole ==
  /\ \A p \in terms : rows[p[1]] # NoChunk
  /\ \A id \in Held(rows) :
       \/ \A t \in TermsOf[id] : <<id, t>> \in terms
       \/ rows[id].length = 0 /\ \A t \in Terms : <<id, t>> \notin terms

(* A candidate has a length.  (Known limit: a row older than the index that is
   written again is found by its terms and measured 0.) *)
CandidatesMeasured ==
  search.step = 3 =>
    \A id \in search.found : rows[id] = NoChunk \/ rows[id].length > 0

(* "statistics of a corpus that never existed" (ports/chunk_store.py): no term
   is in more documents than there are.  (Known limit: the statements of one
   search may read two different corpora.) *)
OneCorpus == ~ search.excess
=============================================================================
