---------------------------- MODULE DocumentRuns ----------------------------
(***************************************************************************)
(* Runs over one document: `build_graph` and `index_documents` of          *)
(* src/src/redstring/composition/, the `Document` aggregate they record    *)
(* on, and the three projections they drive.                               *)
(*                                                                         *)
(* Streams, entity ids, passages and vectors are all keyed by document, so *)
(* runs over different documents touch nothing in common and one document  *)
(* is enough.  A run loads the aggregate, asks the model and decides on    *)
(* that copy; appends under optimistic locking; then hands its own events  *)
(* to the projections.  Runs of several processes interleave, die, and a   *)
(* store may be wiped and replayed from the stream at any time.            *)
(***************************************************************************)
EXTENDS Integers, Sequences, FiniteSets

CONSTANTS
  Workers,      \* processes that run one of the two functions
  Models,       \* model versions
  Index,        \* in place of a model: the run is index_documents
  Splits,       \* the ways chunkers split the text
  Passages,     \* the distinct passages of all splits
  PassagesOf,   \* the passages of each split
  Entities,     \* what models find in the text
  Answers,      \* what an extraction by each model may find
  Jobs,         \* what runs are started with: {[by, split, embeds]}
  NoRow,        \* the chunk store holds no such passage
  MaxRuns,      \* bound on the runs started
  MaxRebuilds   \* bound on the rebuilds started

ASSUME IndexAssumption == Index \notin Models
ASSUME SplitsAssumption == PassagesOf \in [Splits -> SUBSET Passages]
ASSUME AnswersAssumption == Answers \in [Models -> SUBSET (SUBSET Entities)]
ASSUME JobsAssumption ==
  Jobs \subseteq [by : Models \union {Index}, split : Splits, embeds : BOOLEAN]
ASSUME BoundsAssumption == MaxRuns \in Nat /\ MaxRebuilds \in Nat

VARIABLES
  stream,    \* the committed events of the document's stream
  graph,     \* the graph store's row of each entity
  corpus,    \* the row of each passage, in a chunk store of either adapter
  vectors,   \* the entities the vector store has a vector of
  run,       \* what each worker is doing
  runs,      \* how many runs were started
  replay,    \* how far each store's rebuild has replayed
  rebuilds,  \* how many rebuilds were started
  stale      \* for the properties: stores written out of the stream's order

stores == <<graph, corpus, vectors>>
vars == <<stream, graph, corpus, vectors, run, runs, replay, rebuilds, stale>>

Adapters == {"memory", "postgres"}
Stores == {"graph", "corpus", "vectors"}
Writers == Models \union {Index}

NoReplay == -1

(* A passage's row: whose entity links it carries, and whether a vector. *)
PassageRow == [by : Writers, vector : BOOLEAN]

ASSUME NoRowAssumption == NoRow \notin PassageRow

ExtractedEvent == [type : {"extracted"}, model : Models, entities : SUBSET Entities,
                   retracted : SUBSET Entities]
ChunkedEvent == [type : {"chunked"}, split : Splits, by : Writers, vector : BOOLEAN]
EmbeddedEvent == [type : {"embedded"}, entities : SUBSET Entities]
Event == ExtractedEvent \union ChunkedEvent \union EmbeddedEvent

Phases == {"idle", "loaded", "save", "corpus", "rows", "retract", "embed",
           "vectors", "persist"}

(* embeds: an embedding provider was given; version: the aggregate's; events:
   what this run recorded. *)
Idle == [phase |-> "idle", by |-> Index, split |-> CHOOSE s \in Splits : TRUE,
         embeds |-> FALSE, version |-> 0, events |-> <<>>]

RunState == [phase : Phases, by : Writers, split : Splits, embeds : BOOLEAN,
             version : Nat, events : Seq(Event)]

(* Nothing a run decides depends on what a store holds, so one behaviour shows
   what either adapter makes of the same calls. *)
EmptyCorpus == [a \in Adapters |-> [p \in Passages |-> NoRow]]

Init ==
  /\ stream = <<>>
  /\ graph = [x \in Entities |-> "none"]
  /\ corpus = EmptyCorpus
  /\ vectors = {}
  /\ run = [w \in Workers |-> Idle]
  /\ runs = 0
  /\ replay = [s \in Stores |-> NoReplay]
  /\ rebuilds = 0
  /\ stale = {}

-----------------------------------------------------------------------------
(* The aggregate, rebuilt from the first v events *)

Extracted(v) == {i \in 1..v : stream[i].type = "extracted"}
Chunked(v) == {i \in 1..v : stream[i].type = "chunked"}
Embedded(v) == {i \in 1..v : stream[i].type = "embedded"}

Latest(positions) == CHOOSE i \in positions : \A j \in positions : j <= i

(* Everything any of the runs found. *)
EverExtracted(v) == UNION {stream[i].entities : i \in Extracted(v)}

(* last_extracted_entity_ids *)
LastExtracted(v) ==
  IF Extracted(v) = {} THEN {} ELSE stream[Latest(Extracted(v))].entities

(* record_extraction, record_chunking and record_embeddings return None. *)
ExtractionRepeated(v, model) == \E i \in Extracted(v) : stream[i].model = model
ChunkingRepeated(v, split, by) ==
  \E i \in Chunked(v) : stream[i].split = split /\ stream[i].by = by
EmbeddingRepeated(v) == Embedded(v) # {}

ExtractionEvents(v, model, found) ==
  IF ExtractionRepeated(v, model) THEN <<>>
  ELSE << [type |-> "extracted", model |-> model, entities |-> found,
           retracted |-> LastExtracted(v) \ found] >>

ChunkingEvents(v, split, by, vector) ==
  IF ChunkingRepeated(v, split, by) THEN <<>>
  ELSE << [type |-> "chunked", split |-> split, by |-> by, vector |-> vector] >>

-----------------------------------------------------------------------------
(* The projections' writes *)

(* upsert_entities *)
WithRows(g, e) == [x \in Entities |-> IF x \in e.entities THEN "live" ELSE g[x]]

(* The tombstones of _apply_extraction; an entity without a row gets none. *)
WithRetractions(g, e) ==
  [x \in Entities |-> IF x \in e.retracted /\ g[x] # "none" THEN "retracted" ELSE g[x]]

(* Mutant: orphans stay. *)
ReplaceKeepsOrphans(c, e) ==
  [a \in Adapters |-> [p \in Passages |->
     IF p \in PassagesOf[e.split] THEN [by |-> e.by, vector |-> e.vector] ELSE c[a][p]]]

(* replace_source.  InMemoryChunkStore replaces rows; _ON_CONFLICT of
   PostgresChunkStore updates all of a row but its embedding. *)
ReplaceSource(c, e) ==
  [a \in Adapters |-> [p \in Passages |->
     IF p \notin PassagesOf[e.split] THEN NoRow
     ELSE [by |-> e.by,
           vector |-> IF a = "postgres" /\ c[a][p] # NoRow
                      THEN c[a][p].vector ELSE e.vector]]]

-----------------------------------------------------------------------------
(* The stores a run has yet to write what the stream says to, or wrote what
   the stream does not say yet. *)
Owes(r) ==
  {s \in Stores :
     \/ s = "corpus" /\ r.phase = "corpus"
     \/ s = "graph" /\ r.phase \in {"corpus", "rows", "retract"}
                      /\ r.events[1].type = "extracted"
     \/ s = "vectors" /\ r.phase = "persist"}

Replaying(s) == replay[s] # NoReplay

(* The stores others are in the middle of. *)
Contended(w) ==
  {s \in Stores : Replaying(s) \/ \E v \in Workers \ {w} : s \in Owes(run[v])}

Become(w, r) == run' = [run EXCEPT ![w] = r]

(* Go on to r, from where the run owes the stores it wrote to or will. *)
BecomeOwing(w, r) ==
  /\ Become(w, r)
  /\ stale' = stale \union (Owes(r) \intersect Contended(w))

(* End a run: what it still owes is never written. *)
EndRun(w) ==
  /\ Become(w, Idle)
  /\ stale' = stale \union Owes(run[w])

-----------------------------------------------------------------------------
(* build_graph and index_documents *)

(* load_or_create, before the model is asked. *)
Load(w, job) ==
  /\ run[w].phase = "idle"
  /\ runs < MaxRuns
  /\ runs' = runs + 1
  /\ Become(w, [phase |-> "loaded", by |-> job.by, split |-> job.split, embeds |-> job.embeds,
                version |-> Len(stream), events |-> <<>>])
  /\ UNCHANGED <<stream, stores, replay, rebuilds, stale>>

(* build_graph: the model answered; extraction and chunking are recorded, each
   unless it is a repeat.  Nothing to record ends the run. *)
DecideExtraction(w, found) ==
  LET r == run[w]
      events == ExtractionEvents(r.version, r.by, found)
                  \o ChunkingEvents(r.version, r.split, r.by, FALSE)
  IN /\ r.phase = "loaded"
     /\ r.by # Index
     /\ found \in Answers[r.by]
     /\ Become(w, IF events = <<>> THEN Idle
                  ELSE [r EXCEPT !.phase = "save", !.events = events])
     /\ UNCHANGED <<stream, stores, runs, replay, rebuilds, stale>>

(* index_documents: the passages are recorded, with their vectors if there is
   a provider, unless the split is a repeat. *)
DecideIndex(w) ==
  LET r == run[w]
      events == ChunkingEvents(r.version, r.split, Index, r.embeds)
  IN /\ r.phase = "loaded"
     /\ r.by = Index
     /\ Become(w, IF events = <<>> THEN Idle
                  ELSE [r EXCEPT !.phase = "save", !.events = events])
     /\ UNCHANGED <<stream, stores, runs, replay, rebuilds, stale>>

(* Mutant: the append does not compare versions. *)
AnyVersion(r) == TRUE

Current(r) == Len(stream) = r.version

(* The events are appended before any read model is written. *)
Save(w) ==
  LET r == run[w]
      last == r.events[Len(r.events)]
  IN /\ r.phase = "save"
     /\ Current(r)
     /\ stream' = stream \o r.events
     /\ BecomeOwing(w, [r EXCEPT !.version = Len(stream'),
          !.phase = IF last.type = "chunked" THEN "corpus" ELSE "rows"])
     /\ UNCHANGED <<stores, runs, replay, rebuilds>>

(* OptimisticLockError ends the run; there is no retry. *)
SaveConflict(w) ==
  /\ run[w].phase \in {"save", "persist"}
  /\ ~ Current(run[w])
  /\ EndRun(w)
  /\ UNCHANGED <<stream, stores, runs, replay, rebuilds>>

(* ChunkProjection.handle *)
ProjectChunks(w) ==
  LET r == run[w] IN
    /\ r.phase = "corpus"
    /\ corpus' = ReplaceSource(corpus, r.events[Len(r.events)])
    /\ Become(w, IF r.events[1].type = "extracted"
                 THEN [r EXCEPT !.phase = "rows"] ELSE Idle)
    /\ UNCHANGED <<stream, graph, vectors, runs, replay, rebuilds, stale>>

(* GraphProjection.handle: the rows of what was found ... *)
ProjectRows(w) ==
  LET r == run[w] IN
    /\ r.phase = "rows"
    /\ graph' = WithRows(graph, r.events[1])
    /\ Become(w, [r EXCEPT !.phase = "retract"])
    /\ UNCHANGED <<stream, corpus, vectors, runs, replay, rebuilds, stale>>

(* ... then the tombstones of what was not found again. *)
ProjectRetractions(w) ==
  LET r == run[w] IN
    /\ r.phase = "retract"
    /\ graph' = WithRetractions(graph, r.events[1])
    /\ Become(w, IF r.embeds /\ r.events[1].entities # {}
                 THEN [r EXCEPT !.phase = "embed"] ELSE Idle)
    /\ UNCHANGED <<stream, corpus, vectors, runs, replay, rebuilds, stale>>

(* _embed_entities: vectors of what this run found, unless the aggregate has
   recorded this provider's before. *)
Embed(w) ==
  LET r == run[w] IN
    /\ r.phase = "embed"
    /\ Become(w, IF EmbeddingRepeated(r.version) THEN Idle
                 ELSE [r EXCEPT !.phase = "vectors",
                         !.events = Append(@, [type |-> "embedded",
                                               entities |-> r.events[1].entities])])
    /\ UNCHANGED <<stream, stores, runs, replay, rebuilds, stale>>

(* VectorProjection.handle, of an event that is not in the stream yet ... *)
ProjectVectors(w) ==
  LET r == run[w] IN
    /\ r.phase = "vectors"
    /\ vectors' = vectors \union r.events[Len(r.events)].entities
    /\ BecomeOwing(w, [r EXCEPT !.phase = "persist"])
    /\ UNCHANGED <<stream, graph, corpus, runs, replay, rebuilds>>

(* ... and is appended last. *)
Persist(w) ==
  LET r == run[w] IN
    /\ r.phase = "persist"
    /\ Current(r)
    /\ stream' = Append(stream, r.events[Len(r.events)])
    /\ Become(w, Idle)
    /\ UNCHANGED <<stores, runs, replay, rebuilds, stale>>

(* The process dies or is cancelled, or a model call fails. *)
Die(w) ==
  /\ run[w].phase # "idle"
  /\ EndRun(w)
  /\ UNCHANGED <<stream, stores, runs, replay, rebuilds>>

-----------------------------------------------------------------------------
(* rebuild: wipe one store's rows, then replay the stream into it *)

StartRebuild(s) ==
  /\ ~ Replaying(s)
  /\ rebuilds < MaxRebuilds
  /\ rebuilds' = rebuilds + 1
  /\ replay' = [replay EXCEPT ![s] = 0]
  /\ graph' = IF s = "graph" THEN [x \in Entities |-> "none"] ELSE graph
  /\ corpus' = IF s = "corpus" THEN EmptyCorpus ELSE corpus
  /\ vectors' = IF s = "vectors" THEN {} ELSE vectors
  /\ stale' = IF \E w \in Workers : s \in Owes(run[w])
              THEN stale \union {s} ELSE stale \ {s}
  /\ UNCHANGED <<stream, run, runs>>

(* Mutant: a replay takes no notice of retractions. *)
ReplayRowsOnly(s) ==
  LET e == stream[replay[s] + 1] IN
    /\ Replaying(s) /\ replay[s] < Len(stream)
    /\ replay' = [replay EXCEPT ![s] = @ + 1]
    /\ graph' = IF s = "graph" /\ e.type = "extracted" THEN WithRows(graph, e) ELSE graph
    /\ corpus' = IF s = "corpus" /\ e.type = "chunked" THEN ReplaceSource(corpus, e) ELSE corpus
    /\ vectors' = IF s = "vectors" /\ e.type = "embedded"
                  THEN vectors \union e.entities ELSE vectors
    /\ UNCHANGED <<stream, run, runs, rebuilds, stale>>

ReplayNext(s) ==
  LET e == stream[replay[s] + 1] IN
    /\ Replaying(s) /\ replay[s] < Len(stream)
    /\ replay' = [replay EXCEPT ![s] = @ + 1]
    /\ graph' = IF s = "graph" /\ e.type = "extracted"
                THEN WithRetractions(WithRows(graph, e), e) ELSE graph
    /\ corpus' = IF s = "corpus" /\ e.type = "chunked" THEN ReplaceSource(corpus, e) ELSE corpus
    /\ vectors' = IF s = "vectors" /\ e.type = "embedded"
                  THEN vectors \union e.entities ELSE vectors
    /\ UNCHANGED <<stream, run, runs, rebuilds, stale>>

EndRebuild(s) ==
  /\ replay[s] = Len(stream)
  /\ replay' = [replay EXCEPT ![s] = NoReplay]
  /\ UNCHANGED <<stream, stores, run, runs, rebuilds, stale>>

Next ==
  \/ \E w \in Workers :
       \/ \E job \in Jobs : Load(w, job)
       \/ \E found \in SUBSET Entities : DecideExtraction(w, found)
       \/ DecideIndex(w) \/ Save(w) \/ SaveConflict(w) \/ ProjectChunks(w)
       \/ ProjectRows(w) \/ ProjectRetractions(w)
       \/ Embed(w) \/ ProjectVectors(w) \/ Persist(w) \/ Die(w)
  \/ \E s \in Stores : StartRebuild(s) \/ ReplayNext(s) \/ EndRebuild(s)

Spec == Init /\ [][Next]_vars

-----------------------------------------------------------------------------
(* Properties *)

TypeOK ==
  /\ stream \in Seq(Event)
  /\ graph \in [Entities -> {"none", "live", "retracted"}]
  /\ corpus \in [Adapters -> [Passages -> PassageRow \union {NoRow}]]
  /\ vectors \in SUBSET Entities
  /\ run \in [Workers -> RunState]
  /\ runs \in 0..MaxRuns
  /\ replay \in [Stores -> {NoReplay} \union 0..Len(stream)]
  /\ rebuilds \in 0..MaxRebuilds
  /\ stale \in SUBSET Stores

(* However many runs raced on copies of different ages, died or were retried,
   the stream records one extraction per model, one chunking per split and
   writer, and one embedding (aggregates/document.py:9-12, "a retry after a
   crash a no-op"). *)
OncePerKey ==
  LET all == Len(stream) IN
    /\ \A i, j \in Extracted(all) : stream[i].model = stream[j].model => i = j
    /\ \A i, j \in Chunked(all) :
         stream[i].split = stream[j].split /\ stream[i].by = stream[j].by => i = j
    /\ \A i, j \in Embedded(all) : i = j

(* An extraction retracts what the one before it in the stream found and it
   did not: nothing an intervening run found again, nothing twice
   (aggregates/document.py:94-100). *)
RetractionsExact ==
  \A j \in Extracted(Len(stream)) : \A x \in Entities :
    x \in stream[j].retracted <=>
      /\ x \notin stream[j].entities
      /\ \E i \in Extracted(j - 1) :
           x \in stream[i].entities /\ Extracted(j - 1) \subseteq 1..i

(* The chunk store holds one recorded chunking whole or nothing, at every
   moment: never passages of two splits, or of one split by two writers
   (projections/chunk.py:3-12, "neither the old chunking nor the new one"). *)
CorpusIsOneChunking ==
  \A a \in Adapters :
    \/ \A p \in Passages : corpus[a][p] = NoRow
    \/ \E i \in Chunked(Len(stream)) : \A p \in Passages :
         IF p \in PassagesOf[stream[i].split]
         THEN corpus[a][p] # NoRow /\ corpus[a][p].by = stream[i].by
         ELSE corpus[a][p] = NoRow

(* No entity is in the graph that the stream does not account for, and none is
   tombstoned that no run retracted, at every moment (build_graph.py:425-427 "projecting first and crashing leaves read models
   holding what nothing accounts for"). *)
AccountedFor ==
  \A x \in Entities :
    /\ graph[x] # "none" => \E i \in Extracted(Len(stream)) : x \in stream[i].entities
    /\ graph[x] = "retracted" => \E i \in Extracted(Len(stream)) : x \in stream[i].retracted

(* Nobody is writing to the store, and nobody wrote to it out of order since
   it was last rebuilt. *)
Settled(s) ==
  s \notin stale /\ ~ Replaying(s) /\ \A w \in Workers : s \notin Owes(run[w])

GraphSays ==
  \A x \in Entities :
    graph[x] = IF x \in LastExtracted(Len(stream)) THEN "live"
               ELSE IF x \in EverExtracted(Len(stream)) THEN "retracted" ELSE "none"

(* The chunkings that hold p without a gap, up to the last. *)
HeldSince(p) ==
  {i \in Chunked(Len(stream)) : \A j \in Chunked(Len(stream)) :
     j >= i => p \in PassagesOf[stream[j].split]}

CorpusSays ==
  \A a \in Adapters, p \in Passages :
    corpus[a][p] =
      IF HeldSince(p) = {} THEN NoRow
      ELSE LET last == Latest(HeldSince(p))
               first == CHOOSE i \in HeldSince(p) : \A j \in HeldSince(p) : i <= j
           IN [by |-> stream[last].by,
               vector |-> stream[IF a = "postgres" THEN first ELSE last].vector]

VectorsSay == vectors = UNION {stream[i].entities : i \in Embedded(Len(stream))}

(* The graph never holds or tombstones an entity the stream does not account
   for.  And a settled store says what the stream says, read declaratively: the
   live entities are the last extraction's and everything ever found is there;
   the passages are the last chunking's; the vectors are the recorded ones.
   Runs that died or raced need a rebuild first, and one is enough; until then
   nothing is said of the passages or the vectors, of which a run that dies
   leaves some behind (build_graph.py:425-427, projections/chunk.py:14-18). *)
StoresSayWhatTheStreamSays ==
  /\ AccountedFor
  /\ Settled("graph") => GraphSays
  /\ Settled("corpus") => CorpusSays
  /\ Settled("vectors") => VectorsSay

(* "every chunk of a document that was recorded gets a vector"
   (index_documents.py, IndexReport.embedded): when the last chunking carries
   vectors, every passage has one. *)
EmbeddedPassagesSearchable ==
  Settled("corpus") =>
    \A a \in Adapters, p \in Passages : \A i \in HeldSince(p) :
      Chunked(Len(stream)) \subseteq 1..i /\ stream[i].vector => corpus[a][p].vector

(* _embed_entities calls its refusal of a repeat "unreachable from
   `build_graph`" (build_graph.py:570, 599). *)
EmbeddingNeverRefused ==
  \A w \in Workers : run[w].phase = "embed" => ~ EmbeddingRepeated(run[w].version)

(* The rule of build_graph.py:425-427, for the vector store. *)
VectorsAccountedFor ==
  (\A w \in Workers : run[w].phase = "idle") =>
    vectors \subseteq UNION {stream[i].entities : i \in Embedded(Len(stream))}
=============================================================================
