# Verification of redstring

redstring turns documents into a knowledge graph.  A document is cut into
passages, language models extract entities and relationships from them, and the
answers are recorded as events.  The event log is the truth: three projections
fold it into a graph store, a vector store and a chunk store, which any reader
may query and which can be thrown away and rebuilt.  A second service,
consolidation, reads the graph it has so far, decides that some entities are one
and the same, and appends `EntitiesMerged` or `MergeUndone` events.

This directory holds TLA+ models of that program, the TLC runs that check them,
and TLAPS proofs about them.  Paths below are relative to the repository, whose
Python package is `src/redstring`.

## The system

| Part | State it keeps | Operations | Talks to | What is hard |
|---|---|---|---|---|
| Consolidation log aggregate (`aggregates/consolidation_log.py`, `repositories.py`) | one stream of merges and undos per tenant; a replayed copy per caller; a snapshot | `merge`, `undo_merge`, load, save | event store, by optimistic append | concurrent callers with stale copies, snapshots, undo out of order |
| Consolidation service (`consolidation/service.py`, `planning.py`) | none between calls | `merge`, `undo`, `resolve` | reads the graph store, appends to the log | the plan is made from a graph that may be older than the log; retries |
| Graph projection (`projections/graph.py`) | a checkpoint, kept by the subscription | one handler per event, `rebuild` | reads the feed, writes the graph store | awaits between store calls; crashes and redelivery; events that cannot be applied |
| Graph store (`ports/graph_store.py`, `graph/adapters/`) | rows of entities, relationships and aliases, and the indexes on them; in Neo4j, key and alias nodes and edges | upserts, deletes, lookups, traversal | the projection writes, everyone reads | indexes that must follow rows through moves; in Neo4j, methods of several transactions, cut short or raced by a purge |
| Document aggregate (`aggregates/document.py`) | per document: the models, embedders and chunkings recorded, the last run's entities | `record_extraction`, `record_chunking`, `record_embeddings` | event store | repeats, retries, retraction |
| Ingestion (`composition/`) | none between calls | `build_graph`, `build_graph_batch`, `index_documents` | pipeline, repository, projections | persist before project, concurrent runs of one document, partial failure of a batch |
| Chunk store, vector store and their projections | passages with embeddings and a term index; vectors, and the model a table was signed with | `replace_source`, `upsert_many`, backfill, search, `ensure_schema` | projections write, retrieval reads | whole-document replacement, adapters that differ, rows older than an index, several processes opening one table |
| Circuit breaker (`llm/circuit_breaker.py`) | four cache keys | `allow_request`, `record_success`, `record_failure`, `reset` | the cache, in memory or Redis | every method is several cache operations, shared by processes |
| Rate limiter (`llm/rate_limiter.py`) | a series of hit times in the cache | `acquire`, `remaining` | the cache | check then act across processes; window boundaries |
| Cache (`llm/cache/`) | values, counters and hit series, with deadlines | `set`, `increment`, `record_hit`, `count_hits`, ... | Redis, or nobody | two adapters a caller must not tell apart; `increment` is two commands |
| Retry (`llm/retry.py`) | none between calls | one call, again and again | whatever it wraps | off by one, a pause that outgrows its cap |
| Model and embedding adapters | none | one call | model servers | outcomes only matter to their callers |
| Extraction pipeline (`extraction/`) | none between calls | chunk, extract in wavefronts, merge answers | models | calls of a wavefront return in any order, fail, are cancelled; one limiter; what a prompt may depend on |
| Corpus consolidation (`consolidation/resolve_many.py`, `banded.py`, `policy.py`) | a pass: groups, verdicts | `resolve_many` | service, models | serial emission against a moving graph, batches that span subjects, answers matched by position |
| Retrieval, themes (`composition/`, `domain/community.py`, `fusion.py`) | none between calls | `retrieve`, `retrieve_chunks`, `summarize_themes` | stores, models | several reads of stores that change; ties and fixed points |
| Temporal (`domain/temporal*.py`, `interval.py`, `temporal/`) | none | parse, render, relate; page, sort, infer | graph store | precision, open bounds, touching spans; paging under writes |
| Chunkers (`extraction/chunkers/`) | none | cut one text | | overlap against progress |
| Catalogue, domain values | configuration | validation | | |

The stream of an aggregate accepts an append only at the version the writer
loaded; everything else in the system is at-least-once and asynchronous.  A
service call therefore never sees *the* graph, only the graph as projected so
far, and almost everything that is hard about redstring follows from that.

### What makes each part correct

* **Log**: an entity has one canonical parent at most, alias chains never close
  into a cycle, an undo reverses a merge that is in effect, exactly once and with
  that merge's record, and every copy of the aggregate is a replay of a prefix.
* **Service**: a merge followed by its undo gives the graph back; whatever graph
  a merge was planned on, what it emits leaves the projected graph well-formed.
* **Projection**: crashing at any await and being given the event again changes
  nothing in the end; the graph is the fold of the log; it never gets stuck.
* **Graph store**: every index answers what the rows say.
* **Neo4j, Postgres, pgvector**: the same calls leave what the in-memory adapter
  holds, whatever statement they are cut short after and whatever the tables held
  before; vectors of another model or prefix than a store's are not written under
  the provenance it answers.
* **Breaker, limiter, cache, retry**: a half-open circuit is decided; no window
  holds more calls than allowed; the two caches answer alike and a counter
  decays; a call gets the first answer or every attempt it was promised.
* **Consolidation pass**: an answer is applied to the very pair it was asked
  about; the pass survives its own merges; it ends.
* **Extraction**: what is recorded is what some answer listed; no task or slot
  outlives its document; a prompt does not depend on timing; the batch returns.
* **Chunkers**: every character is in a chunk, and cutting ends.
* **Temporal, retrieval, themes**: relations are those of the spans meant; what
  stood still during a paged read is accounted for exactly once.
* **Documents and ingestion**: a repeated run records nothing; a run's
  retractions are exactly what it no longer finds; the read models of a document
  are what its stream says.

## The modules

| Module | Models | Checked by | Proved in |
|---|---|---|---|
| `MergeLedger` | what the consolidation log promises, without sessions or storage: a set of merges in effect | refined by `ConsolidationLog` | `ConsolidationLogProofs` |
| `ConsolidationLog` | `ConsolidationLog` behind its repository: sessions that load (snapshot, then replay event by event), decide on their copy, save under optimistic locking, write snapshots, die | `MCConsolidationLog` | `ConsolidationLogProofs` |
| `GraphStore` | one tenant's graph as a value and what the port's writes make of it | through `Consolidation` | its operators, in `ConsolidationProofs` |
| `MergePlan` | `planning.py`: which edges a merge moves or drops, which row the canonical gets | through `Consolidation` | likewise |
| `GraphFold` | `GraphProjection`'s handlers as store calls, and the meaning of an event as a fold | through `Consolidation` | likewise |
| `Consolidation` | log + projection + service, composed, one step per await | `MCConsolidation` | `ConsolidationProofs` |
| `ResolveMany` | a pass of `resolve_many` over `GraphFold`'s graph and log: scoring, adjudication, emission | `MCResolveMany` | `ResolveManyProofs` |
| `DocumentRuns` | `build_graph` and `index_documents` over the `Document` aggregate and the graph, chunk and vector stores, one step per await | `MCDocumentRuns` | `DocumentRunsProofs` |
| `ExtractionMapping` | from a model's answers to the entities, edges and passages of a document, as operators | through `ExtractionBatch` | |
| `ExtractionBatch` | `build_graph_batch` and the pipeline's wavefronts, gleaning and carryover | `MCExtractionBatch` | `ExtractionBatchProofs` |
| `MemoryGraphStore` | `InMemoryGraphStore` with its four indexes | `MCStoreAdapters` | `StoreAdaptersProofs` |
| `Neo4jGraphStore` | `Neo4jGraphStore`, one step per transaction | `MCStoreAdapters` | `StoreAdaptersProofs` |
| `MemoryChunkStore` | `InMemoryChunkStore`, the reference of its port | as the twin of `PostgresChunkStore` | |
| `PostgresChunkStore` | `PostgresChunkStore`, one step per statement, with its term index | `MCStoreAdapters` | `StoreAdaptersProofs` |
| `PgVectorStore` | one pgvector table, opened and written by several processes | `MCStoreAdapters` | `StoreAdaptersProofs` |
| `CircuitBreaker` | the breaker, cache operation by cache operation | `MCCallGuards` | |
| `RateLimiter` | the limiter, cache operation by cache operation | `MCCallGuards` | `StandaloneProofs` |
| `CacheAdapters` | `MemoryCache` and `RedisCache` given the same calls | `MCCallGuards` | `StandaloneProofs` |
| `Retry` | one call under `with_retry` | `MCCallGuards` | `StandaloneProofs` |
| `Chunking` | the two chunkers | `MCAlgorithms` | `StandaloneProofs` |
| `TemporalExtents` | parsing, rendering and relating temporal text, as operators | through `ExtentMeaning`, `TimelineQuery` | |
| `ExtentMeaning` | the same text's meaning as a set of instants, to compare with | `MCAlgorithms` | `StandaloneProofs` |
| `TimelineQuery` | `TemporalQuery`'s paged scan, the timeline and the inferred relations | `MCAlgorithms` | `StandaloneProofs` |
| `Retrieval` | one call of either retriever, read by read, with rank fusion | `MCAlgorithms` | `StandaloneProofs` |
| `Themes` | one call of `summarize_themes`: topology scan, community detection, description | `MCAlgorithms` | `StandaloneProofs` |
| `Sorting` | `sorted`: a finite set as a list, best first | through `ResolveMany`, `TimelineQuery`, `Retrieval`, `Themes` | `Iteration` |

`Iteration` models nothing: it holds the facts about natural numbers the proofs
share.  A set of naturals has a least element, one that is bounded a greatest; a
set closed under + 1 that holds 0 holds all; a start and a step define a sequence;
and what `Sorting` sorts is a list of the set, sorted (`RankedIsRanking`), because
a finite set under a strict total order has a ranking.
They are stated of sets and functions, not of formulas, so that a proof can cite
them about any property: it collects the numbers that have the property in a set.

`MCStoreAdapters`, `MCCallGuards` and `MCAlgorithms` each hold several components
that share no state: `which` (in `MCAlgorithms`, `part`) picks one in the initial
state and the others never move, so each is explored completely and none is
multiplied by another.  Their parameters are constants with named assumptions,
so that the theorems about them hold of any key, lifetime, batch or node, and
not of the instance a run takes.

`PROJECT.json` ("map") gives for every definition the lines it stands for.
A definition whose comment begins with *Mutant* is never part of a
specification: it is the plausible bug its neighbour is compared with, to show
that the properties notice.

### How state and actions correspond to the code

**`ConsolidationLog`.** `stream` is the tenant's consolidation stream, `snapshot`
the row the snapshot store holds, `agg[s]` a caller's `ConsolidationLog` instance
with its version, `pending[s]` its uncommitted event.  `StartLoad`, `ReplayNext`
and `EndLoad` are `load_or_create`; `MergeCommand` and `UndoCommand` are `merge`
and `undo_merge`, with the aggregate's checks, the event's validator and the
`_apply_*` method; `Save`, `SaveConflict` and `WriteSnapshot` are the
repository's `save`; `Leave` is a refused command or a caller that dies.  An
event id, a fresh UUID in the code, is the stream position the event will take:
as unique, and visible to others only once it is in the stream.

**`Consolidation`.** `log` is the tenant's event feed.  A handler of
`GraphProjection` is a sequence of store calls; `work` holds the ones left, so
that a crash (`Restart`, `Rebuild`) and other actors come between any two.
`cursor` is the event it was given last and `checkpoint` the earliest one its
checkpoint may be at: a restart goes back no further.  A
call that reads (`retract`, `resolve`) puts the writes its answer leads to in
front of the rest, and those are applied to the store as it is *then*.
`DeadLetter` is an event whose handler the store refused (`UnknownEndpointError`,
`AliasCycleError`, a missing canonical row).  `ConsolidationService.merge` is
`ReadEdges`, `ReadEntities`, `LoadAndMerge`, `Save` or `SaveConflict`, its four
awaits; `undo` reads no graph.  A relationship id hashes the endpoints the
document claimed, so the pair *is* the id; an entity row is the set of property
keys on it.

**`ResolveMany`.** The three phases of `execute_resolve_many`.  `scoring` is one
decision per subject, filled in by `ResolveSubject` and `FindCandidates` in
wavefronts of `Concurrency`; `banded` the decisions in emit order; `verdicts` the
flat list of answers, grown batch by batch, of which `VerdictsOf(k)` is decision
*k*'s share and `BySubject` the dictionary the code builds of it; `consumed` is
`in_pass_alias_of`.  `PlanMerge`, `AppendMerge`, `RetryResolved` and `Raise` are
`_emit` with its one retry.  `evidence` and `emitted` are history.  The log and
the graph are `GraphFold`'s; other processes merge (`OutsideMerge`) and scores
change (`Rescore`) between any two awaits, and the projection delivers when it
likes, or, with `Deferred`, only after the pass, which is what
`Consolidator.resolve_many` does.  What a score is made of (names, embeddings,
blocking keys) is an input.

**`ExtractionBatch`, `ExtractionMapping`.** A document is its chunks' texts; the
model's possible answers are given per chunk.  `call[d][c]` is one
`_extract_one` with its gleanings (`asked` counts calls, `answer` is what they
add up to), `free` the slots of the document's `CallLimiter`, `carry` the
`Carryover`, `prompt` what each chunk was shown.  A document goes through
`StartDocument` (the semaphore, and coercion), `NextWave` (the barrier of a
wavefront), `RaiseChunkError` or `Record`; `EndBatch` and `Cancel` are the two
ways out of the batch's `gather`.  `ExtractionMapping` is the computation between
an answer and the document's result: date nodes lifted, names refused, ids by
name and type, the highest confidence kept, edges re-pointed, passages linked.

**`MemoryGraphStore`.** One variable per index.  No method suspends, so each is
one step, except that `upsert_relationships` checks every endpoint and then
writes one edge at a time (`todo`).

**`Neo4jGraphStore`.** Every `_run` is an auto-committed transaction, so
`upsert_entities` is three steps (`WriteNodes`, `DropKeyEdges`, `WriteKeyEdges`),
`upsert_relationships` up to three, `delete_by_tenant` three.  One projection
writes a tenant's graph, so one `call` is in progress; between its steps its
process may die and run it again (`Redeliver`), and an operator's purge may run
across it.  `raced` remembers which entities were written across a purge.

**`MemoryChunkStore`, `PostgresChunkStore`.** The Postgres adapter runs beside an
in-memory store (`twin`) that is given the same calls.  Each write is one
statement with its term rows; `backfill_lexical` and `search_lexical` are several,
with other writes between.  The table may be older than the term index, with rows
that have neither terms nor length.

**`PgVectorStore`.** `opened[s]` is how far a process has come in
`ensure_schema`: create, check the dimension, read the provenance record and
verify dimension, model and prefix against it (`Verifies`), write it if there is
none.  The write says ON CONFLICT DO NOTHING, and its process answers with its
own provenance whoever's row is there (`RecordProvenance`).  Writing asks for
none of this, and `ensure_schema` may be called again (`EnsureAgain`).  A vector
remembers the model and prefix it was made with and, for the property only, what
its writer answered as its provenance.

**`CircuitBreaker`, `RateLimiter`.** Each worker's `pc` is the cache operation it
makes next.  Over `MemoryCache` no method suspends; over `RedisCache` every
operation is a round trip at which others run.  Both modules have one switch for
that (`Shared`, `shared`).

**`CacheAdapters`.** One call goes to both adapters; `IncrementRedis`'s second
command is a step of its own, before which its process may die.  **`Retry`.** The
loop of `with_retry`: an attempt, its outcome, a pause drawn within the jitter.

**`Chunking`.** A text is its length and, for every position, what ends there.
One step yields one chunk; `_find_break_point` looks back for the best boundary
as the code does.

**`TemporalExtents`, `ExtentMeaning`, `TimelineQuery`.** An expression is its
form (a year, a month, a quarter, a range of these, a decade, a century, a date
with or without a clock, an amount of time ago) and its markers.
`ParseTemporal(text, reference)` gives it an extent the way the strategies do, in
a regular calendar with short units.  The reference is any moment on any clock,
or none: it fills whatever a date omits, down to the unit its clock time is
written in (`TimeFilled`), and its offset.  The finest precision is the minute
(`ClockPrecision`).  `Bounds` and `RelateBounds` are `interval.py`.
`ExtentMeaning` reads two texts, each at a reference of its own (`Reading`), says
what they cover without parsing them and compares.  `TimelineQuery` pages through a store
that is written meanwhile, sorts and infers.

**`Retrieval`, `Themes`.** One call each, one step per read of a store that
changes in between.  `Retrieval` ranks by given scores and fuses the rankings by
reciprocal rank, in exact fractions; `Themes` runs the passes of community
detection node by node, with gains multiplied out to integers.

**`DocumentRuns`.** `stream` is a document's event stream and `run[w]` what a
worker has in hand: the copy of the aggregate it loaded (a version, since a copy
is the replay of a prefix), the events it recorded, and the await it is at.
`Load`, `DecideExtraction` or `DecideIndex`, `Save`, `ProjectChunks`,
`ProjectRows`, `ProjectRetractions`, `Embed`, `ProjectVectors` and `Persist` are
the two functions in their order; `SaveConflict` is the `OptimisticLockError`
neither of them catches, `Die` a crash, a cancellation or a failed model call.
A document's stream, entity ids, passages and vectors are all keyed by the
document, so one document is enough, and the tasks of `build_graph_batch`, which
turns a task's failure into an entry of its report, are workers like any others.
A chunker's settings matter through the split they produce (`Splits`); the
models' answers are fixed per model.  `corpus` holds what each chunk store
adapter makes of the same calls: nothing a run decides depends on the store, so
one behaviour shows both.  `StartRebuild`, `ReplayNext` and `EndRebuild` wipe
one store and replay the stream into it while runs go on.  `stale` is history,
for the properties only: the stores some run wrote out of the stream's order, or
never wrote, since they were last rebuilt.  Relationships are in
`Consolidation`, not here.

## What the runs check

| Run | Question | Bounds |
|---|---|---|
| `ConsolidationLog` | do stale copies, snapshots and conflicts ever let a bad event in? | 3 entities, 2 sessions, 2 edge plans, 4 events, a snapshot every 2 |
| `Sequential` | calls one after the other, each finding the projection settled: does undo give the graph back, do edges stay on canonicals, does the projection always get through? | 3 entities, their 3 edges, every merge of them, five runs (one finds an edge before its entity), 4 events, 1 restart |
| `Racing` | two calls race each other, extraction and the projection: are alias rows ever a cycle, does an edge ever lack an end, and is the store in the end the fold of the log? | 3 entities, merges of *a* into *b* and *b* into *a*, 2 callers with 1 retry, 4 events, 1 restart or rebuild |
| `ResolveMany` | does a pass apply every answer to its question, survive its own merges, and end? | 3 entities, 3 subject lists (one names a subject twice), 4 scorings, wavefronts and batches of 2, an earlier merge or none, 1 outside step |
| `DocumentRuns` | runs race, die and retry: is anything recorded twice or retracted wrongly, is the corpus ever a mixture, does a store say what the stream says? | 2 workers, 3 runs, 3 models (finding both of 2 entities, one, none), 2 splits that share a passage, 1 rebuild |
| `ExtractionBatch` | calls fail, overtake each other and are cancelled: is anything left behind, lost or dependent on timing, and does the batch return? | a document of 3 chunks, one of 1, an item that is no document; wavefronts and batch of 2, 1 gleaning pass, a carryover of 2, 3 sets of options |
| `StoreAdapters` | do indexes, key edges, alias queries, term rows and signatures follow the rows, whatever a call is cut short after? | graph: 3 entities, 2 relationships, batches of 2, no bound on writes; Neo4j: 5 entity batches, 3 edge batches, 4 alias pairs; chunks: 2 of one source, one sharing a term, any old table; vectors: 4 processes of 2 models, 2 prefixes and 2 dimensions, some with none, on 1 entity |
| `CallGuards` | is the window kept, do the caches agree and their counters decay, is a retry what it promises, is a half-open circuit decided? | breaker: 3 workers of one process, threshold 2, 2 probes, 3 turns; limiter: 3 callers, 2 calls per window of 2 ticks, 5 ticks, both caches; cache: 2 processes, 4 instants; retry: 0, 1 and 3 retries, 3 jitters |
| `Algorithms` | do the long computations give what they should? | chunkers: every text of 7 characters with two boundaries, 3 sizes, 4 overlaps; 71 temporal expressions, each read at 4 reference dates (none, a midnight in UTC, and two with a time of day, one of them on another clock), in pairs; timeline, retrieval and themes: 3 entities, 3 items, 5 entities with 7 edges, 1 write meanwhile |

Why these bounds are enough for the cases meant: four events hold a merge, its
undo and two more (extract, merge, undo, merge back; extract, merge, chain, undo
out of order), which is what each known interaction needs; three entities hold a
chain and a batch merge; two sessions are what a conflict needs, and any further
one only repeats it.  A document needs three runs to
retract an entity, and then to tell the last extraction from the ones before it.
The breaker's third worker is the one that reports late
while two others probe.  In the limiter two windows follow each other in the
time.  Three chunks make two wavefronts of two, so that a prompt has a carryover
and a wavefront two calls to overtake each other; the third repeats the first's
text.  A pass of three subjects with batches of two has a batch that spans two
subjects and a merge that consumes a later subject.  Three Neo4j alias pairs chain
and the fourth closes a cycle.  Five nodes with a chord and a doubled edge have
ties, communities that empty, and a second pass.  The proofs below have no
bounds.

`Lag = 1` says how far a checkpoint may be behind: it is written after each
handler returns ("The checkpoint is written after the handler succeeds",
`docs/how-to/drive-projections-from-an-event-store.md`), so a crash gives back
the interrupted event or the last one.  The checkpoint itself never goes back, so
a second crash cannot go further than the first did.

`CHECK_DEADLOCK FALSE` is set where the system may simply stop: the log is at its
bound and nothing is in flight, or the runs, the turns or the clock have run out.

### Fairness

* `Consolidation!FairSpec`: the subscription keeps being driven, so an event in
  the feed is eventually taken and its handler goes on (weak fairness of
  `Deliver` and of `StoreCall \/ DeadLetter`).  Nothing is assumed of callers,
  extraction or restarts, and restarts are bounded, since a projection that
  crashes for ever makes no progress.
* `MCCallGuards!MCFairSpec`: a breaker method that was entered runs to its end,
  and a model call ends or is abandoned (every call has a timeout,
  `llm/retry.py`).  Nobody is obliged to ask: `HalfOpenResolves` is about what the
  admitted probes do, and not about new ones.
* `ResolveMany!Spec`: the pass's coroutine keeps being run, and the model's calls
  return or time out (weak fairness of the pass's own steps).  Nothing is assumed
  of the projection or of other processes.
* `ExtractionBatch!Spec`: the event loop runs the tasks and every model call ends
  (weak fairness of `Step`, which does not include a cancellation).

## What the checks found

Runs marked `violation` in `PROJECT.json` each refute one sentence of the
repository; the finding there quotes it.

* `LateProjection`: `Consolidator.resolve_many` says it folds every event through
  the projection as it goes; it does so after the pass.  When a pass merges *b*
  into *a* and then *a* into *x*, the second merge is planned on a graph the first
  has not reached, and an edge is left on *a*.
* `MissingNeighbor`: deleting one of two edges between a pair makes `neighbors`
  forget the other.  The same index never invents a neighbour (`NeighborsReal`, a
  part of `IndexesExact`).
* `LostEmbeddings`: the Postgres chunk store never updates the vector of a
  passage it holds, so `index_documents` with vectors after `build_graph` leaves
  the shared passages out of semantic search, and still reports them embedded.

Further disagreements and limits are not runs of the project, because they
restate a finding, or because the code or its documentation half admits them.
The first four keep a configuration:

| Config | Module | Property | What it shows |
|---|---|---|---|
| `SuffixRedelivery.cfg` | `MCConsolidation` | `ReplayEquivalence` | redelivering a suffix of several events does not give the fold of the log, although `projections/graph.py:58-62` says "the final state is the log's"; with single-event redelivery it does (`Racing`) |
| `StaleUndo.cfg` | `MCConsolidation` | `UndoIsInverse` | a merge planned while an earlier one was unprojected, then undone, does not reproduce the pre-merge graph (`planning.py:31-32`); with calls that wait it does (`Sequential`) |
| `BreakerWedged.cfg` | `MCCallGuards` | `NotWedged` | over Redis a late probe can leave the circuit half-open with its allowance spent and nothing in flight, which the docstring of `_to_half_open` means to avoid |
| `VerdictSwap.cfg` | `MCResolveMany` | `VerdictsAlwaysMatch` | when two subjects have become one entity, and their candidates changed between the two reads, one's answers are applied to the other's candidates |

The rest are violated when the property is put into the configuration named:

| Property | In | What it shows |
|---|---|---|
| `AliasOfOneLevelDeep` | `ConsolidationLog.cfg` | *b* into *a*, then *a* into *x*: `alias_of` is two deep, although `docs/how-to/use-the-write-model.md` calls it one level deep |
| `OneEdgePerClaim` | `Racing.cfg` with `LateEdgeRuns`, `ChainRequests`, one caller | an edge extracted after a merge can duplicate one the merge moved |
| `NoAliasCycle` | `SuffixRedelivery.cfg` with `LateEdgeRuns`, `SwapRequests`, one caller at a time | redelivery of a merge, its undo and the reverse merge makes the alias rows a cycle until the suffix is done |
| `ProbesBounded`, `OpensOnce` | `BreakerWedged.cfg` | over Redis two transitions to half-open admit more probes than the allowance, and a late failure opens an open circuit again; in one process neither happens (`OneProcessRecovers`) |
| `SharedWindowBound` | `CallGuards.cfg` | over Redis the limit is overshot, by one call per other caller at most (`OvershootBound`, proved in `OvershootIsBounded`) |
| `RetrySucceeds` | `CallGuards.cfg` | at the instant a refused caller is told, the oldest hit is still in the window; it is told no later instant than it must (`RetryIsEarliest`, proved in `RefusalsAreEarliest`) |
| `CountersAlwaysExpire` | `CallGuards.cfg` | a process that dies between INCR and PEXPIRE leaves a counter that never decays |
| `VectorsAccountedFor` | `DocumentRuns.cfg` | vectors are written before their event is appended: a run that dies or loses in between leaves vectors the stream does not record |
| `EmbeddingNeverRefused` | `DocumentRuns.cfg` | over an event store a second model's run is refused its embeddings, so entities only it found get no vector; `build_graph.py` calls that branch unreachable |
| `OneModelPerTable` | `StoreAdapters.cfg` | two processes with different models or prefixes that open a new table together are both let in, whatever `vector/provenance.py:1-5` says; so are any two models, with no race, after a store that was given only a prefix signed the table with no model |
| `KeysFindEveryRow` | `StoreAdapters.cfg` | a purge across a batch of entities leaves rows no blocking key leads to |
| `CandidatesMeasured`, `OneCorpus` | `StoreAdapters.cfg` | a row older than the term index, written again, is ranked as of length 0; the statements of one lexical search may read two corpora |
| `OpenExtentsHaveOneEnd` | `Algorithms.cfg` | "before 1914-1918" parses to an open extent with two ends; `interval.py:125-127` says `parse_temporal` cannot construct one |
| `VantageFree` | `Algorithms.cfg` | an absolute date without a clock takes the time of day of the reference date, so "before 15 March", read at 15:00, stops at 15:00, although `interval.py:142` has it stop where the named unit begins |
| `TimelineIsChronological` | `Algorithms.cfg` | two extents written on different clocks stand on a timeline in the order of their wall clocks; `inference.py:223-225` says their ISO renderings sort as their values do |
| `TypesAsAsked` | `Algorithms.cfg` | an entity whose type changed after its vector was written is matched under the old type |
| `TiesStay` | `Algorithms.cfg` | an exact tie can move a node, although `community.py` says it never moves anybody |
| `OverlapsAreTrue` | `Algorithms.cfg` | the sliding window reports the overlap it was asked for, also where it gave it up |

Things met on the way that no property states:

* `"Q1 1914"` denotes its first month only (`Plain` leaves quarters out), and a
  text with seconds the whole of its minute.
* An amount of time ago is counted from the reference's wall clock and taken for
  UTC: the reference's offset is dropped (`Plain` asks for an offset of 0).
* `render_temporal` of a year before 1000 does not parse back.  A day written on a
  clock ahead of UTC that begins at midnight UTC is rendered as that day in UTC,
  which is the same instant and another extent: its bounds differ.
* A year the calendar does not have raises `ValueError` out of `parse_temporal`,
  which its caller in `mapping.py` does not expect.
* A vector store that is refused when `ensure_schema` is called again still answers
  its earlier provenance, and writes.
* `SlidingWindowChunker.chunk` takes a negative overlap given with a call
  (`sliding_window_chunker.py:127-135`); `SizesAssumption` does not.

## What is proved

TLAPS checks these for every value of the constants, and so for any number of
entities, callers, sessions, workers, documents and events.

* **`ConsolidationProofs`**, the composed service.
  `AliasesFollowTheLog` (`AliasesMatchLog`), `GraphStaysWellFormed`
  (`GraphWellFormed`) and `StoreIsTheFold` (`ReplayEquivalence`); for callers that
  wait for the projection, `UndoGivesBack` (`UndoIsInverse`) and
  `EdgesStayOnCanonicals` (`EdgesOnCanonicals`).
  * *The log* (`ServiceInv`): a merge is appended only over entities no merge in
    effect absorbed, an undo only of a merge in effect, because the version a
    call loaded is compared with the stream's.  What a caller holds is therefore
    carried in the invariant (its version, and an event allowed at it).
  * *The aliases* (`StoreInv`, `AliasInv`): a store call about an alias is made
    when its handler begins, before anything is refused, so a row differs from
    the log's only while an event about that entity is being handled or is still
    to come.  This needs no bound on redelivery.
  * *No circles* (`NearInv`): with `Lag <= 1`, the rows lie at each moment
    between those of two neighbouring prefixes of the log.  Chains of merges go
    forward in the log, so the position of the merge that absorbed an entity is
    a rank that rises along a chain (`RisingEnds`).  With a longer lag the
    conclusion is false (`NoAliasCycle`, above).
  * *The fold* (`GroundInv`, `FollowInv`): `Meant` says row by row what an event
    makes of a graph, and a handler's calls from beginning to end are shown to do
    just that.  While an event is handled, each row, edge and alias is as in the
    fold before it or as in the fold after it, and what is left of `work` says
    which (`Made`).  A handler given an event again starts from such a graph, and
    the calls it makes are the same, because everything they depend on is
    unchanged by the calls made before the crash.  `GroundInv` adds that what a
    caller planned names rows and edges the log introduced, so that no call of a
    merge or an undo is refused; what the store does refuse, a document's batch
    of edges, it refuses of the fold too.
  * *Undo* (`SoloInv`): under `OneAtATime` the store is settled when a call
    begins and nobody else calls until it returns (`Alone`), so by the fold above
    every merge in the log was planned on the very graph it is applied to
    (`LogPlanned`, `Orderly`).  Its undo then puts each row, edge and alias back
    (`UndoneNext`).  Merges undone last first nest like brackets (`Nested`),
    which takes the fact from neighbouring events to any stretch of them
    (`UndoneInverts`, by induction on its length).  A merge moves every edge off
    what it absorbs and an undo of the latest merge leaves only aliases older
    than that merge, so the fold keeps its edges on canonicals
    (`FoldOnCanonicals`), and so does the store, which is the fold.
* **`ConsolidationLogProofs`**, the aggregate behind its repository.
  `LedgerSafe`, `LogSafe`, `OneParentEach`, `UndosReverse`, and the refinement
  `LogImplementsLedger`.  The inductive invariant joins well-formedness of the
  stream (every merge was allowed and every undo restores its merge *at its own
  position*), `ChainsGoForward`, `CopiesAreReplays` and `PendingAllowed`: a
  session with an uncommitted event is exactly one allowed event ahead of a
  replay.  The last ties the check a session made on its copy to the stream it
  appends to: when the versions agree, that replay is of the whole stream.
* **`DocumentRunsProofs`**.  `RecordedOnce` (`OncePerKey`) and `RetractionsFollow`
  (`RetractionsExact`): a run decides on a copy, and appends only if nothing was
  appended since, so what its event retracts is measured against the extraction
  just before it.
  `CorpusWhole`: a chunk store holds one split whole or nothing, since both
  adapters replace a source in one statement.  `StoresFollow`: the invariant says
  of every write a run or a rebuild still owes which event it is of, and so that
  a store owed nothing and written in order says what the last event says.
* **`StoreAdaptersProofs`**, the four adapters, and `AdaptersHold`, that the
  system `StoreAdapters` checks keeps all their promises.
  * `IndexesSayWhatTheRowsSay`: the in-memory indexes.  The read methods filter
    out ids without a row, which hides stale entries; the invariant is about the
    raw indexes.
  * `KeysFollowTheRows`: whatever statement a call was cut short after, once it
    has been run again an entity that was not written across a purge has exactly
    the key edges of its row.  The strengthening says so of the entities outside
    the call in progress (`EdgesTrue`, `EdgesThere`), and of those inside it that
    their rows are the batch's (`BatchWritten`) and their old key edges gone
    before new ones are written (`BatchUnkeyed`).
  * `ResolvesAsTheWalk`: the bounded variable-length path query of Neo4j answers
    what following one alias after another answers, or raises.  A walk that
    returns to no node it met is no longer than there are nodes, which is the
    bound of the query.
  * `TableFollowsMemory`: the chunk table holds what the in-memory store holds,
    and a row has all the term rows of its text or, older than the index, none.
    `ON CONFLICT` resolves a batch that names a chunk twice to its last entry
    (`LastOne`), as the dictionary does.
  * `SignaturesTellVectorsApart` (`SignedVectorsAgree`): a store answers with a
    provenance that is its own or that it verified (`Suits`), and a vector was
    written by a store that suits what it was written under (`Signed`).  If the
    loser of the race answered with the winner's row (the mutant
    `AnswersTheRow`), its vectors would pass for the winner's.
* **`StandaloneProofs`**, the components that share no state with others.
  * `WindowHolds`: nobody's clock reading is ahead of the clock, and a caller
    about to record counted a window with room, which stays true because no other
    caller is inside `acquire`.  `OvershootIsBounded`: over Redis callers count
    side by side, and the calls in the window together with the callers about to
    record one never exceed the allowance by more than the callers but one: a
    caller that finds room counts every call but those of the others that are
    about to record.  `RefusalsAreEarliest`:
    what a refused caller counted are hits no later than its own instant, and the
    oldest of them is in every window that ends before the instant it is told.
  * `OneProcessRecovers` (`ProbesBounded`, `NotWedged`, `OpensOnce`): in one
    process a transition of the breaker is not interrupted, which is the order the
    module's docstring relies on.  The invariant (`BreakerInv`) lists what a
    transition may have left to write in each state, and counts the probes given
    by those that still run.
  * `CachesAgree`: what Redis holds is what the in-memory adapter holds and has
    not yet dropped, key by key and hit by hit.  `RetryPromise`.  `GuardsHold`
    says these and `WindowHolds` of the system `CallGuards` checks.
  * `ChunkersCover`, of `Chunking`: each chunk is not empty and inside the
    text (`Sized`), begins no later than its predecessor ends and ends after it
    (`Linked`), the first begins at 0 and the last ends at the end (`Whole`).
  * `ScansSeeWhatStoodStill` (`ScanSeesSettled`): `ScanInv` says while the scan
    runs that ids are yielded in order, none beyond the cursor, and that whatever
    stood still at or behind the cursor was yielded as it is.  A page is the first
    few of the ids behind it (`FirstPage`): a full one reaches its own last id,
    which is the next cursor, and a short one reaches the end.
  * `RelationsAgree` (`RelationsFollowTheTimeline`): the keys of `order_key` are
    lists of one length, compared at the first place where they differ
    (`LessOrders`), and end with the id, so any two entries are comparable and
    sorting them gives one list whatever came in.  The relation of an entry to a
    later one is then one of the four that read forwards; two that begin on one
    clock compare as their instants do.
  * `ThemesAccount` (`ThemesAccountForTheTenant`): the topology is read in pairs of
    reads, the entities of a page and then the edges on them.  `Topology` says up
    to where everything that stood still has been read (`ReadUpTo`), and that an
    edge was read with the first of its ends (`EdgesRead`), unless it or an end was
    written meanwhile.  Whatever the passes do, a label per entity parts them
    (`CommunitiesApart`), and what is described is sorted (`LargestFirst`).
  * `MovesImprove` (`ModularityNeverFalls`): the edges are counted by the ends
    they have in a community (`EdgesInside`, `HasOneEnd`), the pairs of one
    community by its degrees (`PairsSplit`), and only the community a node leaves
    and the one it enters change (`MoveInside`, `MovePairs`).  What modularity
    gains is then the difference of the gains the pass compared (`VisitImproves`),
    and the pass takes the greatest of them (`BestIsBest`).
  * `RetrievalHolds` (`MatchesHold`): both rankings are sorted lists of what was
    read (`Topping`), fused scores are fractions compared by cross-multiplication
    (`NotLess`, `LargerSum`), so what another item outranks in both rankings has
    the smaller sum (`OutrankedIsLess`), and the best *k* that were still found
    when resolved keep their order (`Fusing`, `BestAreFew`).
  * `RelationsMean` (`RelationsAreMeant`), for every set of expressions of the
    grammar and every set of reference dates: what a form is parsed to is shown,
    form by form, to begin and end with what the form spans, but for the time of
    day that was filled in (`Faithful`, `FilledIn`).  So the interval of an
    expression that begins on its unit is the span it means (`EndsAgree`,
    `MeaningIs`), and intervals compare at their ends as spans do as sets
    (`SpansCompare`).  One that does not begin on its unit begins later within it
    and ends where the unit does, which leaves what is wholly before or after it
    where it was (`ApartIs`); only a "before", whose end is that beginning, is
    excepted.
    `RenderedTextMeansTheSame` (`RenderingsParseBack`): a date that is the start
    of its unit is the date its unit's parts name (`YearsAre`, `MonthsAre`,
    `DaysAre`), so the form it is rendered in is parsed to it again, from either
    vantage point alike (`FormsParseBack`).
* **`ExtractionBatchProofs`**.  `LeavesNothingBehind`: free slots and calls in
  flight add up to the concurrency (`Balanced`), and only the wavefront of a
  document being extracted has calls to make (`OnlyItsWave`), so that a wavefront
  that ended is all there was.
  * `PromptsAreSettled` (`PromptsIgnoreTiming`): the carryover is at each moment
    what the chunks before the wavefront found, in their order (`Carried`), and a
    prompt is its tail (`Prompted`).  Only the wavefront's own calls can change,
    so what is before it stays; and remembering a wavefront's results one after
    another, on top of the carryover, is remembering them all (`RememberOn`).
  * `RecordsItsAnswers` (`RecordedFromAnswers`): a chunk's answer, however often
    it was added to, holds exactly the candidates its calls listed (`AllHeard`).
    `Mapped` and `Merged` follow a candidate from there: lifting keeps all but the
    date nodes, mapping keeps one candidate per id at the highest rank and drops
    edges without two ends, merging does the same over the chunks; `PassagesLinked` counts
    the passages an entity is found through.
* **`ResolveManyProofs`**, one inductive invariant, `PassInv`, for both theorems.
  * `AnswersMeetTheirQuestions` (`VerdictsMatchQuestions`): the questions and the
    verdicts are two flat lists, one joined from the decisions, one grown batch by
    batch.  `Flattened` takes a joined list for a running concatenation, so the
    cursor of a decision is the length of what the decisions before it asked
    (`QuestionsAre`), in both lists alike (`SameLengths`).  Until the last batch
    each `same` in the verdicts is evidence about the question at its own place
    (`Answered`), and a decision's share of a complete list is the answers to its
    own questions; from then on every confirmed candidate has evidence (`Evident`).
  * `UndisturbedNeverFails` (`AloneNeverFails`): chains of merges go forward in the
    log, so an absorbed entity never resolves to itself again (`AwayForGood`) and
    is no candidate.  While nobody disturbs the pass its log and graph stay as
    scored until it emits, so two decisions for one subject ask the same
    (`Asked`) and none is left with another's answers; and each alias is one the
    graph shows or the pass itself consumed (`Known`), which is what the recheck
    leaves out, so the log refuses nothing.

What is assumed are the named `ASSUME`s of the modules, which TLC evaluates on
the runs: that a claim joins two entities, a batch or a node set is finite, a
limit is a positive number, a model's answer is a list of candidates,
`NotAlias` is no entity, and the like.
`GraphStaysWellFormed` and `StoreIsTheFold` have one hypothesis besides,
`Lag <= 1`, which the subscription keeps ("The checkpoint is written after the
handler succeeds") and without which both are false (`SuffixRedelivery.cfg`).
`UndoGivesBack` and `EdgesStayOnCanonicals` add `OneAtATime`, the setting of
`Sequential`: without it a plan may be older than the graph it is applied to, and
the first is false (`StaleUndo.cfg`).  `OneProcessRecovers` is about a cache that
is not `Shared`; over a shared one it is false (`BreakerWedged.cfg`).
`RenderedTextMeansTheSame` has the hypothesis `FourDigitYears`: the text of an
earlier year does not parse back.

About temporal expressions, `MeaningAssumption` says what the regular expressions
of the parser let through (a month is one of twelve, a clock time is in whole
units), that a reference date is any aware moment or none, that the two probes are
midnights, as the constants of `temporal_parsing.py` are, and that the instants
sampled tell apart where each extent's unit begins and is over; `ExtentsAssumption` that an extent does not end before it
starts, which its constructor refuses, and that neither reaches beyond the last
year there is.  `BreakerAssumption` and `ThemesAssumption` are what constructors
accept.  The calendar itself (twelve months of two days of eight instants) is a
definition of the model, and these theorems are about it: what they rest on is
that its units nest.

What stays with TLC, and why:

* liveness (`CatchesUp`, `PassEnds`, `BatchReturns`, `HalfOpenResolves`): the
  prover has neither `ENABLED` nor fairness.

Every invariant and every action property of the passing runs is stated by a
theorem.

## Plan

1. Merge strategies other than the default, as operators over property values.
2. `find_entities` with its filters and multi-hop traversal of the in-memory
   store, against Neo4j's.

## Not modelled, and why

* Model servers and embedding adapters, prompt texts, the classifier and the
  schemas answers are parsed with: their outcomes (an answer, a failure, no
  report) are inputs of the models that call them.
* Configuration, validation of settings, the domain catalogue: no state that
  changes.
* Neo4j, Postgres and Redis themselves: the adapters are modelled by the
  statements they send, the servers as atomic per statement.
* Names, descriptions, confidences, embeddings and similarity scores as numbers;
  BM25, tokenising and blocking keys: no modelled decision depends on more than
  their order or identity.
* Merge strategies a caller may choose other than the default.
* What `dateparser` and `dateutil` read beyond the forms above (weekdays, other
  languages, bare clock times ahead); `RelationsAreMeant` does not speak of texts
  with two markers, nor of an "after" before a range.
* `build_graph` without an event store, where every call starts from an empty
  aggregate; the client facade, wiring checks and reports.
* The compliance suites for adapter authors, read as a statement of what the
  ports promise.
* Filters of `find_entities`, paging other than by id, and the in-memory store's
  multi-hop traversal.
