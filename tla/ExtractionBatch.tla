-------------------------- MODULE ExtractionBatch --------------------------
(***************************************************************************)
(* `build_graph_batch` over several documents, each extracted by a         *)
(* pipeline that sends its chunks to a model in wavefronts:                *)
(* src/src/redstring/composition/batch.py, extraction/{pipeline,carryover, *)
(* gleaning}.py and domain/limiter.py.  What follows an extraction - the   *)
(* streams, the stores - is DocumentRuns.tla.                              *)
(***************************************************************************)
EXTENDS ExtractionMapping

CONSTANTS
  Texts,            \* each document's chunks: a sequence of texts
  BadItems,         \* items coerce_document refuses
  Answers(_, _),    \* what the model may answer about chunk c of document d
  MaxConcurrency,   \* documents at once
  Concurrency,      \* chunks of a document at once
  Gleanings,        \* further passes over a chunk
  CarryoverLimit,   \* how many earlier mentions a prompt lists
  Options           \* what callers ask for: {[skip, partial, continue]}

ASSUME ParametersAssumption ==
  /\ MaxConcurrency \in Nat \ {0} /\ Concurrency \in Nat \ {0}
  /\ Gleanings \in Nat /\ CarryoverLimit \in Nat
  /\ Options \subseteq [skip : BOOLEAN, partial : BOOLEAN, continue : BOOLEAN]

Docs == DOMAIN Texts
ChunksOf(d) == DOMAIN Texts[d]

(* An answer parsed with the schema lists candidates. *)
IsCandidate(c) ==
  /\ c = [name |-> c.name, type |-> c.type, rank |-> c.rank, dated |-> c.dated, bare |-> c.bare]
  /\ c.rank \in Nat

IsAnswer(a) ==
  a.entities \in Seq(Range(a.entities)) /\ \A c \in Range(a.entities) : IsCandidate(c)

ASSUME AnswersAssumption ==
  \A d \in Docs : \A c \in ChunksOf(d) : \A a \in Answers(d, c) : IsAnswer(a)

ASSUME ChunksAssumption == \A d \in Docs : ChunksOf(d) = 1..Len(Texts[d]) /\ Len(Texts[d]) \in Nat

VARIABLES
  options,   \* skip_failed_chunks, allow_partial, continue_on_error
  batch,     \* the call: "running", "returned", "raised"
  doc,       \* each document: "queued", "extracting", "recorded", "raised"
  wave,      \* first chunk of the wavefront of each document
  call,      \* each chunk's model calls
  free,      \* free slots of each pipeline's limiter
  finished,  \* a wavefront's chunks in the order they finished
  carry,     \* Carryover._seen: mentions in the order they were first found
  prompt     \* the mentions each chunk's prompt listed

vars == <<options, batch, doc, wave, call, free, finished, carry, prompt>>

NoAnswer == [entities |-> <<>>, edges |-> {}]
NoCall == [step |-> "idle", asked |-> 0, answer |-> NoAnswer, found |-> <<>>, heard |-> {}]

Init ==
  /\ options \in Options
  /\ batch = "running"
  /\ doc = [d \in Docs |-> "queued"]
  /\ wave = [d \in Docs |-> 1]
  /\ call = [d \in Docs |-> [c \in ChunksOf(d) |-> NoCall]]
  /\ free = [d \in Docs |-> Concurrency]
  /\ finished = [d \in Docs |-> <<>>]
  /\ carry = [d \in Docs |-> <<>>]
  /\ prompt = [d \in Docs |-> [c \in ChunksOf(d) |-> <<>>]]

-----------------------------------------------------------------------------
(* The batch *)

Extracting == {d \in Docs : doc[d] = "extracting"}

Wavefront(d, first) == {c \in ChunksOf(d) : first <= c /\ c < first + Concurrency}

(* Carryover.mentions: the most recently first-seen. *)
Mentions(seen) ==
  IF Len(seen) <= CarryoverLimit THEN seen
  ELSE SubSeq(seen, Len(seen) - CarryoverLimit + 1, Len(seen))

(* A wavefront: every chunk of it is given the same prompt. *)
Launch(d, first, seen) ==
  /\ wave' = [wave EXCEPT ![d] = first]
  /\ finished' = [finished EXCEPT ![d] = <<>>]
  /\ call' = [call EXCEPT ![d] = [c \in ChunksOf(d) |->
       IF c \in Wavefront(d, first) THEN [NoCall EXCEPT !.step = "waiting"] ELSE @[c]]]
  /\ prompt' = [prompt EXCEPT ![d] = [c \in ChunksOf(d) |->
       IF c \in Wavefront(d, first) THEN Mentions(seen) ELSE @[c]]]

(* The semaphore admits a document. *)
StartDocument(d) ==
  /\ doc[d] = "queued" /\ Cardinality(Extracting) < MaxConcurrency
  /\ IF d \in BadItems
     THEN /\ doc' = [doc EXCEPT ![d] = "raised"]
          /\ UNCHANGED <<wave, call, finished, prompt>>
     ELSE /\ doc' = [doc EXCEPT ![d] = "extracting"]
          /\ Launch(d, 1, carry[d])
  /\ UNCHANGED <<options, batch, free, carry>>

(* gather: every document ended, or, unless failures are collected, the first
   one raised - and the others run on. *)
EndBatch ==
  /\ batch = "running"
  /\ \/ /\ \A d \in Docs : doc[d] \in {"recorded", "raised"}
        /\ options.continue \/ \A d \in Docs : doc[d] = "recorded"
        /\ batch' = "returned"
     \/ /\ ~ options.continue /\ \E d \in Docs : doc[d] = "raised"
        /\ batch' = "raised"
  /\ UNCHANGED <<options, doc, wave, call, free, finished, carry, prompt>>

-----------------------------------------------------------------------------
(* _extract_one and _glean *)

(* Mutant: the first call's slot is kept while gleaning. *)
SlotKept(d, c) == call[d][c].asked = 0 /\ Gleanings > 0

(* `async with limiter` ends with the call. *)
SlotHeldOn(d, c) == FALSE

Acquire(d, c) ==
  /\ call[d][c].step = "waiting" /\ free[d] > 0
  /\ free' = [free EXCEPT ![d] = @ - 1]
  /\ call' = [call EXCEPT ![d][c].step = "calling"]
  /\ UNCHANGED <<options, batch, doc, wave, finished, carry, prompt>>

(* The call returns, having listed the candidates `new`: its slot is released,
   whatever the outcome. *)
Return(d, c, step, answer, new) ==
  /\ call[d][c].step = "calling"
  /\ free' = [free EXCEPT ![d] = IF SlotHeldOn(d, c) THEN @ ELSE @ + 1]
  /\ call' = [call EXCEPT ![d][c] =
       [step |-> step, asked |-> @.asked + 1, answer |-> answer,
        found |-> IF step = "answered" THEN MappedInOrder(answer) ELSE <<>>,
        heard |-> @.heard \union new]]
  /\ finished' = [finished EXCEPT ![d] = IF step = "waiting" THEN @ ELSE Append(@, c)]
  /\ UNCHANGED <<options, batch, doc, wave, carry, prompt>>

(* Mutant: a further pass replaces the answer. *)
AnswerReplaced(old, a) == a

Accumulated(old, a) == IF FoundNothing(a) THEN old ELSE Combine(old, a)

(* The model answers; it is asked again while passes remain and the last one
   found something. *)
Answer(d, c) ==
  \E a \in Answers(d, c) :
    LET k == call[d][c]
        more == k.asked < Gleanings /\ (k.asked = 0 \/ ~ FoundNothing(a))
    IN Return(d, c, IF more THEN "waiting" ELSE "answered", Accumulated(k.answer, a), Range(a.entities))

(* LlmProviderError: the chunk is lost, or only what gleaning would have
   added. *)
ProviderFails(d, c) ==
  Return(d, c, IF call[d][c].asked = 0 THEN "failed" ELSE "answered", call[d][c].answer, {})

(* Anything else is raised whatever skip_failed_chunks says. *)
Breaks(d, c) == Return(d, c, "broken", call[d][c].answer, {})

-----------------------------------------------------------------------------
(* extract and record *)

Part(d, c) ==
  IF call[d][c].step = "answered" THEN MapExtraction(call[d][c].answer) ELSE NoPart

Parts(d) == [c \in ChunksOf(d) |-> Part(d, c)]

(* Mutant: mentions are remembered as the calls return. *)
AsFinished(d) == finished[d]

(* The results of a wavefront come in chunk order. *)
InChunkOrder(d) == [i \in 1..Cardinality(Wavefront(d, wave[d])) |-> wave[d] + i - 1]

(* Carryover.remember: each mention once, where it was first found. *)
RememberAll(seen, mentions) ==
  Ext!FoldLeft(LAMBDA known, m : IF m \in Range(known) THEN known ELSE Append(known, m),
               seen, mentions)

(* ... for one result after another. *)
Remember(seen, results) ==
  LET known[n \in 0..Len(results)] ==
        IF n = 0 THEN seen ELSE RememberAll(known[n - 1], results[n])
  IN known[Len(results)]

Results(d, order) == [i \in 1..Len(order) |-> call[d][order[i]].found]

Steps(d) == {call[d][c].step : c \in Wavefront(d, wave[d])}

(* Mutant: the first failure ends the wavefront, with calls in flight. *)
WaveEndedEarly(d) ==
  Steps(d) \subseteq {"answered", "failed", "broken"} \/ "broken" \in Steps(d)

(* gather(return_exceptions=True) *)
WaveEnded(d) == Steps(d) \subseteq {"answered", "failed", "broken"}

WaveRaises(d) ==
  \/ "broken" \in Steps(d)
  \/ "failed" \in Steps(d) /\ ~ options.skip

NextWave(d) ==
  /\ doc[d] = "extracting" /\ WaveEnded(d) /\ ~ WaveRaises(d)
  /\ wave[d] + Concurrency \in ChunksOf(d)
  /\ LET seen == Remember(carry[d], Results(d, InChunkOrder(d))) IN
       /\ carry' = [carry EXCEPT ![d] = seen]
       /\ Launch(d, wave[d] + Concurrency, seen)
  /\ UNCHANGED <<options, batch, doc, free>>

FailedChunks(d) == {c \in ChunksOf(d) : call[d][c].step = "failed"}

(* The first exception of the wavefront, in chunk order. *)
RaiseChunkError(d) ==
  /\ doc[d] = "extracting" /\ WaveEnded(d) /\ WaveRaises(d)
  /\ doc' = [doc EXCEPT ![d] = "raised"]
  /\ UNCHANGED <<options, batch, wave, call, free, finished, carry, prompt>>

(* After the last wavefront, record(): PartialExtractionError unless every
   chunk succeeded or the caller allows it. *)
Record(d) ==
  /\ doc[d] = "extracting" /\ WaveEnded(d) /\ ~ WaveRaises(d)
  /\ wave[d] + Concurrency \notin ChunksOf(d)
  /\ doc' = [doc EXCEPT ![d] =
       IF FailedChunks(d) # {} /\ ~ options.partial THEN "raised" ELSE "recorded"]
  /\ UNCHANGED <<options, batch, wave, call, free, finished, carry, prompt>>

Step ==
  \/ EndBatch
  \/ \E d \in Docs :
       \/ \E c \in ChunksOf(d) :
            Acquire(d, c) \/ ProviderFails(d, c) \/ Breaks(d, c) \/ Answer(d, c)
       \/ StartDocument(d) \/ RaiseChunkError(d) \/ Record(d) \/ NextWave(d)

(* The caller gives up: gather cancels every document, and `async with`
   releases the slots of the calls in flight. *)
Cancel ==
  /\ batch = "running"
  /\ batch' = "cancelled"
  /\ doc' = [d \in Docs |-> IF doc[d] = "recorded" THEN "recorded" ELSE "raised"]
  /\ call' = [d \in Docs |-> [c \in ChunksOf(d) |->
       IF call[d][c].step \in {"waiting", "calling"}
       THEN [call[d][c] EXCEPT !.step = "broken"] ELSE call[d][c]]]
  /\ free' = [d \in Docs |-> Concurrency]
  /\ UNCHANGED <<options, wave, finished, carry, prompt>>

Next == Step \/ Cancel

(* Tasks are run and the provider answers or times out. *)
Spec == Init /\ [][Next]_vars /\ WF_vars(Step)

-----------------------------------------------------------------------------
(* Properties *)

InFlight(d) == {c \in ChunksOf(d) : call[d][c].step = "calling"}

(* A document that has ended has no call in flight, and its limiter has all
   its slots: a failed wavefront is waited for, a slot is never leaked
   (pipeline.py:462-468, limiter.py:44-55). *)
NothingLeftBehind ==
  \A d \in Docs : doc[d] \in {"recorded", "raised"} =>
    InFlight(d) = {} /\ free[d] = Concurrency

(* The recorded documents, once the call has ended. *)
Recorded == {d \in Docs : batch # "running" /\ doc[d] = "recorded"}

(* What any call about an answered chunk listed. *)
Listed(d) ==
  UNION {call[d][c].heard : c \in {k \in ChunksOf(d) : call[d][k].step = "answered"}}

(* A recorded document has every storable entity some answer listed, date
   nodes aside, at its highest rank, and no other; its edges join two
   different entities it has (mapping.py, merging.py, gleaning.py). *)
GraphFromAnswers ==
  \A d \in Recorded :
    LET listed == {c \in Listed(d) : c.name \notin Refused /\ ~ IsDateNode(c)}
        result == MergeExtractions(Parts(d))
        es == result.entities
    IN /\ DOMAIN es = {<<c.name, c.type>> : c \in listed}
       /\ \A c \in listed : es[IdOf(c)].rank >= c.rank
       /\ \A e \in result.edges : {e[1], e[2]} \subseteq DOMAIN es /\ e[1] # e[2]

(* Every passage of a recorded document is stored, once per text, and links
   what the chunks with that text found: every entity is found through as many
   passages as texts mention it, a skipped chunk's passage through none
   (corpus.py:62-143, pipeline.py:480-485). *)
PassagesLinkEntities ==
  \A d \in Recorded :
    LET parts == Parts(d)
        stored == StoredChunks(Texts[d], parts)
    IN /\ DOMAIN stored = Range(Texts[d])
       /\ \A c \in ChunksOf(d) : Ids(<<parts[c]>>) \subseteq stored[Texts[d][c]].links
       /\ \A id \in Ids(parts) :
            Cardinality({t \in DOMAIN stored : id \in stored[t].links}) \in 1..MentionCount(parts, id)

(* What is recorded of a document, its graph and its passages, is what some
   answer about it listed, and all of it. *)
RecordedFromAnswers == GraphFromAnswers /\ PassagesLinkEntities

(* The mentions of the chunks before the wavefront of chunk c. *)
MentionedBefore(d, c) ==
  LET last == ((c - 1) \div Concurrency) * Concurrency
  IN Remember(<<>>, Results(d, [i \in 1..last |-> i]))

(* A prompt lists what earlier wavefronts found, in chunk order: it does not
   depend on which call returned first (pipeline.py:486-502). *)
PromptsIgnoreTiming ==
  \A d \in Docs : \A c \in ChunksOf(d) :
    call[d][c].step # "idle" => prompt[d][c] = Mentions(MentionedBefore(d, c))

(* Unless the caller gives up, a batch that collects failures returns, with
   every document recorded or reported (batch.py:193-205). *)
BatchReturns ==
  options.continue =>
  <>(\/ batch = "cancelled"
     \/ batch = "returned" /\ \A d \in Docs : doc[d] \in {"recorded", "raised"})
=============================================================================
