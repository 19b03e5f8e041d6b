------------------------- MODULE DocumentRunsProofs -------------------------
(***************************************************************************)
(* What the runs over a document keep to, for any number of processes,     *)
(* models, splits, runs and rebuilds: nothing is recorded twice,           *)
(* retractions are exact, the corpus is one chunking, and a store nobody   *)
(* is in the middle of says what the stream says.                          *)
(*                                                                         *)
(* The first section reads a stream: what its first v events say.  The     *)
(* operators there take the stream as a parameter, so one lemma, that a    *)
(* stream says the same of its beginning after it has grown, carries what  *)
(* the invariants say from one state to the next.                          *)
(***************************************************************************)
EXTENDS DocumentRuns, Iteration, TLAPS

(* The events of a kind among the first v. *)
At(s, v, kind) == {i \in 1..v : s[i].type = kind}

LastIn(s, v) ==
  {x \in Entities : \E i \in At(s, v, "extracted") :
     x \in s[i].entities /\ At(s, v, "extracted") \subseteq 1..i}

EverIn(s, v) == {x \in Entities : \E i \in At(s, v, "extracted") : x \in s[i].entities}

(* What the first v events say each store holds. *)
GraphAt(s, v) ==
  [x \in Entities |-> IF x \in LastIn(s, v) THEN "live"
                      ELSE IF x \in EverIn(s, v) THEN "retracted" ELSE "none"]

HeldAt(s, v, p) ==
  {i \in At(s, v, "chunked") :
     \A j \in At(s, v, "chunked") : j >= i => p \in PassagesOf[s[j].split]}

RowAt(s, v, a, p, row) ==
  \/ HeldAt(s, v, p) = {} /\ row = NoRow
  \/ \E first, last \in HeldAt(s, v, p) :
       /\ \A j \in HeldAt(s, v, p) : first <= j /\ j <= last
       /\ row = [by |-> s[last].by,
                 vector |-> s[IF a = "postgres" THEN first ELSE last].vector]

CorpusIs(s, v, c) == \A a \in Adapters, p \in Passages : RowAt(s, v, a, p, c[a][p])

VectorsAt(s, v) == {x \in Entities : \E i \in At(s, v, "embedded") : x \in s[i].entities}

(* t begins with what s is. *)
Begins(s, t) ==
  s \in Seq(Event) /\ t \in Seq(Event) /\ Len(s) <= Len(t) /\ \A i \in 1..Len(s) : t[i] = s[i]

LEMMA EventFacts ==
  ASSUME NEW e \in Event
  PROVE  /\ e.type = "extracted" => e \in ExtractedEvent
         /\ e.type = "chunked" => e \in ChunkedEvent
         /\ e.type = "embedded" => e \in EmbeddedEvent
         /\ e.type \in {"extracted", "chunked", "embedded"}
BY DEF Event, ExtractedEvent, ChunkedEvent, EmbeddedEvent

(* A stream that has grown says the same of its beginning. *)
LEMMA AtPrefix ==
  ASSUME NEW s, NEW t, Begins(s, t), NEW v \in 0..Len(s), NEW kind
  PROVE  /\ At(t, v, kind) = At(s, v, kind)
         /\ \A i \in At(s, v, kind) : t[i] = s[i] /\ i \in 1..v
<1>1. \A i \in 1..v : i \in 1..Len(s) BY DEF Begins
<1> QED BY <1>1 DEF At, Begins

LEMMA SaysTheSame ==
  ASSUME NEW s, NEW t, Begins(s, t), NEW v \in 0..Len(s)
  PROVE  /\ LastIn(t, v) = LastIn(s, v) /\ EverIn(t, v) = EverIn(s, v)
         /\ GraphAt(t, v) = GraphAt(s, v) /\ VectorsAt(t, v) = VectorsAt(s, v)
<1>1. At(t, v, "extracted") = At(s, v, "extracted") /\ \A i \in At(s, v, "extracted") : t[i] = s[i]
  BY AtPrefix
<1>2. At(t, v, "embedded") = At(s, v, "embedded") /\ \A i \in At(s, v, "embedded") : t[i] = s[i]
  BY AtPrefix
<1>3. LastIn(t, v) = LastIn(s, v) /\ EverIn(t, v) = EverIn(s, v)
  BY <1>1 DEF LastIn, EverIn
<1>4. VectorsAt(t, v) = VectorsAt(s, v) BY <1>2 DEF VectorsAt
<1> QED BY <1>3, <1>4 DEF GraphAt

LEMMA CorpusSaysTheSame ==
  ASSUME NEW s, NEW t, Begins(s, t), NEW v \in 0..Len(s), NEW c, CorpusIs(s, v, c)
  PROVE  CorpusIs(t, v, c)
<1>1. At(t, v, "chunked") = At(s, v, "chunked") /\ \A i \in At(s, v, "chunked") : t[i] = s[i]
  BY AtPrefix
<1>2. \A p : HeldAt(t, v, p) = HeldAt(s, v, p) BY <1>1 DEF HeldAt
<1>3. \A p : \A i \in HeldAt(s, v, p) : t[i] = s[i] BY <1>1 DEF HeldAt
<1> SUFFICES ASSUME NEW a \in Adapters, NEW p \in Passages
             PROVE  RowAt(t, v, a, p, c[a][p])
  BY DEF CorpusIs
<1>4. RowAt(s, v, a, p, c[a][p]) BY DEF CorpusIs
<1>5. CASE HeldAt(s, v, p) = {} BY <1>2, <1>4, <1>5 DEF RowAt
<1>6. CASE HeldAt(s, v, p) # {}
  <2>1. PICK first \in HeldAt(s, v, p), last \in HeldAt(s, v, p) :
          /\ \A j \in HeldAt(s, v, p) : first <= j /\ j <= last
          /\ c[a][p] = [by |-> s[last].by,
                        vector |-> s[IF a = "postgres" THEN first ELSE last].vector]
    BY <1>4, <1>6 DEF RowAt
  <2>2. s[last].by = t[last].by
        /\ s[IF a = "postgres" THEN first ELSE last] = t[IF a = "postgres" THEN first ELSE last]
    BY <1>3
  <2> QED BY <1>2, <2>1, <2>2 DEF RowAt
<1> QED BY <1>5, <1>6

(* The event after the first v is of its kind or it is not. *)
LEMMA AtNext ==
  ASSUME NEW s, NEW v \in Nat, NEW kind
  PROVE  /\ At(s, v + 1, kind) = IF s[v + 1].type = kind THEN At(s, v, kind) \union {v + 1}
                                 ELSE At(s, v, kind)
         /\ \A i \in At(s, v, kind) : i \in Int /\ i <= v /\ ~ (i >= v + 1) /\ i # v + 1
BY DEF At

(* Where no event of the kind is, what it says does not change. *)
LEMMA GraphUntouched ==
  ASSUME NEW s, NEW v, NEW u, At(s, v, "extracted") = At(s, u, "extracted")
  PROVE  GraphAt(s, v) = GraphAt(s, u) /\ LastIn(s, v) = LastIn(s, u)
BY DEF GraphAt, LastIn, EverIn

LEMMA VectorsUntouched ==
  ASSUME NEW s, NEW v, NEW u, At(s, v, "embedded") = At(s, u, "embedded")
  PROVE  VectorsAt(s, v) = VectorsAt(s, u)
BY DEF VectorsAt

LEMMA CorpusUntouched ==
  ASSUME NEW s, NEW v, NEW u, At(s, v, "chunked") = At(s, u, "chunked"), NEW c, CorpusIs(s, v, c)
  PROVE  CorpusIs(s, u, c)
<1>1. \A p : HeldAt(s, u, p) = HeldAt(s, v, p) BY DEF HeldAt
<1> QED BY <1>1 DEF CorpusIs, RowAt

(* An extraction, projected. *)
LEMMA GraphStep ==
  ASSUME NEW s \in Seq(Event), NEW v \in Nat, v + 1 \in 1..Len(s), s[v + 1].type = "extracted",
         s[v + 1].retracted = LastIn(s, v) \ s[v + 1].entities
  PROVE  WithRetractions(WithRows(GraphAt(s, v), s[v + 1]), s[v + 1]) = GraphAt(s, v + 1)
<1> DEFINE e == s[v + 1]
<1>1. /\ At(s, v + 1, "extracted") = At(s, v, "extracted") \union {v + 1}
      /\ \A i \in At(s, v, "extracted") : i \in Int /\ i <= v
  BY AtNext
<1>2. LastIn(s, v + 1) = {x \in Entities : x \in e.entities}
  <2>1. \A i \in At(s, v, "extracted") : v + 1 \notin 1..i BY <1>1
  <2>2. At(s, v + 1, "extracted") \subseteq 1..(v + 1) BY DEF At
  <2> QED BY <1>1, <2>1, <2>2 DEF LastIn
<1>3. EverIn(s, v + 1) = EverIn(s, v) \union {x \in Entities : x \in e.entities}
  BY <1>1 DEF EverIn
<1>4. LastIn(s, v) \subseteq EverIn(s, v) BY DEF LastIn, EverIn
<1>5. e.retracted = LastIn(s, v) \ e.entities OBVIOUS
<1> HIDE DEF e
<1> DEFINE g == GraphAt(s, v)
           h == WithRows(g, e)
<1>6. \A x \in Entities : g[x] = IF x \in LastIn(s, v) THEN "live"
                                ELSE IF x \in EverIn(s, v) THEN "retracted" ELSE "none"
  BY DEF GraphAt
<1>7. \A x \in Entities : h[x] = IF x \in e.entities THEN "live" ELSE g[x]
  BY DEF WithRows
<1>8. \A x \in Entities : x \in LastIn(s, v + 1) <=> x \in e.entities BY <1>2
<1> HIDE DEF g, h
<1>9. \A x \in Entities :
        (IF x \in e.retracted /\ h[x] # "none" THEN "retracted" ELSE h[x])
          = IF x \in LastIn(s, v + 1) THEN "live"
            ELSE IF x \in EverIn(s, v + 1) THEN "retracted" ELSE "none"
  BY <1>3, <1>4, <1>5, <1>6, <1>7, <1>8
<1>10. WithRetractions(h, e) = GraphAt(s, v + 1) BY <1>9 DEF WithRetractions, GraphAt
<1> QED BY <1>10 DEF g, h, e

(* A chunking, projected. *)
LEMMA CorpusStep ==
  ASSUME NEW s \in Seq(Event), NEW v \in Nat, v + 1 \in 1..Len(s), s[v + 1].type = "chunked",
         NEW c, CorpusIs(s, v, c)
  PROVE  CorpusIs(s, v + 1, ReplaceSource(c, s[v + 1]))
<1> DEFINE e == s[v + 1]
<1>1. /\ At(s, v + 1, "chunked") = At(s, v, "chunked") \union {v + 1}
      /\ \A i \in At(s, v, "chunked") : i \in Int /\ i <= v /\ ~ (i >= v + 1) /\ i # v + 1
  BY AtNext
<1> SUFFICES ASSUME NEW a \in Adapters, NEW p \in Passages
             PROVE  RowAt(s, v + 1, a, p, ReplaceSource(c, e)[a][p])
  BY DEF CorpusIs
<1>2. ReplaceSource(c, e)[a][p] =
        IF p \notin PassagesOf[e.split] THEN NoRow
        ELSE [by |-> e.by, vector |-> IF a = "postgres" /\ c[a][p] # NoRow
                                      THEN c[a][p].vector ELSE e.vector]
  BY DEF ReplaceSource
<1>3. CASE p \notin PassagesOf[e.split]
  <2>1. \A i \in At(s, v + 1, "chunked") : i <= v + 1 /\ v + 1 >= i BY <1>1
  <2>2. v + 1 \in At(s, v + 1, "chunked") BY <1>1
  <2>3. HeldAt(s, v + 1, p) = {} BY <1>3, <2>1, <2>2 DEF HeldAt
  <2> QED BY <1>2, <1>3, <2>3 DEF RowAt
<1>4. CASE p \in PassagesOf[e.split]
  <2>1. HeldAt(s, v + 1, p) = HeldAt(s, v, p) \union {v + 1}
    BY <1>1, <1>4 DEF HeldAt
  <2>2. RowAt(s, v, a, p, c[a][p]) BY DEF CorpusIs
  <2>3. CASE HeldAt(s, v, p) = {}
    <3>1. c[a][p] = NoRow BY <2>2, <2>3 DEF RowAt
    <3>2. ReplaceSource(c, e)[a][p] = [by |-> e.by, vector |-> e.vector]
      BY <1>2, <1>4, <3>1
    <3>3. HeldAt(s, v + 1, p) = {v + 1} BY <2>1, <2>3
    <3>4. ReplaceSource(c, e)[a][p]
            = [by |-> s[v + 1].by,
               vector |-> s[IF a = "postgres" THEN v + 1 ELSE v + 1].vector]
      BY <3>2
    <3>5. v + 1 \in HeldAt(s, v + 1, p) /\ \A j \in HeldAt(s, v + 1, p) : v + 1 <= j /\ j <= v + 1
      BY <3>3
    <3> QED BY <3>4, <3>5 DEF RowAt
  <2>4. CASE HeldAt(s, v, p) # {}
    <3>1. PICK first \in HeldAt(s, v, p), last \in HeldAt(s, v, p) :
            /\ \A j \in HeldAt(s, v, p) : first <= j /\ j <= last
            /\ c[a][p] = [by |-> s[last].by,
                          vector |-> s[IF a = "postgres" THEN first ELSE last].vector]
      BY <2>2, <2>4 DEF RowAt
    <3>2. first \in Int /\ first <= v /\ \A j \in HeldAt(s, v, p) : j \in Int /\ j <= v
      BY <1>1 DEF HeldAt
    <3>3. \A j \in HeldAt(s, v + 1, p) : first <= j /\ j <= v + 1
      BY <2>1, <3>1, <3>2
    <3>4. first \in 1..v /\ last \in 1..v /\ s[first].type = "chunked" /\ s[last].type = "chunked"
      BY DEF HeldAt, At
    <3>5. s[first] \in ChunkedEvent /\ s[last] \in ChunkedEvent
      BY <3>4, EventFacts
    <3>6. c[a][p] # NoRow
      <4>1. c[a][p] \in PassageRow BY <3>1, <3>5 DEF PassageRow, ChunkedEvent
      <4> QED BY <4>1, NoRowAssumption
    <3>7. ReplaceSource(c, e)[a][p]
            = [by |-> e.by, vector |-> s[IF a = "postgres" THEN first ELSE v + 1].vector]
      BY <1>2, <1>4, <3>1, <3>6
    <3>8. first \in HeldAt(s, v + 1, p) /\ v + 1 \in HeldAt(s, v + 1, p) BY <2>1
    <3> QED BY <3>3, <3>7, <3>8 DEF RowAt
  <2> QED BY <2>3, <2>4
<1> QED BY <1>3, <1>4

(* Vectors, projected. *)
LEMMA VectorsStep ==
  ASSUME NEW s \in Seq(Event), NEW v \in Nat, v + 1 \in 1..Len(s), s[v + 1].type = "embedded"
  PROVE  VectorsAt(s, v) \union s[v + 1].entities = VectorsAt(s, v + 1)
<1>1. At(s, v + 1, "embedded") = At(s, v, "embedded") \union {v + 1} BY AtNext
<1>2. s[v + 1].entities \subseteq Entities BY EventFacts DEF EmbeddedEvent
<1> QED BY <1>1, <1>2 DEF VectorsAt

(* Nothing is said by no events. *)
LEMMA NothingSaid ==
  ASSUME NEW s
  PROVE  /\ \A kind : At(s, 0, kind) = {}
         /\ GraphAt(s, 0) = [x \in Entities |-> "none"]
         /\ CorpusIs(s, 0, EmptyCorpus) /\ VectorsAt(s, 0) = {}
<1>1. \A kind : At(s, 0, kind) = {} BY DEF At
<1>2. GraphAt(s, 0) = [x \in Entities |-> "none"] BY <1>1 DEF GraphAt, LastIn, EverIn
<1>3. \A p : HeldAt(s, 0, p) = {} BY <1>1 DEF HeldAt
<1>4. CorpusIs(s, 0, EmptyCorpus) BY <1>3 DEF CorpusIs, RowAt, EmptyCorpus
<1>5. VectorsAt(s, 0) = {} BY <1>1 DEF VectorsAt
<1> QED BY <1>1, <1>2, <1>4, <1>5

-----------------------------------------------------------------------------
(* What every run keeps to *)

Fields == {"phase", "by", "split", "embeds", "version", "events"}

Working == {"corpus", "rows", "retract", "embed", "vectors", "persist"}

LastOf(es) == es[Len(es)]

InStream(e, s, kind) == \E i \in At(s, Len(s), kind) : s[i] = e

(* What a run is about to append is new to the first v events, which it read. *)
Fresh(es, s, v) ==
  /\ Len(es) \in {1, 2}
  /\ Len(es) = 2 => es[1].type = "extracted" /\ es[2].type = "chunked"
  /\ \A n \in 1..Len(es) :
       /\ es[n].type \in {"extracted", "chunked"}
       /\ es[n].type = "extracted" =>
            /\ n = 1 /\ es[n].retracted = LastIn(s, v) \ es[n].entities
            /\ \A i \in At(s, v, "extracted") : s[i].model # es[n].model
       /\ es[n].type = "chunked" =>
            \A i \in At(s, v, "chunked") : ~ (s[i].split = es[n].split /\ s[i].by = es[n].by)

(* A run writes to a store what is in the stream, except vectors, of which
   there were none in the stream it read. *)
RunOK(r, s) ==
  /\ DOMAIN r = Fields
  /\ r.phase \in Phases
  /\ r.phase # "idle" =>
       /\ r.by \in Writers /\ r.split \in Splits /\ r.embeds \in BOOLEAN
       /\ r.version \in 0..Len(s) /\ r.events \in Seq(Event)
  /\ r.phase = "save" => Fresh(r.events, s, r.version)
  /\ r.phase \in Working => r.events # <<>>
  /\ r.phase = "corpus" => InStream(LastOf(r.events), s, "chunked")
  /\ "graph" \in Owes(r) => InStream(r.events[1], s, "extracted")
  /\ r.phase \in {"rows", "retract", "embed"} => r.events[1].type = "extracted"
  /\ r.phase \in {"vectors", "persist"} =>
       LastOf(r.events).type = "embedded" /\ At(s, r.version, "embedded") = {}

RunsInv == DOMAIN run = Workers /\ \A w \in Workers : RunOK(run[w], stream)

(* One per key, and the retractions of each extraction. *)
Once(s) ==
  /\ \A i, j \in At(s, Len(s), "extracted") : s[i].model = s[j].model => i = j
  /\ \A i, j \in At(s, Len(s), "chunked") : s[i].split = s[j].split /\ s[i].by = s[j].by => i = j
  /\ \A i, j \in At(s, Len(s), "embedded") : i = j

Exact(s) ==
  \A j \in At(s, Len(s), "extracted") : s[j].retracted = LastIn(s, j - 1) \ s[j].entities

StreamInv == stream \in Seq(Event) /\ Once(stream) /\ Exact(stream)

(* A run is right about a stream that has grown. *)
LEMMA RunOutlivesGrowth ==
  ASSUME NEW s, NEW t, Begins(s, t), NEW r, RunOK(r, s)
  PROVE  RunOK(r, t)
<1>1. Len(s) \in Nat /\ Len(t) \in Nat /\ Len(s) <= Len(t) BY DEF Begins
<1>2. \A v \in 0..Len(s), kind \in {"extracted", "chunked", "embedded"} :
        At(t, v, kind) = At(s, v, kind) /\ \A i \in At(s, v, kind) : t[i] = s[i]
  BY AtPrefix
<1>3. \A v \in 0..Len(s) : LastIn(t, v) = LastIn(s, v) BY SaysTheSame
<1>4. \A e, kind : InStream(e, s, kind) => InStream(e, t, kind)
  BY <1>1 DEF InStream, At, Begins
<1>5. \A v \in 0..Len(s) : \A es : Fresh(es, s, v) => Fresh(es, t, v)
  BY <1>2, <1>3 DEF Fresh
<1>6. r.phase # "idle" => r.version \in 0..Len(s) /\ r.version \in 0..Len(t)
  BY <1>1 DEF RunOK
<1>7. r.phase = "save" => Fresh(r.events, t, r.version) BY <1>5, <1>6 DEF RunOK
<1>8. r.phase \in {"vectors", "persist"} => At(t, r.version, "embedded") = {}
  BY <1>2, <1>6 DEF RunOK
<1> QED BY <1>4, <1>6, <1>7, <1>8 DEF RunOK

LEMMA Becoming ==
  ASSUME NEW w \in Workers, NEW r, DOMAIN run = Workers, Become(w, r)
  PROVE  /\ DOMAIN run' = Workers /\ run'[w] = r
         /\ \A v \in Workers \ {w} : run'[v] = run[v]
BY Zenon DEF Become

(* One worker's run moves on. *)
LEMMA RunsMove ==
  ASSUME RunsInv, NEW w \in Workers, NEW r, Become(w, r), Begins(stream, stream'),
         RunOK(r, stream')
  PROVE  RunsInv'
<1>1. /\ DOMAIN run' = Workers /\ run'[w] = r
      /\ \A v \in Workers \ {w} : run'[v] = run[v]
  BY Becoming DEF RunsInv
<1>2. \A v \in Workers : RunOK(run[v], stream') BY RunOutlivesGrowth DEF RunsInv
<1>3. \A v \in Workers : RunOK(run'[v], stream')
  <2> SUFFICES ASSUME NEW v \in Workers PROVE RunOK(run'[v], stream') OBVIOUS
  <2>1. CASE v = w BY <1>1, <2>1
  <2>2. CASE v # w BY <1>1, <1>2, <2>2
  <2> QED BY <2>1, <2>2
<1> QED BY <1>1, <1>3 DEF RunsInv

LEMMA IdleOK == ASSUME NEW s PROVE RunOK(Idle, s)
BY DEF RunOK, Idle, Fields, Phases, Working, Owes, Stores

-----------------------------------------------------------------------------
(* The stream *)

LEMMA SameStream == ASSUME NEW s \in Seq(Event) PROVE Begins(s, s)
BY DEF Begins

LEMMA Grown ==
  ASSUME NEW s \in Seq(Event), NEW es \in Seq(Event)
  PROVE  /\ Begins(s, s \o es) /\ Len(s \o es) = Len(s) + Len(es)
         /\ \A n \in 1..Len(es) : (s \o es)[Len(s) + n] = es[n]
         /\ \A kind : At(s \o es, Len(s \o es), kind)
              = At(s, Len(s), kind) \union {Len(s) + n : n \in {m \in 1..Len(es) : es[m].type = kind}}
<1> DEFINE t == s \o es
<1>1. /\ t \in Seq(Event) /\ Len(t) = Len(s) + Len(es)
      /\ \A i \in 1..Len(s) : t[i] = s[i]
      /\ \A n \in 1..Len(es) : t[Len(s) + n] = es[n]
      /\ Len(s) \in Nat /\ Len(es) \in Nat
  OBVIOUS
<1> HIDE DEF t
<1>2. ASSUME NEW kind
      PROVE  At(t, Len(t), kind)
               = At(s, Len(s), kind) \union {Len(s) + n : n \in {m \in 1..Len(es) : es[m].type = kind}}
  <2>1. \A i \in 1..Len(t) : i \in 1..Len(s) \/ \E n \in 1..Len(es) : i = Len(s) + n
    <3> SUFFICES ASSUME NEW i \in 1..Len(t), ~ (i \in 1..Len(s))
                 PROVE  \E n \in 1..Len(es) : i = Len(s) + n
      OBVIOUS
    <3>1. i - Len(s) \in 1..Len(es) /\ i = Len(s) + (i - Len(s)) BY <1>1
    <3> QED BY <3>1
  <2>2. \A i \in 1..Len(s) : i \in 1..Len(t) BY <1>1
  <2>3. \A n \in 1..Len(es) : Len(s) + n \in 1..Len(t) BY <1>1
  <2> QED BY <1>1, <2>1, <2>2, <2>3 DEF At
<1>3. Begins(s, t) BY <1>1 DEF Begins
<1> QED BY <1>1, <1>2, <1>3 DEF t

(* What is new is recorded once, and its retractions are exact. *)
LEMMA StreamSaves ==
  ASSUME NEW s \in Seq(Event), Once(s), Exact(s), NEW es \in Seq(Event), Fresh(es, s, Len(s))
  PROVE  s \o es \in Seq(Event) /\ Once(s \o es) /\ Exact(s \o es)
<1> DEFINE t == s \o es
<1>1. /\ Begins(s, t) /\ Len(t) = Len(s) + Len(es)
      /\ \A n \in 1..Len(es) : t[Len(s) + n] = es[n]
      /\ \A kind : At(t, Len(t), kind)
           = At(s, Len(s), kind) \union {Len(s) + n : n \in {m \in 1..Len(es) : es[m].type = kind}}
  BY Grown
<1>2. t \in Seq(Event) /\ Len(s) \in Nat OBVIOUS
<1> HIDE DEF t
<1>3. \A kind : \A i \in At(s, Len(s), kind) : i \in 1..Len(s) /\ t[i] = s[i]
  BY <1>1 DEF At, Begins
<1>4. /\ Len(es) \in {1, 2}
      /\ \A m, n \in 1..Len(es) : es[m].type = es[n].type => m = n
      /\ \A n \in 1..Len(es) : es[n].type # "embedded"
  BY DEF Fresh
<1>5. ASSUME NEW i \in At(t, Len(t), "extracted"), NEW j \in At(t, Len(t), "extracted"),
             t[i].model = t[j].model
      PROVE  i = j
  <2>1. ASSUME NEW a \in At(s, Len(s), "extracted"), NEW n \in 1..Len(es), es[n].type = "extracted"
        PROVE  t[a].model # t[Len(s) + n].model
    BY <1>1, <1>3, <2>1 DEF Fresh
  <2>2. CASE i \in At(s, Len(s), "extracted") /\ j \in At(s, Len(s), "extracted")
    BY <1>3, <1>5, <2>2 DEF Once
  <2>3. CASE i \notin At(s, Len(s), "extracted") /\ j \notin At(s, Len(s), "extracted")
    <3>1. PICK m \in 1..Len(es) : es[m].type = "extracted" /\ i = Len(s) + m BY <1>1, <2>3
    <3>2. PICK n \in 1..Len(es) : es[n].type = "extracted" /\ j = Len(s) + n BY <1>1, <2>3
    <3>3. m = n BY <1>4, <3>1, <3>2
    <3> QED BY <3>1, <3>2, <3>3
  <2>4. CASE (i \in At(s, Len(s), "extracted")) # (j \in At(s, Len(s), "extracted"))
    BY <1>1, <1>5, <2>1, <2>4
  <2> QED BY <2>2, <2>3, <2>4
<1>6. ASSUME NEW i \in At(t, Len(t), "chunked"), NEW j \in At(t, Len(t), "chunked"),
             t[i].split = t[j].split, t[i].by = t[j].by
      PROVE  i = j
  <2>1. ASSUME NEW a \in At(s, Len(s), "chunked"), NEW n \in 1..Len(es), es[n].type = "chunked"
        PROVE  ~ (t[a].split = t[Len(s) + n].split /\ t[a].by = t[Len(s) + n].by)
    BY <1>1, <1>3, <2>1 DEF Fresh
  <2>2. CASE i \in At(s, Len(s), "chunked") /\ j \in At(s, Len(s), "chunked")
    BY <1>3, <1>6, <2>2 DEF Once
  <2>3. CASE i \notin At(s, Len(s), "chunked") /\ j \notin At(s, Len(s), "chunked")
    <3>1. PICK m \in 1..Len(es) : es[m].type = "chunked" /\ i = Len(s) + m BY <1>1, <2>3
    <3>2. PICK n \in 1..Len(es) : es[n].type = "chunked" /\ j = Len(s) + n BY <1>1, <2>3
    <3>3. m = n BY <1>4, <3>1, <3>2
    <3> QED BY <3>1, <3>2, <3>3
  <2>4. CASE (i \in At(s, Len(s), "chunked")) # (j \in At(s, Len(s), "chunked"))
    BY <1>1, <1>6, <2>1, <2>4
  <2> QED BY <2>2, <2>3, <2>4
<1>7. \A i, j \in At(t, Len(t), "embedded") : i = j BY <1>1, <1>4 DEF Once
<1>8. ASSUME NEW j \in At(t, Len(t), "extracted")
      PROVE  t[j].retracted = LastIn(t, j - 1) \ t[j].entities
  <2>1. CASE j \in At(s, Len(s), "extracted")
    <3>1. j - 1 \in 0..Len(s) BY <1>3, <2>1
    <3>2. LastIn(t, j - 1) = LastIn(s, j - 1) BY <1>1, <3>1, SaysTheSame
    <3> QED BY <1>3, <2>1, <3>2 DEF Exact
  <2>2. CASE j \notin At(s, Len(s), "extracted")
    <3>1. PICK n \in 1..Len(es) : j = Len(s) + n /\ es[n].type = "extracted"
      BY <1>1, <2>2
    <3>2. n = 1 /\ es[n].retracted = LastIn(s, Len(s)) \ es[n].entities
      BY <3>1 DEF Fresh
    <3>3. j - 1 = Len(s) /\ Len(s) \in 0..Len(s) BY <1>2, <3>1, <3>2
    <3>4. LastIn(t, j - 1) = LastIn(s, Len(s)) BY <1>1, <3>3, SaysTheSame
    <3> QED BY <1>1, <3>1, <3>2, <3>4
  <2> QED BY <2>1, <2>2
<1>9. Once(t) BY <1>5, <1>6, <1>7 DEF Once
<1>10. Exact(t) BY <1>8 DEF Exact
<1> QED BY <1>2, <1>9, <1>10 DEF t

LEMMA StreamPersists ==
  ASSUME NEW s \in Seq(Event), Once(s), Exact(s), NEW e \in Event, e.type = "embedded",
         At(s, Len(s), "embedded") = {}
  PROVE  /\ Append(s, e) \in Seq(Event) /\ Once(Append(s, e)) /\ Exact(Append(s, e))
         /\ Begins(s, Append(s, e)) /\ Len(Append(s, e)) = Len(s) + 1
         /\ Append(s, e)[Len(s) + 1] = e
         /\ \A kind \in {"extracted", "chunked"} :
              At(Append(s, e), Len(Append(s, e)), kind) = At(s, Len(s), kind)
<1> DEFINE t == Append(s, e)
           es == <<e>>
<1>1. t = s \o es /\ es \in Seq(Event) /\ Len(es) = 1 /\ es[1] = e OBVIOUS
<1> HIDE DEF t, es
<1>2. /\ Begins(s, t) /\ Len(t) = Len(s) + 1 /\ t[Len(s) + 1] = e
      /\ \A kind : At(t, Len(t), kind)
           = At(s, Len(s), kind) \union {Len(s) + n : n \in {m \in 1..Len(es) : es[m].type = kind}}
  <2>1. /\ Begins(s, t) /\ Len(t) = Len(s) + Len(es)
        /\ \A n \in 1..Len(es) : t[Len(s) + n] = es[n]
        /\ \A kind : At(t, Len(t), kind)
             = At(s, Len(s), kind) \union {Len(s) + n : n \in {m \in 1..Len(es) : es[m].type = kind}}
    BY <1>1, Grown, Zenon
  <2> QED BY <1>1, <2>1
<1>3. /\ At(t, Len(t), "extracted") = At(s, Len(s), "extracted")
      /\ At(t, Len(t), "chunked") = At(s, Len(s), "chunked")
      /\ At(t, Len(t), "embedded") = {Len(s) + 1}
  <2>1. \A kind : {m \in 1..Len(es) : es[m].type = kind} = IF kind = "embedded" THEN {1} ELSE {}
    BY <1>1
  <2>2. /\ {Len(s) + n : n \in {m \in 1..Len(es) : es[m].type = "extracted"}} = {}
        /\ {Len(s) + n : n \in {m \in 1..Len(es) : es[m].type = "chunked"}} = {}
        /\ {Len(s) + n : n \in {m \in 1..Len(es) : es[m].type = "embedded"}} = {Len(s) + 1}
    <3>1. /\ {Len(s) + n : n \in {}} = {} /\ {Len(s) + n : n \in {1}} = {Len(s) + 1} OBVIOUS
    <3>2. /\ {m \in 1..Len(es) : es[m].type = "extracted"} = {}
          /\ {m \in 1..Len(es) : es[m].type = "chunked"} = {}
          /\ {m \in 1..Len(es) : es[m].type = "embedded"} = {1}
      BY <2>1
    <3> QED BY <3>1, <3>2, Zenon
  <2> QED BY <1>2, <2>2
<1>4. \A kind : \A i \in At(s, Len(s), kind) : i \in 1..Len(s) /\ t[i] = s[i]
  BY <1>2 DEF At, Begins
<1>5. Once(t) BY <1>3, <1>4 DEF Once
<1>6. Exact(t)
  <2> SUFFICES ASSUME NEW j \in At(s, Len(s), "extracted")
               PROVE  t[j].retracted = LastIn(t, j - 1) \ t[j].entities
    BY <1>3 DEF Exact
  <2>1. j - 1 \in 0..Len(s) BY <1>4
  <2>2. LastIn(t, j - 1) = LastIn(s, j - 1) BY <1>2, <2>1, SaysTheSame
  <2> QED BY <1>4, <2>2 DEF Exact
<1>7. t \in Seq(Event) BY <1>2 DEF Begins
<1> QED BY <1>2, <1>3, <1>5, <1>6, <1>7 DEF t

(* The aggregate's answers, as the lemmas above put them. *)
LEMMA LastFound ==
  ASSUME stream \in Seq(Event), NEW v \in 0..Len(stream)
  PROVE  LastExtracted(v) = LastIn(stream, v)
<1> DEFINE X == At(stream, v, "extracted")
<1>1. Extracted(v) = X BY DEF Extracted, At
<1>2. X \in SUBSET Nat /\ v \in Nat /\ \A i \in X : i <= v BY DEF At
<1>3. CASE X = {} BY <1>1, <1>3 DEF LastExtracted, LastIn
<1>4. CASE X # {}
  <2>1. \E m \in X : \A n \in X : n <= m
    <3> HIDE DEF X
    <3> QED BY <1>2, <1>4, GreatestNatural
  <2>2. PICK m : m = Latest(X) OBVIOUS
  <2>3. m \in X /\ \A n \in X : n <= m
    <3> HIDE DEF X
    <3> QED BY <2>1, <2>2 DEF Latest
  <2>4. \A i \in X : X \subseteq 1..i <=> i = m
    BY <2>3 DEF At
  <2>5. LastExtracted(v) = stream[m].entities
    BY <1>1, <1>4, <2>2 DEF LastExtracted
  <2>6. stream[m].entities \subseteq Entities
    BY <2>3, EventFacts DEF At, ExtractedEvent
  <2> QED BY <2>3, <2>4, <2>5, <2>6 DEF LastIn
<1> QED BY <1>3, <1>4

(* An extraction that is new, a chunking that is new, or both. *)
LEMMA BothFresh ==
  ASSUME NEW s, NEW v, NEW k \in Seq(Event), NEW l \in Seq(Event),
         Len(k) \in {0, 1}, Len(l) \in {0, 1}, Len(k) + Len(l) # 0,
         Len(k) = 1 => /\ k[1].type = "extracted"
                       /\ k[1].retracted = LastIn(s, v) \ k[1].entities
                       /\ \A i \in At(s, v, "extracted") : s[i].model # k[1].model,
         Len(l) = 1 => /\ l[1].type = "chunked"
                       /\ \A i \in At(s, v, "chunked") :
                            ~ (s[i].split = l[1].split /\ s[i].by = l[1].by)
  PROVE  k \o l \in Seq(Event) /\ Fresh(k \o l, s, v)
<1>1. PICK es : es = k \o l OBVIOUS
<1>2. es \in Seq(Event) /\ Len(es) = Len(k) + Len(l) BY <1>1
<1>3. /\ Len(k) = 1 => es[1] = k[1]
      /\ Len(l) = 1 => es[Len(k) + 1] = l[1]
  BY <1>1
<1>4. CASE Len(k) = 1 /\ Len(l) = 0
  <2>1. Len(es) = 1 /\ 1..Len(es) = {1} BY <1>2, <1>4
  <2> QED BY <1>1, <1>2, <1>3, <1>4, <2>1 DEF Fresh
<1>5. CASE Len(k) = 0 /\ Len(l) = 1
  <2>1. Len(es) = 1 /\ 1..Len(es) = {1} BY <1>2, <1>5
  <2> QED BY <1>1, <1>2, <1>3, <1>5, <2>1 DEF Fresh
<1>6. CASE Len(k) = 1 /\ Len(l) = 1
  <2>1. Len(es) = 2 /\ 1..Len(es) = {1, 2} BY <1>2, <1>6
  <2> QED BY <1>1, <1>2, <1>3, <1>6, <2>1 DEF Fresh
<1> QED BY <1>4, <1>5, <1>6

LEMMA ExtractionFresh ==
  ASSUME stream \in Seq(Event), NEW v \in 0..Len(stream), NEW model \in Models,
         NEW found \in SUBSET Entities
  PROVE  LET k == ExtractionEvents(v, model, found) IN
         /\ k \in Seq(Event) /\ Len(k) \in {0, 1}
         /\ Len(k) = 1 => /\ k[1].type = "extracted"
                          /\ k[1].retracted = LastIn(stream, v) \ k[1].entities
                          /\ \A i \in At(stream, v, "extracted") : stream[i].model # k[1].model
<1> DEFINE x == [type |-> "extracted", model |-> model, entities |-> found,
                 retracted |-> LastIn(stream, v) \ found]
           k == ExtractionEvents(v, model, found)
<1>1. x \in Event
  <2>1. LastIn(stream, v) \in SUBSET Entities BY DEF LastIn
  <2> QED BY <2>1 DEF Event, ExtractedEvent
<1>2. CASE ExtractionRepeated(v, model)
  <2>1. k = <<>> BY <1>2 DEF ExtractionEvents
  <2>2. <<>> \in Seq(Event) /\ Len(<<>>) = 0 OBVIOUS
  <2> HIDE DEF x
  <2> QED BY <2>1, <2>2
<1>3. CASE ~ ExtractionRepeated(v, model)
  <2>1. k = <<x>> BY <1>3, LastFound DEF ExtractionEvents
  <2>2. \A i \in At(stream, v, "extracted") : stream[i].model # x.model
    BY <1>3 DEF ExtractionRepeated, Extracted, At
  <2>3. x.type = "extracted" /\ x.retracted = LastIn(stream, v) \ x.entities OBVIOUS
  <2> HIDE DEF x
  <2>4. <<x>> \in Seq(Event) /\ Len(<<x>>) = 1 /\ <<x>>[1] = x BY <1>1
  <2> QED BY <2>1, <2>2, <2>3, <2>4
<1> QED BY <1>2, <1>3

LEMMA ChunkingFresh ==
  ASSUME stream \in Seq(Event), NEW v \in 0..Len(stream), NEW by \in Writers,
         NEW split \in Splits, NEW vector \in BOOLEAN
  PROVE  LET l == ChunkingEvents(v, split, by, vector) IN
         /\ l \in Seq(Event) /\ Len(l) \in {0, 1}
         /\ Len(l) = 1 => /\ l[1].type = "chunked"
                          /\ \A i \in At(stream, v, "chunked") :
                               ~ (stream[i].split = l[1].split /\ stream[i].by = l[1].by)
<1> DEFINE c == [type |-> "chunked", split |-> split, by |-> by, vector |-> vector]
           l == ChunkingEvents(v, split, by, vector)
<1>1. c \in Event BY DEF Event, ChunkedEvent
<1>2. CASE ChunkingRepeated(v, split, by)
  <2>1. l = <<>> BY <1>2 DEF ChunkingEvents
  <2>2. <<>> \in Seq(Event) /\ Len(<<>>) = 0 OBVIOUS
  <2> HIDE DEF c
  <2> QED BY <2>1, <2>2
<1>3. CASE ~ ChunkingRepeated(v, split, by)
  <2>1. l = <<c>> BY <1>3 DEF ChunkingEvents
  <2>2. \A i \in At(stream, v, "chunked") : ~ (stream[i].split = c.split /\ stream[i].by = c.by)
    BY <1>3 DEF ChunkingRepeated, Chunked, At
  <2>3. c.type = "chunked" OBVIOUS
  <2> HIDE DEF c
  <2>4. <<c>> \in Seq(Event) /\ Len(<<c>>) = 1 /\ <<c>>[1] = c BY <1>1
  <2> QED BY <2>1, <2>2, <2>3, <2>4
<1> QED BY <1>2, <1>3

-----------------------------------------------------------------------------
(* No step records twice or projects what was not recorded. *)

ReplayInv ==
  replay \in [Stores -> {NoReplay} \union Nat] /\ \A s \in Stores : replay[s] <= Len(stream)

Base == StreamInv /\ RunsInv /\ ReplayInv

(* The stream is as it was, and one run moves on. *)
LEMMA StreamStays ==
  ASSUME Base, stream' = stream, replay' = replay, NEW w \in Workers, NEW r, Become(w, r),
         RunOK(r, stream)
  PROVE  Base'
<1>1. Begins(stream, stream') /\ RunOK(r, stream') BY SameStream DEF Base, StreamInv
<1>2. RunsInv' BY <1>1, RunsMove DEF Base
<1> QED BY <1>2 DEF Base, StreamInv, ReplayInv

LEMMA LoadKeepsBase ==
  ASSUME Base, NEW w \in Workers, NEW job \in Jobs, Load(w, job)
  PROVE  Base'
<1> DEFINE r == [phase |-> "loaded", by |-> job.by, split |-> job.split, embeds |-> job.embeds,
                 version |-> Len(stream), events |-> <<>>]
<1>1. Become(w, r) /\ stream' = stream /\ replay' = replay BY DEF Load
<1>2. job.by \in Writers /\ job.split \in Splits /\ job.embeds \in BOOLEAN
  BY JobsAssumption DEF Writers
<1>3. RunOK(r, stream)
  <2>1. Len(stream) \in 0..Len(stream) /\ <<>> \in Seq(Event) BY DEF Base, StreamInv
  <2> QED BY <1>2, <2>1 DEF RunOK, Fields, Phases, Working, Owes, Stores
<1> QED BY <1>1, <1>3, StreamStays

LEMMA DecideExtractionKeepsBase ==
  ASSUME Base, NEW w \in Workers, NEW found \in SUBSET Entities, DecideExtraction(w, found)
  PROVE  Base'
<1> DEFINE r == run[w]
           k == ExtractionEvents(r.version, r.by, found)
           l == ChunkingEvents(r.version, r.split, r.by, FALSE)
<1>0. PICK n : n = [r EXCEPT !.phase = "save", !.events = k \o l] OBVIOUS
<1>1. /\ r.phase = "loaded" /\ r.by # Index /\ stream' = stream /\ replay' = replay
      /\ Become(w, IF k \o l = <<>> THEN Idle ELSE n)
  BY <1>0, Zenon DEF DecideExtraction
<1>2. /\ DOMAIN r = Fields /\ r.by \in Models /\ r.split \in Splits /\ r.embeds \in BOOLEAN
      /\ r.version \in 0..Len(stream) /\ stream \in Seq(Event)
  BY <1>1 DEF Base, RunsInv, RunOK, Writers, StreamInv
<1>3. /\ DOMAIN n = Fields /\ n.phase = "save" /\ n.by = r.by /\ n.split = r.split
      /\ n.embeds = r.embeds /\ n.version = r.version /\ n.events = k \o l
  BY <1>0, <1>2, Zenon DEF Fields
<1>4. k \in Seq(Event) /\ l \in Seq(Event) /\ r.by \in Writers
  BY <1>2, ExtractionFresh, ChunkingFresh DEF Writers
<1>5. k \o l # <<>> => k \o l \in Seq(Event) /\ Fresh(k \o l, stream, r.version)
  <2>1. k \o l # <<>> => Len(k) + Len(l) # 0
    <3> HIDE DEF k, l
    <3> QED BY <1>4
  <2>2. FALSE \in BOOLEAN OBVIOUS
  <2>3. /\ Len(k) \in {0, 1}
        /\ Len(k) = 1 => /\ k[1].type = "extracted"
                         /\ k[1].retracted = LastIn(stream, r.version) \ k[1].entities
                         /\ \A i \in At(stream, r.version, "extracted") : stream[i].model # k[1].model
    BY <1>2, ExtractionFresh
  <2>4. /\ Len(l) \in {0, 1}
        /\ Len(l) = 1 => /\ l[1].type = "chunked"
                         /\ \A i \in At(stream, r.version, "chunked") :
                              ~ (stream[i].split = l[1].split /\ stream[i].by = l[1].by)
    BY <1>2, <1>4, <2>2, ChunkingFresh
  <2> HIDE DEF k, l
  <2> QED BY <1>4, <2>1, <2>3, <2>4, BothFresh
<1> HIDE DEF k, l
<1>6. CASE k \o l = <<>>
  <2>1. Become(w, Idle) BY <1>1, <1>6
  <2> QED BY <1>1, <2>1, IdleOK, StreamStays
<1>7. CASE k \o l # <<>>
  <2>1. Become(w, n) BY <1>1, <1>7
  <2>2. RunOK(n, stream)
    BY <1>2, <1>3, <1>4, <1>5, <1>7 DEF RunOK, Phases, Working, Owes, Stores
  <2> QED BY <1>1, <2>1, <2>2, StreamStays
<1> QED BY <1>6, <1>7

LEMMA DecideIndexKeepsBase ==
  ASSUME Base, NEW w \in Workers, DecideIndex(w)
  PROVE  Base'
<1> DEFINE r == run[w]
           l == ChunkingEvents(r.version, r.split, Index, r.embeds)
<1>0. PICK n : n = [r EXCEPT !.phase = "save", !.events = l] OBVIOUS
<1>1. /\ r.phase = "loaded" /\ r.by = Index /\ stream' = stream /\ replay' = replay
      /\ Become(w, IF l = <<>> THEN Idle ELSE n)
  BY <1>0, Zenon DEF DecideIndex
<1>2. /\ DOMAIN r = Fields /\ r.by \in Writers /\ r.split \in Splits /\ r.embeds \in BOOLEAN
      /\ r.version \in 0..Len(stream) /\ stream \in Seq(Event)
  BY <1>1 DEF Base, RunsInv, RunOK, StreamInv
<1>3. /\ DOMAIN n = Fields /\ n.phase = "save" /\ n.by = r.by /\ n.split = r.split
      /\ n.embeds = r.embeds /\ n.version = r.version /\ n.events = l
  BY <1>0, <1>2, Zenon DEF Fields
<1>4. /\ l \in Seq(Event) /\ Len(l) \in {0, 1}
      /\ Len(l) = 1 => /\ l[1].type = "chunked"
                       /\ \A i \in At(stream, r.version, "chunked") :
                            ~ (stream[i].split = l[1].split /\ stream[i].by = l[1].by)
  BY <1>1, <1>2, ChunkingFresh
<1> HIDE DEF l
<1>5. l # <<>> => Fresh(l, stream, r.version)
  <2> SUFFICES ASSUME l # <<>> PROVE Fresh(l, stream, r.version) OBVIOUS
  <2>1. Len(l) = 1
    <3>1. \A q \in Seq(Event) : Len(q) = 0 => q = <<>> OBVIOUS
    <3> QED BY <1>4, <3>1
  <2>2. 1..Len(l) = {1} BY <2>1
  <2> QED BY <1>4, <2>1, <2>2 DEF Fresh
<1>6. CASE l = <<>>
  <2>1. Become(w, Idle) BY <1>1, <1>6
  <2> QED BY <1>1, <2>1, IdleOK, StreamStays
<1>7. CASE l # <<>>
  <2>1. Become(w, n) BY <1>1, <1>7
  <2>2. RunOK(n, stream)
    BY <1>2, <1>3, <1>4, <1>5, <1>7 DEF RunOK, Phases, Working, Owes, Stores
  <2> QED BY <1>1, <2>1, <2>2, StreamStays
<1> QED BY <1>6, <1>7

(* What a save puts in the stream, and the run that did. *)
LEMMA SaveEffect ==
  ASSUME Base, NEW w \in Workers, Save(w)
  PROVE  /\ run[w].phase = "save" /\ Fresh(run[w].events, stream, Len(stream))
         /\ run[w].events \in Seq(Event) /\ stream' = stream \o run[w].events
         /\ Begins(stream, stream')
         /\ DOMAIN run' = Workers /\ \A v \in Workers \ {w} : run'[v] = run[v]
         /\ RunOK(run'[w], stream') /\ run'[w].events = run[w].events
         /\ run'[w].phase = IF LastOf(run[w].events).type = "chunked" THEN "corpus" ELSE "rows"
         /\ stale' = stale \union (Owes(run'[w]) \intersect Contended(w))
<1> DEFINE r == run[w]
           es == r.events
           p == IF LastOf(es).type = "chunked" THEN "corpus" ELSE "rows"
<1>0. PICK n : n = [r EXCEPT !.version = Len(stream'), !.phase = p] OBVIOUS
<1>1. /\ r.phase = "save" /\ Len(stream) = r.version /\ stream' = stream \o es
      /\ BecomeOwing(w, n)
  BY <1>0, Zenon DEF Save, Current, LastOf
<1>2. /\ DOMAIN r = Fields /\ r.by \in Writers /\ r.split \in Splits /\ r.embeds \in BOOLEAN
      /\ es \in Seq(Event) /\ Fresh(es, stream, Len(stream)) /\ stream \in Seq(Event)
  BY <1>1 DEF Base, RunsInv, RunOK, StreamInv
<1>3. /\ DOMAIN n = Fields /\ n.phase = p /\ n.by = r.by /\ n.split = r.split
      /\ n.embeds = r.embeds /\ n.version = Len(stream') /\ n.events = es
  BY <1>0, <1>2, Zenon DEF Fields
<1>4. /\ Begins(stream, stream') /\ Len(stream') = Len(stream) + Len(es)
      /\ \A i \in 1..Len(es) : stream'[Len(stream) + i] = es[i]
  BY <1>1, <1>2, Grown
<1>5. Become(w, n) /\ stale' = stale \union (Owes(n) \intersect Contended(w))
  BY <1>1 DEF BecomeOwing
<1>6. DOMAIN run' = Workers /\ run'[w] = n /\ \A v \in Workers \ {w} : run'[v] = run[v]
  BY <1>5, Becoming DEF Base, RunsInv
<1> HIDE DEF p
<1>7. stream' \in Seq(Event) /\ Len(stream') \in 0..Len(stream') BY <1>4 DEF Begins
<1>8. Len(es) \in {1, 2} /\ es # <<>> /\ Len(es) \in 1..Len(es) /\ 1 \in 1..Len(es)
  <2>1. Len(es) \in {1, 2} BY <1>2 DEF Fresh
  <2>2. es # <<>> BY <2>1
  <2> QED BY <2>1, <2>2
<1>9. \A i \in 1..Len(es) : InStream(es[i], stream', es[i].type)
  <2> SUFFICES ASSUME NEW i \in 1..Len(es) PROVE InStream(es[i], stream', es[i].type)
    OBVIOUS
  <2>1. Len(stream) + i \in 1..Len(stream') /\ stream'[Len(stream) + i] = es[i]
    BY <1>2, <1>4
  <2> QED BY <2>1 DEF InStream, At
<1>10. /\ LastOf(es).type = "chunked" => InStream(LastOf(es), stream', "chunked")
       /\ LastOf(es).type # "chunked" => es[1].type = "extracted"
  <2>1. LastOf(es).type = "chunked" => InStream(LastOf(es), stream', "chunked")
    BY <1>8, <1>9 DEF LastOf
  <2>2. LastOf(es).type # "chunked" => es[1].type = "extracted"
    BY <1>2, <1>8 DEF Fresh, LastOf
  <2> QED BY <2>1, <2>2
<1>11. es[1].type = "extracted" => InStream(es[1], stream', "extracted")
  BY <1>8, <1>9
<1>12. RunOK(n, stream')
  BY <1>2, <1>3, <1>7, <1>8, <1>10, <1>11
     DEF RunOK, Phases, Working, Owes, Stores, p
<1> QED BY <1>1, <1>2, <1>3, <1>4, <1>5, <1>6, <1>12 DEF p

LEMMA SaveKeepsBase ==
  ASSUME Base, NEW w \in Workers, Save(w)
  PROVE  Base'
<1>1. /\ Fresh(run[w].events, stream, Len(stream)) /\ run[w].events \in Seq(Event)
      /\ stream' = stream \o run[w].events /\ Begins(stream, stream')
      /\ DOMAIN run' = Workers /\ \A v \in Workers \ {w} : run'[v] = run[v]
      /\ RunOK(run'[w], stream')
  BY SaveEffect
<1>2. StreamInv' BY <1>1, StreamSaves DEF Base, StreamInv
<1>3. RunsInv'
  <2>1. \A v \in Workers : RunOK(run[v], stream')
    BY <1>1, RunOutlivesGrowth DEF Base, RunsInv
  <2> QED BY <1>1, <2>1 DEF RunsInv
<1>4. ReplayInv'
  <2>1. replay' = replay /\ Len(stream) \in Nat /\ Len(stream') \in Nat /\ Len(stream) <= Len(stream')
    BY <1>1 DEF Save, Begins
  <2> QED BY <2>1 DEF Base, ReplayInv, NoReplay
<1> QED BY <1>2, <1>3, <1>4 DEF Base
LEMMA EndRunKeepsBase ==
  ASSUME Base, NEW w \in Workers, SaveConflict(w) \/ Die(w)
  PROVE  Base'
BY IdleOK, StreamStays DEF SaveConflict, Die, EndRun

LEMMA ProjectChunksKeepsBase ==
  ASSUME Base, NEW w \in Workers, ProjectChunks(w)
  PROVE  Base'
<1> DEFINE r == run[w]
<1>0. PICK n : n = [r EXCEPT !.phase = "rows"] OBVIOUS
<1>1. /\ r.phase = "corpus" /\ stream' = stream /\ replay' = replay
      /\ Become(w, IF r.events[1].type = "extracted" THEN n ELSE Idle)
  BY <1>0, Zenon DEF ProjectChunks
<1>2. RunOK(r, stream) /\ DOMAIN r = Fields BY DEF Base, RunsInv, RunOK
<1>3. /\ DOMAIN n = Fields /\ n.phase = "rows" /\ n.by = r.by /\ n.split = r.split
      /\ n.embeds = r.embeds /\ n.version = r.version /\ n.events = r.events
  BY <1>0, <1>2, Zenon DEF Fields
<1>4. CASE r.events[1].type = "extracted"
  <2>1. Become(w, n) BY <1>1, <1>4
  <2>2. RunOK(n, stream)
    BY <1>1, <1>2, <1>3, <1>4 DEF RunOK, Phases, Working, Owes, Stores
  <2> QED BY <1>1, <2>1, <2>2, StreamStays
<1>5. CASE r.events[1].type # "extracted"
  <2>1. Become(w, Idle) BY <1>1, <1>5
  <2> QED BY <1>1, <2>1, IdleOK, StreamStays
<1> QED BY <1>4, <1>5

LEMMA ProjectRowsKeepsBase ==
  ASSUME Base, NEW w \in Workers, ProjectRows(w)
  PROVE  Base'
<1> DEFINE r == run[w]
<1>0. PICK n : n = [r EXCEPT !.phase = "retract"] OBVIOUS
<1>1. r.phase = "rows" /\ stream' = stream /\ replay' = replay /\ Become(w, n)
  BY <1>0, Zenon DEF ProjectRows
<1>2. RunOK(r, stream) /\ DOMAIN r = Fields BY DEF Base, RunsInv, RunOK
<1>3. /\ DOMAIN n = Fields /\ n.phase = "retract" /\ n.by = r.by /\ n.split = r.split
      /\ n.embeds = r.embeds /\ n.version = r.version /\ n.events = r.events
  BY <1>0, <1>2, Zenon DEF Fields
<1>4. RunOK(n, stream)
  BY <1>1, <1>2, <1>3 DEF RunOK, Phases, Working, Owes, Stores
<1> QED BY <1>1, <1>4, StreamStays

LEMMA ProjectRetractionsKeepsBase ==
  ASSUME Base, NEW w \in Workers, ProjectRetractions(w)
  PROVE  Base'
<1> DEFINE r == run[w]
<1>0. PICK n : n = [r EXCEPT !.phase = "embed"] OBVIOUS
<1>1. /\ r.phase = "retract" /\ stream' = stream /\ replay' = replay
      /\ Become(w, IF r.embeds /\ r.events[1].entities # {} THEN n ELSE Idle)
  BY <1>0, Zenon DEF ProjectRetractions
<1>2. RunOK(r, stream) /\ DOMAIN r = Fields BY DEF Base, RunsInv, RunOK
<1>3. /\ DOMAIN n = Fields /\ n.phase = "embed" /\ n.by = r.by /\ n.split = r.split
      /\ n.embeds = r.embeds /\ n.version = r.version /\ n.events = r.events
  BY <1>0, <1>2, Zenon DEF Fields
<1>4. RunOK(n, stream)
  BY <1>1, <1>2, <1>3 DEF RunOK, Phases, Working, Owes, Stores
<1>5. Become(w, n) \/ Become(w, Idle) BY <1>1
<1> QED BY <1>1, <1>4, <1>5, IdleOK, StreamStays

LEMMA EmbedKeepsBase ==
  ASSUME Base, NEW w \in Workers, Embed(w)
  PROVE  Base'
<1> DEFINE r == run[w]
<1>a. PICK e : e = [type |-> "embedded", entities |-> r.events[1].entities] OBVIOUS
<1>b. PICK es : es = Append(r.events, e) OBVIOUS
<1>0. PICK n : n = [r EXCEPT !.phase = "vectors", !.events = es] OBVIOUS
<1>c. n = [r EXCEPT !.phase = "vectors",
              !.events = Append(@, [type |-> "embedded", entities |-> r.events[1].entities])]
  BY <1>0, <1>a, <1>b, Zenon
<1>1. /\ r.phase = "embed" /\ stream' = stream /\ replay' = replay
      /\ Become(w, IF EmbeddingRepeated(r.version) THEN Idle ELSE n)
  BY <1>c, Zenon DEF Embed
<1>2. RunOK(r, stream) /\ DOMAIN r = Fields BY DEF Base, RunsInv, RunOK
<1>3. /\ DOMAIN n = Fields /\ n.phase = "vectors" /\ n.by = r.by /\ n.split = r.split
      /\ n.embeds = r.embeds /\ n.version = r.version /\ n.events = es
  BY <1>0, <1>2, Zenon DEF Fields
<1>4. CASE EmbeddingRepeated(r.version)
  <2>1. Become(w, Idle) BY <1>1, <1>4
  <2> QED BY <1>1, <2>1, IdleOK, StreamStays
<1>5. CASE ~ EmbeddingRepeated(r.version)
  <2>1. Become(w, n) BY <1>1, <1>5
  <2>2. At(stream, r.version, "embedded") = {} BY <1>5 DEF EmbeddingRepeated, Embedded, At
  <2>3. r.events \in Seq(Event) /\ r.events # <<>> /\ r.events[1].type = "extracted"
    BY <1>1, <1>2 DEF RunOK, Working
  <2>4. r.events[1] \in ExtractedEvent BY <2>3, EventFacts
  <2>5. e \in Event /\ e.type = "embedded"
    BY <1>a, <2>4 DEF Event, EmbeddedEvent, ExtractedEvent
  <2>6. es \in Seq(Event) /\ es # <<>> /\ LastOf(es) = e
    BY <1>b, <2>3, <2>5 DEF LastOf
  <2>7. RunOK(n, stream)
    BY <1>1, <1>2, <1>3, <2>2, <2>5, <2>6 DEF RunOK, Phases, Working, Owes, Stores
  <2> QED BY <1>1, <2>1, <2>7, StreamStays
<1> QED BY <1>4, <1>5

LEMMA ProjectVectorsKeepsBase ==
  ASSUME Base, NEW w \in Workers, ProjectVectors(w)
  PROVE  Base'
<1> DEFINE r == run[w]
<1>0. PICK n : n = [r EXCEPT !.phase = "persist"] OBVIOUS
<1>1. r.phase = "vectors" /\ stream' = stream /\ replay' = replay /\ Become(w, n)
  BY <1>0, Zenon DEF ProjectVectors, BecomeOwing
<1>2. RunOK(r, stream) /\ DOMAIN r = Fields BY DEF Base, RunsInv, RunOK
<1>3. /\ DOMAIN n = Fields /\ n.phase = "persist" /\ n.by = r.by /\ n.split = r.split
      /\ n.embeds = r.embeds /\ n.version = r.version /\ n.events = r.events
  BY <1>0, <1>2, Zenon DEF Fields
<1>4. RunOK(n, stream)
  BY <1>1, <1>2, <1>3 DEF RunOK, Phases, Working, Owes, Stores
<1> QED BY <1>1, <1>4, StreamStays

(* What recording the vectors puts in the stream. *)
LEMMA PersistEffect ==
  ASSUME Base, NEW w \in Workers, Persist(w)
  PROVE  /\ run[w].phase = "persist"
         /\ LastOf(run[w].events) \in Event /\ LastOf(run[w].events).type = "embedded"
         /\ At(stream, Len(stream), "embedded") = {}
         /\ stream' = Append(stream, LastOf(run[w].events))
         /\ Begins(stream, stream') /\ Len(stream') = Len(stream) + 1
         /\ stream'[Len(stream) + 1] = LastOf(run[w].events)
         /\ Become(w, Idle) /\ replay' = replay
         /\ stream' \in Seq(Event) /\ Once(stream') /\ Exact(stream')
         /\ \A kind \in {"extracted", "chunked"} :
              At(stream', Len(stream'), kind) = At(stream, Len(stream), kind)
<1> DEFINE r == run[w]
           e == LastOf(r.events)
<1>1. /\ r.phase = "persist" /\ Len(stream) = r.version /\ stream' = Append(stream, e)
      /\ Become(w, Idle) /\ replay' = replay
  BY DEF Persist, Current, LastOf
<1>2. /\ r.events \in Seq(Event) /\ r.events # <<>> /\ e.type = "embedded"
      /\ At(stream, Len(stream), "embedded") = {}
  BY <1>1 DEF Base, RunsInv, RunOK, Working
<1>3. e \in Event BY <1>2 DEF LastOf
<1>4. stream \in Seq(Event) /\ Once(stream) /\ Exact(stream) BY DEF Base, StreamInv
<1> HIDE DEF e
<1>5. /\ Begins(stream, stream') /\ Len(stream') = Len(stream) + 1
      /\ stream'[Len(stream) + 1] = e
      /\ stream' \in Seq(Event) /\ Once(stream') /\ Exact(stream')
      /\ \A kind \in {"extracted", "chunked"} :
           At(stream', Len(stream'), kind) = At(stream, Len(stream), kind)
  BY <1>1, <1>2, <1>3, <1>4, StreamPersists
<1> QED BY <1>1, <1>2, <1>3, <1>5 DEF e

LEMMA PersistKeepsBase ==
  ASSUME Base, NEW w \in Workers, Persist(w)
  PROVE  Base'
<1>1. /\ Begins(stream, stream') /\ Become(w, Idle) /\ replay' = replay
      /\ stream' \in Seq(Event) /\ Once(stream') /\ Exact(stream')
      /\ Len(stream') = Len(stream) + 1
  BY PersistEffect
<1>2. RunsInv' BY <1>1, IdleOK, RunsMove DEF Base
<1>3. ReplayInv'
  <2>1. Len(stream) \in Nat BY DEF Base, StreamInv
  <2> QED BY <1>1, <2>1 DEF Base, ReplayInv, NoReplay
<1> QED BY <1>1, <1>2, <1>3 DEF Base, StreamInv

(* A rebuild touches neither the stream nor a run. *)
LEMMA RebuildKeepsBase ==
  ASSUME Base, NEW s \in Stores, StartRebuild(s) \/ ReplayNext(s) \/ EndRebuild(s)
  PROVE  Base'
<1>1. stream' = stream /\ run' = run BY DEF StartRebuild, ReplayNext, EndRebuild
<1>2. Len(stream) \in Nat BY DEF Base, StreamInv
<1>3. ReplayInv'
  <2>1. CASE StartRebuild(s) BY <1>1, <1>2, <2>1 DEF Base, ReplayInv, NoReplay, StartRebuild
  <2>2. CASE ReplayNext(s)
    BY <1>1, <1>2, <2>2 DEF Base, ReplayInv, NoReplay, ReplayNext, Replaying
  <2>3. CASE EndRebuild(s) BY <1>1, <1>2, <2>3 DEF Base, ReplayInv, NoReplay, EndRebuild
  <2> QED BY <2>1, <2>2, <2>3
<1> QED BY <1>1, <1>3 DEF Base, StreamInv, RunsInv

LEMMA BaseHolds ==
  /\ Init => Base
  /\ Base /\ [Next]_vars => Base'
<1>1. Init => Base
  <2> SUFFICES ASSUME Init PROVE Base OBVIOUS
  <2>1. StreamInv
    <3>1. stream = <<>> /\ stream \in Seq(Event) /\ Len(stream) = 0 BY DEF Init
    <3> QED BY <3>1, NothingSaid DEF StreamInv, Once, Exact
  <2>2. RunsInv
    <3>1. DOMAIN run = Workers /\ \A w \in Workers : run[w] = Idle
      BY Zenon DEF Init
    <3> QED BY <3>1, IdleOK DEF RunsInv
  <2>3. ReplayInv BY DEF Init, ReplayInv, NoReplay
  <2> QED BY <2>1, <2>2, <2>3 DEF Base
<1>2. ASSUME Base, [Next]_vars PROVE Base'
  <2>1. CASE UNCHANGED vars
    BY <1>2, <2>1 DEF vars, Base, StreamInv, RunsInv, ReplayInv
  <2>2. ASSUME NEW w \in Workers,
               \/ \E job \in Jobs : Load(w, job)
               \/ \E found \in SUBSET Entities : DecideExtraction(w, found)
               \/ DecideIndex(w) \/ Save(w) \/ SaveConflict(w) \/ ProjectChunks(w)
               \/ ProjectRows(w) \/ ProjectRetractions(w)
               \/ Embed(w) \/ ProjectVectors(w) \/ Persist(w) \/ Die(w)
        PROVE  Base'
    BY <1>2, <2>2, LoadKeepsBase, DecideExtractionKeepsBase, DecideIndexKeepsBase,
       SaveKeepsBase, EndRunKeepsBase, ProjectChunksKeepsBase, ProjectRowsKeepsBase,
       ProjectRetractionsKeepsBase, EmbedKeepsBase, ProjectVectorsKeepsBase, PersistKeepsBase
  <2> QED BY <1>2, <2>1, <2>2, RebuildKeepsBase DEF Next
<1> QED BY <1>1, <1>2
-----------------------------------------------------------------------------
(* The corpus is one chunking, and nothing is stored that is not recorded *)

OneChunking(s, c) ==
  \A a \in Adapters :
    \/ \A p \in Passages : c[a][p] = NoRow
    \/ \E i \in At(s, Len(s), "chunked") : \A p \in Passages :
         IF p \in PassagesOf[s[i].split] THEN c[a][p] # NoRow /\ c[a][p].by = s[i].by
         ELSE c[a][p] = NoRow

CorpusTyped(c) == \A a \in Adapters, p \in Passages : c[a][p] \in PassageRow \union {NoRow}

Accounted(s, g) ==
  \A x \in Entities :
    /\ g[x] # "none" => \E i \in At(s, Len(s), "extracted") : x \in s[i].entities
    /\ g[x] = "retracted" => \E i \in At(s, Len(s), "extracted") : x \in s[i].retracted

StoredInv == CorpusTyped(corpus) /\ OneChunking(stream, corpus) /\ Accounted(stream, graph)

-----------------------------------------------------------------------------
(* What a store that was written in the stream's order holds: what the stream
   says up to where its rebuild is; or all it says; or, while one run has yet
   to write what it appended, all but that. *)

Owing(st) == {w \in Workers : st \in Owes(run[w])}

GraphBehind(r, s, g) ==
  \E v \in 0..(Len(s) - 1) :
    /\ At(s, Len(s), "extracted") = At(s, v, "extracted") \union {v + 1}
    /\ s[v + 1] = r.events[1]
    /\ g = IF r.phase = "retract" THEN WithRows(GraphAt(s, v), s[v + 1]) ELSE GraphAt(s, v)

CorpusBehind(r, s, c) ==
  \E v \in 0..(Len(s) - 1) :
    /\ At(s, Len(s), "chunked") = At(s, v, "chunked") \union {v + 1}
    /\ s[v + 1] = LastOf(r.events)
    /\ CorpusIs(s, v, c)

AloneOwing(st) ==
  /\ \A w, v \in Owing(st) : w = v
  /\ Replaying(st) => Owing(st) = {}

GraphInv ==
  "graph" \notin stale =>
    /\ AloneOwing("graph")
    /\ IF Replaying("graph") THEN graph = GraphAt(stream, replay["graph"])
       ELSE /\ Owing("graph") = {} => graph = GraphAt(stream, Len(stream))
            /\ \A w \in Owing("graph") : GraphBehind(run[w], stream, graph)

CorpusInv ==
  "corpus" \notin stale =>
    /\ AloneOwing("corpus")
    /\ IF Replaying("corpus") THEN CorpusIs(stream, replay["corpus"], corpus)
       ELSE /\ Owing("corpus") = {} => CorpusIs(stream, Len(stream), corpus)
            /\ \A w \in Owing("corpus") : CorpusBehind(run[w], stream, corpus)

VectorsInv ==
  "vectors" \notin stale =>
    /\ AloneOwing("vectors")
    /\ IF Replaying("vectors") THEN vectors = VectorsAt(stream, replay["vectors"])
       ELSE /\ Owing("vectors") = {} => vectors = VectorsAt(stream, Len(stream))
            /\ \A w \in Owing("vectors") :
                 vectors = VectorsAt(stream, Len(stream)) \union LastOf(run[w].events).entities

IInv == Base /\ StoredInv /\ GraphInv /\ CorpusInv /\ VectorsInv

(* A replaced source is one chunking, typed, of any event of the stream. *)
LEMMA ReplacedIsOneChunking ==
  ASSUME NEW s \in Seq(Event), NEW c, CorpusTyped(c), NEW e, InStream(e, s, "chunked")
  PROVE  CorpusTyped(ReplaceSource(c, e)) /\ OneChunking(s, ReplaceSource(c, e))
<1>1. PICK i \in At(s, Len(s), "chunked") : s[i] = e BY DEF InStream
<1>2. e.by \in Writers /\ e.vector \in BOOLEAN BY <1>1, EventFacts DEF At, ChunkedEvent
<1>3. \A a \in Adapters, p \in Passages :
        IF p \in PassagesOf[e.split]
        THEN /\ ReplaceSource(c, e)[a][p] \in PassageRow
             /\ ReplaceSource(c, e)[a][p].by = e.by
        ELSE ReplaceSource(c, e)[a][p] = NoRow
  <2> SUFFICES ASSUME NEW a \in Adapters, NEW p \in Passages
               PROVE  IF p \in PassagesOf[e.split]
                      THEN /\ ReplaceSource(c, e)[a][p] \in PassageRow
                           /\ ReplaceSource(c, e)[a][p].by = e.by
                      ELSE ReplaceSource(c, e)[a][p] = NoRow
    OBVIOUS
  <2>1. ReplaceSource(c, e)[a][p] =
          IF p \notin PassagesOf[e.split] THEN NoRow
          ELSE [by |-> e.by, vector |-> IF a = "postgres" /\ c[a][p] # NoRow
                                        THEN c[a][p].vector ELSE e.vector]
    BY DEF ReplaceSource
  <2>2. (IF a = "postgres" /\ c[a][p] # NoRow THEN c[a][p].vector ELSE e.vector) \in BOOLEAN
    BY <1>2 DEF CorpusTyped, PassageRow
  <2> QED BY <1>2, <2>1, <2>2 DEF PassageRow
<1>4. CorpusTyped(ReplaceSource(c, e)) BY <1>3 DEF CorpusTyped
<1>5. OneChunking(s, ReplaceSource(c, e)) BY <1>1, <1>3, NoRowAssumption DEF OneChunking
<1> QED BY <1>4, <1>5

(* Writing what an event of the stream says leaves nothing unaccounted for. *)
LEMMA WrittenIsAccounted ==
  ASSUME NEW s \in Seq(Event), NEW g, Accounted(s, g), NEW e, InStream(e, s, "extracted")
  PROVE  Accounted(s, WithRows(g, e)) /\ Accounted(s, WithRetractions(g, e))
BY DEF Accounted, InStream, WithRows, WithRetractions

LEMMA StoredOutlivesGrowth ==
  ASSUME NEW s, NEW t, Begins(s, t)
  PROVE  /\ \A c : OneChunking(s, c) => OneChunking(t, c)
         /\ \A g : Accounted(s, g) => Accounted(t, g)
<1>1. \A kind : \A i \in At(s, Len(s), kind) : i \in At(t, Len(t), kind) /\ t[i] = s[i]
  BY DEF Begins, At
<1> QED BY <1>1 DEF OneChunking, Accounted

LEMMA StoredHolds ==
  /\ Init => StoredInv
  /\ Base /\ StoredInv /\ [Next]_vars => StoredInv'
<1> DEFINE Kept == StoredInv'
<1>1. ASSUME Init PROVE StoredInv
  BY <1>1 DEF Init, StoredInv, CorpusTyped, OneChunking, Accounted, EmptyCorpus
<1> SUFFICES ASSUME Base, StoredInv, [Next]_vars PROVE Kept
  BY <1>1
<1>2. stream \in Seq(Event) BY DEF Base, StreamInv
<1>3. CASE Begins(stream, stream') /\ corpus' = corpus /\ graph' = graph
  BY <1>3, StoredOutlivesGrowth DEF StoredInv
<1>4. Begins(stream, stream) BY <1>2, SameStream
<1>5. CASE UNCHANGED vars BY <1>3, <1>4, <1>5 DEF vars, stores
<1>6. ASSUME NEW w \in Workers, ProjectChunks(w) PROVE Kept
  <2>1. InStream(LastOf(run[w].events), stream, "chunked")
    BY <1>6 DEF ProjectChunks, Base, RunsInv, RunOK
  <2>2. /\ corpus' = ReplaceSource(corpus, LastOf(run[w].events)) /\ graph' = graph
        /\ stream' = stream
    BY <1>6 DEF ProjectChunks, LastOf
  <2>3. CorpusTyped(corpus') /\ OneChunking(stream, corpus')
    BY <1>2, <2>1, <2>2, ReplacedIsOneChunking DEF StoredInv
  <2> QED BY <2>2, <2>3 DEF StoredInv
<1>7. ASSUME NEW w \in Workers, ProjectRows(w) \/ ProjectRetractions(w) PROVE Kept
  <2>1. InStream(run[w].events[1], stream, "extracted")
    <3>1. run[w].phase \in {"rows", "retract"} /\ RunOK(run[w], stream)
      BY <1>7 DEF ProjectRows, ProjectRetractions, Base, RunsInv
    <3> QED BY <3>1 DEF RunOK, Owes, Stores
  <2>2. /\ corpus' = corpus /\ stream' = stream
        /\ \/ graph' = WithRows(graph, run[w].events[1])
           \/ graph' = WithRetractions(graph, run[w].events[1])
    BY <1>7 DEF ProjectRows, ProjectRetractions
  <2>3. Accounted(stream, graph') BY <1>2, <2>1, <2>2, WrittenIsAccounted DEF StoredInv
  <2> QED BY <2>2, <2>3 DEF StoredInv
<1>8. ASSUME NEW w \in Workers, NEW job \in Jobs, Load(w, job) PROVE Kept
  BY <1>3, <1>4, <1>8 DEF Load, stores
<1>9. ASSUME NEW w \in Workers, NEW found \in SUBSET Entities, DecideExtraction(w, found) PROVE Kept
  BY <1>3, <1>4, <1>9 DEF DecideExtraction, stores
<1>10. ASSUME NEW w \in Workers, DecideIndex(w) \/ SaveConflict(w) \/ Embed(w) \/ Die(w) PROVE Kept
  BY <1>3, <1>4, <1>10 DEF DecideIndex, SaveConflict, Embed, Die, stores
<1>11. ASSUME NEW w \in Workers, ProjectVectors(w) PROVE Kept
  BY <1>3, <1>4, <1>11 DEF ProjectVectors
<1>12. ASSUME NEW w \in Workers, Save(w) PROVE Kept
  BY <1>3, <1>12, SaveEffect DEF Save, stores
<1>13. ASSUME NEW w \in Workers, Persist(w) PROVE Kept
  BY <1>3, <1>13, PersistEffect DEF Persist, stores
<1>14. ASSUME NEW s \in Stores, StartRebuild(s) PROVE Kept
  <2>1. /\ stream' = stream
        /\ graph' = graph \/ graph' = [x \in Entities |-> "none"]
        /\ corpus' = corpus \/ corpus' = EmptyCorpus
    BY <1>14 DEF StartRebuild
  <2>2. Accounted(stream, [x \in Entities |-> "none"]) BY DEF Accounted
  <2>3. CorpusTyped(EmptyCorpus) /\ OneChunking(stream, EmptyCorpus)
    BY DEF CorpusTyped, OneChunking, EmptyCorpus
  <2>4. Accounted(stream, graph') BY <2>1, <2>2 DEF StoredInv
  <2>5. CorpusTyped(corpus') /\ OneChunking(stream, corpus') BY <2>1, <2>3 DEF StoredInv
  <2> QED BY <2>1, <2>4, <2>5 DEF StoredInv
<1>15. ASSUME NEW s \in Stores, ReplayNext(s) PROVE Kept
  <2> DEFINE e == stream[replay[s] + 1]
  <2>1. stream' = stream /\ replay[s] + 1 \in 1..Len(stream)
    BY <1>2, <1>15 DEF ReplayNext, Replaying, Base, ReplayInv, NoReplay
  <2>2. \A kind : e.type = kind => InStream(e, stream, kind) BY <2>1 DEF InStream, At
  <2>3. /\ graph' = IF s = "graph" /\ e.type = "extracted"
                    THEN WithRetractions(WithRows(graph, e), e) ELSE graph
        /\ corpus' = IF s = "corpus" /\ e.type = "chunked" THEN ReplaceSource(corpus, e) ELSE corpus
    BY <1>15 DEF ReplayNext
  <2> HIDE DEF e
  <2>4. Accounted(stream, graph') BY <1>2, <2>2, <2>3, WrittenIsAccounted DEF StoredInv
  <2>5. CorpusTyped(corpus') /\ OneChunking(stream, corpus')
    BY <1>2, <2>2, <2>3, ReplacedIsOneChunking DEF StoredInv
  <2> QED BY <2>1, <2>4, <2>5 DEF StoredInv
<1>16. ASSUME NEW s \in Stores, EndRebuild(s) PROVE Kept
  BY <1>3, <1>4, <1>16 DEF EndRebuild, stores
<1> QED BY <1>5, <1>6, <1>7, <1>8, <1>9, <1>10, <1>11, <1>12, <1>13, <1>14, <1>15, <1>16 DEF Next

(* Of what a run owes, nothing has changed for the store. *)
SameDue(st, r, n) ==
  /\ st \in Owes(r) <=> st \in Owes(n)
  /\ st \in Owes(r) => n.events = r.events /\ (n.phase = "retract" <=> r.phase = "retract")

(* Nor in the step that is taken, unless it leaves the store stale. *)
Spared(st) ==
  /\ replay'[st] = replay[st]
  /\ st \notin stale' => st \notin stale /\ \A v \in Workers : SameDue(st, run[v], run'[v])

LEMMA OwingSame ==
  ASSUME NEW st \in Stores, Spared(st), st \notin stale'
  PROVE  /\ Owing(st)' = Owing(st) /\ st \notin stale
         /\ Replaying(st)' = Replaying(st) /\ replay'[st] = replay[st]
         /\ AloneOwing(st) => AloneOwing(st)'
<1>1. \A v \in Workers : st \in Owes(run'[v]) <=> st \in Owes(run[v])
  BY DEF Spared, SameDue
<1>2. Owing(st)' = Owing(st) BY <1>1 DEF Owing
<1>3. Replaying(st)' = Replaying(st) BY DEF Replaying, Spared
<1> QED BY <1>2, <1>3 DEF AloneOwing, Spared

(* What a step that spares a store leaves of what it holds. *)
LEMMA GraphSpared ==
  ASSUME Base, GraphInv, Spared("graph"), graph' = graph, Begins(stream, stream'),
         At(stream', Len(stream'), "extracted") = At(stream, Len(stream), "extracted")
  PROVE  GraphInv'
<1> SUFFICES ASSUME "graph" \notin stale' PROVE GraphInv' BY DEF GraphInv
<1>1. /\ Owing("graph")' = Owing("graph") /\ "graph" \notin stale
      /\ Replaying("graph")' = Replaying("graph") /\ replay'["graph"] = replay["graph"]
      /\ AloneOwing("graph")'
  BY OwingSame DEF Stores, GraphInv
<1>2. /\ Len(stream) \in Nat /\ Len(stream') \in Nat /\ Len(stream) <= Len(stream')
      /\ \A i \in 1..Len(stream) : stream'[i] = stream[i]
  BY DEF Begins
<1>3. \A v \in 0..Len(stream) : /\ GraphAt(stream', v) = GraphAt(stream, v)
                                /\ At(stream', v, "extracted") = At(stream, v, "extracted")
  BY SaysTheSame, AtPrefix
<1>4. GraphAt(stream', Len(stream')) = GraphAt(stream, Len(stream))
  <2>1. At(stream', Len(stream'), "extracted") = At(stream', Len(stream), "extracted")
    BY <1>2, <1>3
  <2> QED BY <1>2, <1>3, <2>1, GraphUntouched
<1>5. CASE Replaying("graph")
  <2>1. replay["graph"] \in 0..Len(stream) BY <1>2, <1>5 DEF Base, ReplayInv, Replaying, NoReplay, Stores
  <2> QED BY <1>1, <1>3, <1>5, <2>1 DEF GraphInv
<1>6. CASE ~ Replaying("graph")
  <2>1. ASSUME NEW w \in Owing("graph") PROVE GraphBehind(run'[w], stream', graph)
    <3>1. SameDue("graph", run[w], run'[w]) /\ "graph" \in Owes(run[w]) BY DEF Spared, Owing
    <3>2. GraphBehind(run[w], stream, graph) BY <1>1, <1>6 DEF GraphInv
    <3>3. PICK v \in 0..(Len(stream) - 1) :
            /\ At(stream, Len(stream), "extracted") = At(stream, v, "extracted") \union {v + 1}
            /\ stream[v + 1] = run[w].events[1]
            /\ graph = IF run[w].phase = "retract" THEN WithRows(GraphAt(stream, v), stream[v + 1])
                       ELSE GraphAt(stream, v)
      BY <3>2 DEF GraphBehind
    <3>4. /\ v \in 0..Len(stream) /\ v \in 0..(Len(stream') - 1) /\ stream'[v + 1] = stream[v + 1]
      BY <1>2
    <3>5. /\ GraphAt(stream', v) = GraphAt(stream, v)
          /\ At(stream', v, "extracted") = At(stream, v, "extracted")
      BY <1>3, <3>4
    <3>6. run'[w].events = run[w].events /\ (run'[w].phase = "retract" <=> run[w].phase = "retract")
      BY <3>1 DEF SameDue
    <3> QED BY <3>3, <3>4, <3>5, <3>6 DEF GraphBehind
  <2> QED BY <1>1, <1>4, <1>6, <2>1 DEF GraphInv
<1> QED BY <1>5, <1>6

LEMMA CorpusSpared ==
  ASSUME Base, CorpusInv, Spared("corpus"), corpus' = corpus, Begins(stream, stream'),
         At(stream', Len(stream'), "chunked") = At(stream, Len(stream), "chunked")
  PROVE  CorpusInv'
<1> SUFFICES ASSUME "corpus" \notin stale' PROVE CorpusInv' BY DEF CorpusInv
<1>1. /\ Owing("corpus")' = Owing("corpus") /\ "corpus" \notin stale
      /\ Replaying("corpus")' = Replaying("corpus") /\ replay'["corpus"] = replay["corpus"]
      /\ AloneOwing("corpus")'
  BY OwingSame DEF Stores, CorpusInv
<1>2. /\ Len(stream) \in Nat /\ Len(stream') \in Nat /\ Len(stream) <= Len(stream')
      /\ \A i \in 1..Len(stream) : stream'[i] = stream[i]
  BY DEF Begins
<1>3. \A v \in 0..Len(stream) : /\ CorpusIs(stream, v, corpus) => CorpusIs(stream', v, corpus)
                                /\ At(stream', v, "chunked") = At(stream, v, "chunked")
  BY CorpusSaysTheSame, AtPrefix
<1>4. CorpusIs(stream, Len(stream), corpus) => CorpusIs(stream', Len(stream'), corpus)
  <2>1. At(stream', Len(stream'), "chunked") = At(stream', Len(stream), "chunked")
    BY <1>2, <1>3
  <2>2. CorpusIs(stream, Len(stream), corpus) => CorpusIs(stream', Len(stream), corpus)
    BY <1>2, <1>3
  <2> QED BY <2>1, <2>2, CorpusUntouched
<1>5. CASE Replaying("corpus")
  <2>1. replay["corpus"] \in 0..Len(stream) BY <1>2, <1>5 DEF Base, ReplayInv, Replaying, NoReplay, Stores
  <2> QED BY <1>1, <1>3, <1>5, <2>1 DEF CorpusInv
<1>6. CASE ~ Replaying("corpus")
  <2>1. ASSUME NEW w \in Owing("corpus") PROVE CorpusBehind(run'[w], stream', corpus)
    <3>1. SameDue("corpus", run[w], run'[w]) /\ "corpus" \in Owes(run[w]) BY DEF Spared, Owing
    <3>2. CorpusBehind(run[w], stream, corpus) BY <1>1, <1>6 DEF CorpusInv
    <3>3. PICK v \in 0..(Len(stream) - 1) :
            /\ At(stream, Len(stream), "chunked") = At(stream, v, "chunked") \union {v + 1}
            /\ stream[v + 1] = LastOf(run[w].events)
            /\ CorpusIs(stream, v, corpus)
      BY <3>2 DEF CorpusBehind
    <3>4. /\ v \in 0..Len(stream) /\ v \in 0..(Len(stream') - 1) /\ stream'[v + 1] = stream[v + 1]
      BY <1>2
    <3>5. CorpusIs(stream', v, corpus) /\ At(stream', v, "chunked") = At(stream, v, "chunked")
      BY <1>3, <3>3, <3>4
    <3>6. run'[w].events = run[w].events BY <3>1 DEF SameDue
    <3> QED BY <3>3, <3>4, <3>5, <3>6 DEF CorpusBehind
  <2> QED BY <1>1, <1>4, <1>6, <2>1 DEF CorpusInv
<1> QED BY <1>5, <1>6

LEMMA VectorsSpared ==
  ASSUME Base, VectorsInv, Spared("vectors"), vectors' = vectors, Begins(stream, stream'),
         At(stream', Len(stream'), "embedded") = At(stream, Len(stream), "embedded")
  PROVE  VectorsInv'
<1> SUFFICES ASSUME "vectors" \notin stale' PROVE VectorsInv' BY DEF VectorsInv
<1>1. /\ Owing("vectors")' = Owing("vectors") /\ "vectors" \notin stale
      /\ Replaying("vectors")' = Replaying("vectors") /\ replay'["vectors"] = replay["vectors"]
      /\ AloneOwing("vectors")'
  BY OwingSame DEF Stores, VectorsInv
<1>2. Len(stream) \in Nat /\ Len(stream') \in Nat /\ Len(stream) <= Len(stream') BY DEF Begins
<1>3. \A v \in 0..Len(stream) : /\ VectorsAt(stream', v) = VectorsAt(stream, v)
                                /\ At(stream', v, "embedded") = At(stream, v, "embedded")
  BY SaysTheSame, AtPrefix
<1>4. VectorsAt(stream', Len(stream')) = VectorsAt(stream, Len(stream))
  <2>1. At(stream', Len(stream'), "embedded") = At(stream', Len(stream), "embedded")
    BY <1>2, <1>3
  <2> QED BY <1>2, <1>3, <2>1, VectorsUntouched
<1>5. CASE Replaying("vectors")
  <2>1. replay["vectors"] \in 0..Len(stream) BY <1>2, <1>5 DEF Base, ReplayInv, Replaying, NoReplay, Stores
  <2> QED BY <1>1, <1>3, <1>5, <2>1 DEF VectorsInv
<1>6. CASE ~ Replaying("vectors")
  <2>1. ASSUME NEW w \in Owing("vectors") PROVE run'[w].events = run[w].events
    BY DEF Spared, Owing, SameDue
  <2> QED BY <1>1, <1>4, <1>6, <2>1 DEF VectorsInv
<1> QED BY <1>5, <1>6

(* Who is spared by what. *)
LEMMA OneMoves ==
  ASSUME Base, NEW w \in Workers, NEW n, Become(w, n), replay' = replay,
         NEW st \in Stores, st \notin stale' => st \notin stale /\ SameDue(st, run[w], n)
  PROVE  Spared(st)
<1>1. run'[w] = n /\ \A v \in Workers \ {w} : run'[v] = run[v]
  BY Becoming DEF Base, RunsInv
<1>2. \A v \in Workers : SameDue(st, run[v], run[v]) BY DEF SameDue
<1> QED BY <1>1, <1>2 DEF Spared

(* A run with nothing to write owes nothing. *)
Quiet == {"idle", "loaded", "save", "embed", "vectors"}

LEMMA OwesNothing ==
  ASSUME NEW r, r.phase \in Quiet
  PROVE  \A st \in Stores : st \notin Owes(r)
BY DEF Quiet, Owes

LEMMA QuietSpares ==
  ASSUME Base, NEW w \in Workers,
         \/ \E job \in Jobs : Load(w, job)
         \/ \E found \in SUBSET Entities : DecideExtraction(w, found)
         \/ DecideIndex(w) \/ Embed(w)
  PROVE  stream' = stream /\ stores' = stores /\ \A st \in Stores : Spared(st)
<1>1. stream' = stream /\ stores' = stores /\ replay' = replay /\ stale' = stale
  BY DEF Load, DecideExtraction, DecideIndex, Embed, stores
<1>2. run[w].phase \in Quiet BY DEF Load, DecideExtraction, DecideIndex, Embed, Quiet
<1>3. DOMAIN run[w] = Fields BY DEF Base, RunsInv, RunOK
<1>4. \E n : Become(w, n) /\ n.phase \in Quiet
  <2>1. Idle.phase \in Quiet BY DEF Idle, Quiet
  <2>2. ASSUME NEW job \in Jobs, Load(w, job) PROVE \E n : Become(w, n) /\ n.phase \in Quiet
    <3>1. PICK n : n = [phase |-> "loaded", by |-> job.by, split |-> job.split,
                        embeds |-> job.embeds, version |-> Len(stream), events |-> <<>>]
      OBVIOUS
    <3>2. Become(w, n) BY <2>2, <3>1 DEF Load
    <3>3. n.phase \in Quiet BY <3>1 DEF Quiet
    <3> QED BY <3>2, <3>3
  <2>3. ASSUME NEW found \in SUBSET Entities, DecideExtraction(w, found)
        PROVE \E n : Become(w, n) /\ n.phase \in Quiet
    <3>1. PICK es : es = ExtractionEvents(run[w].version, run[w].by, found)
                           \o ChunkingEvents(run[w].version, run[w].split, run[w].by, FALSE)
      OBVIOUS
    <3>2. PICK n : n = [run[w] EXCEPT !.phase = "save", !.events = es] OBVIOUS
    <3>3. Become(w, IF es = <<>> THEN Idle ELSE n) BY <2>3, <3>1, <3>2, Zenon DEF DecideExtraction
    <3>4. n.phase = "save" BY <1>3, <3>2, Zenon DEF Fields
    <3>5. Become(w, Idle) \/ Become(w, n) BY <3>3
    <3> QED BY <2>1, <3>4, <3>5 DEF Quiet
  <2>4. ASSUME DecideIndex(w) PROVE \E n : Become(w, n) /\ n.phase \in Quiet
    <3>1. PICK es : es = ChunkingEvents(run[w].version, run[w].split, Index, run[w].embeds)
      OBVIOUS
    <3>2. PICK n : n = [run[w] EXCEPT !.phase = "save", !.events = es] OBVIOUS
    <3>3. Become(w, IF es = <<>> THEN Idle ELSE n) BY <2>4, <3>1, <3>2, Zenon DEF DecideIndex
    <3>4. n.phase = "save" BY <1>3, <3>2, Zenon DEF Fields
    <3>5. Become(w, Idle) \/ Become(w, n) BY <3>3
    <3> QED BY <2>1, <3>4, <3>5 DEF Quiet
  <2>5. ASSUME Embed(w) PROVE \E n : Become(w, n) /\ n.phase \in Quiet
    <3>1. PICK n : n = [run[w] EXCEPT !.phase = "vectors",
                          !.events = Append(@, [type |-> "embedded",
                                                entities |-> run[w].events[1].entities])]
      OBVIOUS
    <3>2. Become(w, IF EmbeddingRepeated(run[w].version) THEN Idle ELSE n)
      BY <2>5, <3>1, Zenon DEF Embed
    <3>3. n.phase = "vectors" BY <1>3, <3>1, Zenon DEF Fields
    <3>4. Become(w, Idle) \/ Become(w, n) BY <3>2
    <3> QED BY <2>1, <3>3, <3>4 DEF Quiet
  <2> QED BY <2>2, <2>3, <2>4, <2>5
<1>5. PICK n : Become(w, n) /\ n.phase \in Quiet BY <1>4
<1>6. \A st \in Stores : SameDue(st, run[w], n) BY <1>2, <1>5, OwesNothing DEF SameDue
<1> QED BY <1>1, <1>5, <1>6, OneMoves

LEMMA EndRunSpares ==
  ASSUME Base, NEW w \in Workers, SaveConflict(w) \/ Die(w)
  PROVE  stream' = stream /\ stores' = stores /\ \A st \in Stores : Spared(st)
<1>1. /\ stream' = stream /\ stores' = stores /\ replay' = replay /\ Become(w, Idle)
      /\ stale' = stale \union Owes(run[w])
  BY DEF SaveConflict, Die, EndRun
<1>2. \A st \in Stores : st \notin Owes(Idle) BY DEF Owes, Idle
<1>3. \A st \in Stores : st \notin stale' => st \notin stale /\ SameDue(st, run[w], Idle)
  BY <1>1, <1>2 DEF SameDue
<1> QED BY <1>1, <1>3, OneMoves
(* What each write of a run leaves alone, and what it finds. *)
LEMMA SaveSpares ==
  ASSUME Base, NEW w \in Workers, Save(w)
  PROVE  /\ Spared("vectors")
         /\ run[w].events[1].type # "extracted" => Spared("graph")
         /\ LastOf(run[w].events).type # "chunked" => Spared("corpus")
         /\ stores' = stores /\ replay' = replay
<1> DEFINE r == run[w]
           n == run'[w]
<1>1. /\ r.phase = "save" /\ n.events = r.events
      /\ n.phase = IF LastOf(r.events).type = "chunked" THEN "corpus" ELSE "rows"
      /\ stale' = stale \union (Owes(n) \intersect Contended(w))
      /\ \A v \in Workers \ {w} : run'[v] = run[v]
  BY SaveEffect
<1>2. stores' = stores /\ replay' = replay BY DEF Save
<1>3. \A st \in Stores : st \notin Owes(r) BY <1>1, OwesNothing DEF Quiet
<1> HIDE DEF n
<1>4. /\ "vectors" \notin Owes(n)
      /\ r.events[1].type # "extracted" => "graph" \notin Owes(n)
      /\ LastOf(r.events).type # "chunked" => "corpus" \notin Owes(n)
  BY <1>1 DEF Owes
<1>5. \A st \in Stores : st \notin Owes(n) => Spared(st)
  <2> SUFFICES ASSUME NEW st \in Stores, st \notin Owes(n) PROVE Spared(st) OBVIOUS
  <2>1. \A v \in Workers : SameDue(st, run[v], run'[v])
    BY <1>1, <1>3 DEF SameDue, n
  <2> QED BY <1>1, <1>2, <2>1 DEF Spared
<1> QED BY <1>2, <1>4, <1>5 DEF Stores

LEMMA PersistSpares ==
  ASSUME Base, NEW w \in Workers, Persist(w)
  PROVE  Spared("graph") /\ Spared("corpus") /\ stores' = stores /\ replay' = replay
<1>1. /\ run[w].phase = "persist" /\ Become(w, Idle) /\ stores' = stores /\ replay' = replay
      /\ stale' = stale
  BY DEF Persist
<1>2. \A st \in {"graph", "corpus"} : st \notin Owes(Idle) /\ st \notin Owes(run[w])
  BY <1>1 DEF Owes, Idle
<1>3. \A st \in {"graph", "corpus"} : st \in Stores /\ SameDue(st, run[w], Idle)
  BY <1>2 DEF SameDue, Stores
<1> QED BY <1>1, <1>3, OneMoves

LEMMA ChunksSpare ==
  ASSUME Base, NEW w \in Workers, ProjectChunks(w)
  PROVE  /\ Spared("graph") /\ Spared("vectors") /\ run[w].phase = "corpus"
         /\ corpus' = ReplaceSource(corpus, LastOf(run[w].events))
         /\ stream' = stream /\ graph' = graph /\ vectors' = vectors /\ replay' = replay
         /\ stale' = stale /\ "corpus" \notin Owes(run'[w])
         /\ \A v \in Workers \ {w} : run'[v] = run[v]
<1> DEFINE r == run[w]
<1>0. PICK n : n = [r EXCEPT !.phase = "rows"] OBVIOUS
<1>1. /\ r.phase = "corpus" /\ stream' = stream /\ replay' = replay /\ stale' = stale
      /\ graph' = graph /\ vectors' = vectors
      /\ Become(w, IF r.events[1].type = "extracted" THEN n ELSE Idle)
  BY <1>0, Zenon DEF ProjectChunks
<1>2. corpus' = ReplaceSource(corpus, LastOf(r.events)) BY DEF ProjectChunks, LastOf
<1>3. DOMAIN r = Fields BY DEF Base, RunsInv, RunOK
<1>4. n.phase = "rows" /\ n.events = r.events BY <1>0, <1>3, Zenon DEF Fields
<1>5. PICK q : q = IF r.events[1].type = "extracted" THEN n ELSE Idle OBVIOUS
<1>6. Become(w, q) BY <1>1, <1>5
<1>7. \A st \in {"graph", "vectors"} : st \in Stores /\ SameDue(st, r, q)
  BY <1>1, <1>4, <1>5 DEF SameDue, Owes, Stores, Idle
<1>8. "corpus" \notin Owes(q) BY <1>4, <1>5 DEF Owes, Idle
<1>9. run'[w] = q /\ \A v \in Workers \ {w} : run'[v] = run[v]
  BY <1>6, Becoming DEF Base, RunsInv
<1>10. \A st \in {"graph", "vectors"} : Spared(st) BY <1>1, <1>6, <1>7, OneMoves
<1> QED BY <1>1, <1>2, <1>8, <1>9, <1>10

LEMMA RowsSpare ==
  ASSUME Base, NEW w \in Workers, ProjectRows(w)
  PROVE  /\ Spared("corpus") /\ Spared("vectors") /\ run[w].phase = "rows"
         /\ graph' = WithRows(graph, run[w].events[1])
         /\ stream' = stream /\ corpus' = corpus /\ vectors' = vectors /\ replay' = replay
         /\ stale' = stale /\ run'[w].phase = "retract" /\ run'[w].events = run[w].events
         /\ \A v \in Workers \ {w} : run'[v] = run[v]
<1> DEFINE r == run[w]
<1>0. PICK n : n = [r EXCEPT !.phase = "retract"] OBVIOUS
<1>1. /\ r.phase = "rows" /\ stream' = stream /\ replay' = replay /\ stale' = stale
      /\ corpus' = corpus /\ vectors' = vectors /\ Become(w, n)
      /\ graph' = WithRows(graph, r.events[1])
  BY <1>0, Zenon DEF ProjectRows
<1>2. DOMAIN r = Fields BY DEF Base, RunsInv, RunOK
<1>3. n.phase = "retract" /\ n.events = r.events BY <1>0, <1>2, Zenon DEF Fields
<1>4. \A st \in {"corpus", "vectors"} : st \in Stores /\ SameDue(st, r, n)
  BY <1>1, <1>3 DEF SameDue, Owes, Stores
<1>5. run'[w] = n /\ \A v \in Workers \ {w} : run'[v] = run[v]
  BY <1>1, Becoming DEF Base, RunsInv
<1>6. \A st \in {"corpus", "vectors"} : Spared(st) BY <1>1, <1>4, OneMoves
<1> QED BY <1>1, <1>3, <1>5, <1>6

LEMMA RetractionsSpare ==
  ASSUME Base, NEW w \in Workers, ProjectRetractions(w)
  PROVE  /\ Spared("corpus") /\ Spared("vectors") /\ run[w].phase = "retract"
         /\ graph' = WithRetractions(graph, run[w].events[1])
         /\ stream' = stream /\ corpus' = corpus /\ vectors' = vectors /\ replay' = replay
         /\ stale' = stale /\ "graph" \notin Owes(run'[w])
         /\ \A v \in Workers \ {w} : run'[v] = run[v]
<1> DEFINE r == run[w]
<1>0. PICK n : n = [r EXCEPT !.phase = "embed"] OBVIOUS
<1>1. /\ r.phase = "retract" /\ stream' = stream /\ replay' = replay /\ stale' = stale
      /\ corpus' = corpus /\ vectors' = vectors
      /\ Become(w, IF r.embeds /\ r.events[1].entities # {} THEN n ELSE Idle)
      /\ graph' = WithRetractions(graph, r.events[1])
  BY <1>0, Zenon DEF ProjectRetractions
<1>2. DOMAIN r = Fields BY DEF Base, RunsInv, RunOK
<1>3. n.phase = "embed" BY <1>0, <1>2, Zenon DEF Fields
<1>4. PICK q : q = IF r.embeds /\ r.events[1].entities # {} THEN n ELSE Idle OBVIOUS
<1>5. Become(w, q) BY <1>1, <1>4
<1>6. q.phase \in Quiet BY <1>3, <1>4 DEF Quiet, Idle
<1>7. \A st \in Stores : st \notin Owes(q) BY <1>6, OwesNothing
<1>8. \A st \in {"corpus", "vectors"} : st \in Stores /\ SameDue(st, r, q)
  BY <1>1, <1>7 DEF SameDue, Owes, Stores
<1>9. run'[w] = q /\ \A v \in Workers \ {w} : run'[v] = run[v]
  BY <1>5, Becoming DEF Base, RunsInv
<1>10. \A st \in {"corpus", "vectors"} : Spared(st) BY <1>1, <1>5, <1>8, OneMoves
<1> QED BY <1>1, <1>7, <1>9, <1>10 DEF Stores

LEMMA VectorsSpare ==
  ASSUME Base, NEW w \in Workers, ProjectVectors(w)
  PROVE  /\ Spared("graph") /\ Spared("corpus") /\ run[w].phase = "vectors"
         /\ vectors' = vectors \union LastOf(run[w].events).entities
         /\ stream' = stream /\ corpus' = corpus /\ graph' = graph /\ replay' = replay
         /\ stale' = stale \union (Owes(run'[w]) \intersect Contended(w))
         /\ run'[w].phase = "persist" /\ run'[w].events = run[w].events
         /\ \A v \in Workers \ {w} : run'[v] = run[v]
<1> DEFINE r == run[w]
<1>0. PICK n : n = [r EXCEPT !.phase = "persist"] OBVIOUS
<1>1. /\ r.phase = "vectors" /\ stream' = stream /\ replay' = replay
      /\ corpus' = corpus /\ graph' = graph /\ Become(w, n)
      /\ stale' = stale \union (Owes(n) \intersect Contended(w))
  BY <1>0, Zenon DEF ProjectVectors, BecomeOwing
<1>2. DOMAIN r = Fields BY DEF Base, RunsInv, RunOK
<1>3. n.phase = "persist" /\ n.events = r.events BY <1>0, <1>2, Zenon DEF Fields
<1>4. \A st \in {"graph", "corpus"} : /\ st \in Stores /\ st \notin Owes(n) /\ st \notin Owes(r)
                                      /\ SameDue(st, r, n)
  BY <1>1, <1>3 DEF SameDue, Owes, Stores
<1>5. run'[w] = n /\ \A v \in Workers \ {w} : run'[v] = run[v]
  BY <1>1, Becoming DEF Base, RunsInv
<1>6. \A st \in {"graph", "corpus"} : Spared(st) BY <1>1, <1>4, OneMoves
<1>7. vectors' = vectors \union LastOf(r.events).entities BY DEF ProjectVectors, LastOf
<1> QED BY <1>1, <1>3, <1>5, <1>6, <1>7

(* A rebuild, of the stores it does not rebuild. *)
LEMMA RebuildSpares ==
  ASSUME Base, NEW s \in Stores, StartRebuild(s) \/ ReplayNext(s) \/ EndRebuild(s),
         NEW st \in Stores \ {s}
  PROVE  /\ Spared(st) /\ stream' = stream
         /\ st = "graph" => graph' = graph
         /\ st = "corpus" => corpus' = corpus
         /\ st = "vectors" => vectors' = vectors
<1>1. /\ stream' = stream /\ run' = run
      /\ st = "graph" => graph' = graph
      /\ st = "corpus" => corpus' = corpus
      /\ st = "vectors" => vectors' = vectors
  BY DEF StartRebuild, ReplayNext, EndRebuild, stores
<1>2. st \in stale' <=> st \in stale BY DEF StartRebuild, ReplayNext, EndRebuild
<1>3. replay'[st] = replay[st]
  <2>1. DOMAIN replay = Stores BY DEF Base, ReplayInv
  <2> QED BY <2>1 DEF StartRebuild, ReplayNext, EndRebuild
<1> QED BY <1>1, <1>2, <1>3 DEF Spared, SameDue

(* Whoever begins to owe a store that is not left stale owes it alone. *)
LEMMA BeginsToOwe ==
  ASSUME NEW w \in Workers, NEW st \in Stores, st \notin Owes(run[w]),
         \A v \in Workers \ {w} : run'[v] = run[v], replay' = replay,
         st \in Owes(run'[w]), stale' = stale \union (Owes(run'[w]) \intersect Contended(w)),
         st \notin stale'
  PROVE  /\ st \notin stale /\ ~ Replaying(st) /\ ~ Replaying(st)'
         /\ Owing(st) = {} /\ Owing(st)' = {w} /\ AloneOwing(st)'
<1>1. st \notin stale /\ ~ Replaying(st) /\ \A v \in Workers \ {w} : st \notin Owes(run[v])
  BY DEF Contended
<1>2. Owing(st) = {} BY <1>1 DEF Owing
<1>3. Owing(st)' = {w}
  <2>1. \A v \in Workers : st \in Owes(run'[v]) <=> v = w BY <1>1
  <2> QED BY <2>1 DEF Owing
<1>4. ~ Replaying(st)' BY <1>1 DEF Replaying
<1> QED BY <1>1, <1>2, <1>3, <1>4 DEF AloneOwing

(* Whoever no longer owes a store, which is not stale, was alone. *)
LEMMA CeasesToOwe ==
  ASSUME NEW w \in Workers, NEW st \in Stores, st \in Owes(run[w]), st \notin Owes(run'[w]),
         \A v \in Workers \ {w} : run'[v] = run[v], replay' = replay, AloneOwing(st)
  PROVE  /\ ~ Replaying(st) /\ ~ Replaying(st)' /\ w \in Owing(st)
         /\ Owing(st)' = {} /\ AloneOwing(st)'
<1>1. w \in Owing(st) BY DEF Owing
<1>2. ~ Replaying(st) /\ \A v \in Owing(st) : v = w BY <1>1 DEF AloneOwing
<1>3. Owing(st)' = {}
  <2>1. \A v \in Workers : st \notin Owes(run'[v]) BY <1>2 DEF Owing
  <2> QED BY <2>1 DEF Owing
<1>4. ~ Replaying(st)' BY <1>2 DEF Replaying
<1> QED BY <1>1, <1>2, <1>3, <1>4 DEF AloneOwing
-----------------------------------------------------------------------------
(* The graph *)

(* Projecting the last extraction, once the graph is what the ones before it say. *)
LEMMA GraphCaughtUp ==
  ASSUME NEW s \in Seq(Event), Exact(s), NEW v \in 0..(Len(s) - 1),
         At(s, Len(s), "extracted") = At(s, v, "extracted") \union {v + 1}
  PROVE  WithRetractions(WithRows(GraphAt(s, v), s[v + 1]), s[v + 1]) = GraphAt(s, Len(s))
<1>1. v \in Nat /\ v + 1 \in 1..Len(s) /\ (v + 1) - 1 = v OBVIOUS
<1>2. v + 1 \in At(s, Len(s), "extracted") OBVIOUS
<1>3. s[v + 1].type = "extracted" BY <1>2 DEF At
<1>4. s[v + 1].retracted = LastIn(s, v) \ s[v + 1].entities BY <1>1, <1>2 DEF Exact
<1>5. WithRetractions(WithRows(GraphAt(s, v), s[v + 1]), s[v + 1]) = GraphAt(s, v + 1)
  BY <1>1, <1>3, <1>4, GraphStep
<1>6. At(s, v + 1, "extracted") = At(s, Len(s), "extracted") BY <1>1, <1>3, AtNext
<1> QED BY <1>5, <1>6, GraphUntouched

LEMMA SaveKeepsGraph ==
  ASSUME Base, GraphInv, NEW w \in Workers, Save(w)
  PROVE  GraphInv'
<1> DEFINE r == run[w]
           n == run'[w]
           es == r.events
<1>1. /\ r.phase = "save" /\ Fresh(es, stream, Len(stream)) /\ es \in Seq(Event)
      /\ stream' = stream \o es /\ Begins(stream, stream')
      /\ n.events = es /\ \A v \in Workers \ {w} : run'[v] = run[v]
      /\ n.phase = IF LastOf(es).type = "chunked" THEN "corpus" ELSE "rows"
      /\ stale' = stale \union (Owes(n) \intersect Contended(w))
  BY SaveEffect
<1>2. stream \in Seq(Event) BY DEF Base, StreamInv
<1>3. /\ es[1].type # "extracted" => Spared("graph")
      /\ graph' = graph /\ replay' = replay
  BY SaveSpares DEF stores
<1> HIDE DEF n, es
<1>4. /\ Len(stream') = Len(stream) + Len(es)
      /\ \A i \in 1..Len(es) : stream'[Len(stream) + i] = es[i]
      /\ At(stream', Len(stream'), "extracted")
           = At(stream, Len(stream), "extracted")
               \union {Len(stream) + i : i \in {m \in 1..Len(es) : es[m].type = "extracted"}}
  <2>1. es \in Seq(Event) /\ stream' = stream \o es BY <1>1
  <2> QED BY <1>2, <2>1, Grown
<1>5. Len(es) \in Nat /\ Len(es) >= 1 /\ Len(stream) \in Nat /\ 1 \in 1..Len(es)
  <2>1. Len(es) \in {1, 2} BY <1>1 DEF Fresh
  <2>2. Len(stream) \in Nat BY <1>2
  <2> QED BY <2>1, <2>2
<1>6. CASE es[1].type # "extracted"
  <2>1. {m \in 1..Len(es) : es[m].type = "extracted"} = {} BY <1>1, <1>6 DEF Fresh
  <2>2. {Len(stream) + i : i \in {}} = {} OBVIOUS
  <2>3. At(stream', Len(stream'), "extracted") = At(stream, Len(stream), "extracted")
    BY <1>4, <2>1, <2>2
  <2> QED BY <1>1, <1>3, <1>6, <2>3, GraphSpared
<1>7. CASE es[1].type = "extracted"
  <2>1. {m \in 1..Len(es) : es[m].type = "extracted"} = {1} BY <1>1, <1>5, <1>7 DEF Fresh
  <2>2. {Len(stream) + i : i \in {1}} = {Len(stream) + 1} OBVIOUS
  <2>3. At(stream', Len(stream'), "extracted")
          = At(stream, Len(stream), "extracted") \union {Len(stream) + 1}
    BY <1>4, <2>1, <2>2
  <2>4. "graph" \notin Owes(r) BY <1>1, OwesNothing DEF Quiet, Stores
  <2>5. "graph" \in Owes(n) BY <1>1, <1>7 DEF Owes, Stores
  <2> SUFFICES ASSUME "graph" \notin stale' PROVE GraphInv' BY DEF GraphInv
  <2>6. /\ "graph" \notin stale /\ ~ Replaying("graph") /\ ~ Replaying("graph")'
        /\ Owing("graph") = {} /\ Owing("graph")' = {w} /\ AloneOwing("graph")'
    BY <1>1, <1>3, <2>4, <2>5, BeginsToOwe DEF Stores, n
  <2>7. graph = GraphAt(stream, Len(stream)) BY <2>6 DEF GraphInv
  <2>8. /\ GraphAt(stream', Len(stream)) = GraphAt(stream, Len(stream))
        /\ At(stream', Len(stream), "extracted") = At(stream, Len(stream), "extracted")
    BY <1>1, <1>5, SaysTheSame, AtPrefix
  <2>9. Len(stream) \in 0..(Len(stream') - 1) BY <1>4, <1>5
  <2>10. stream'[Len(stream) + 1] = n.events[1] BY <1>1, <1>4, <1>5
  <2>11. n.phase # "retract" BY <1>1
  <2>12. GraphBehind(n, stream', graph')
    BY <1>3, <2>3, <2>7, <2>8, <2>9, <2>10, <2>11 DEF GraphBehind
  <2> QED BY <2>6, <2>12 DEF GraphInv, n
<1> QED BY <1>6, <1>7

LEMMA RowsKeepGraph ==
  ASSUME Base, GraphInv, NEW w \in Workers, ProjectRows(w)
  PROVE  GraphInv'
<1> SUFFICES ASSUME "graph" \notin stale' PROVE GraphInv' BY DEF GraphInv
<1> DEFINE r == run[w]
           n == run'[w]
<1>1. /\ r.phase = "rows" /\ graph' = WithRows(graph, r.events[1])
      /\ stream' = stream /\ replay' = replay /\ stale' = stale
      /\ n.phase = "retract" /\ n.events = r.events
      /\ \A v \in Workers \ {w} : run'[v] = run[v]
  BY RowsSpare
<1>2. r.events[1].type = "extracted" BY <1>1 DEF Base, RunsInv, RunOK
<1>3. "graph" \in Owes(r) /\ "graph" \in Owes(n) BY <1>1, <1>2 DEF Owes, Stores
<1>4. w \in Owing("graph") BY <1>3 DEF Owing
<1>5. AloneOwing("graph") /\ ~ Replaying("graph") /\ ~ Replaying("graph")'
  BY <1>1, <1>4 DEF GraphInv, AloneOwing, Replaying
<1>6. Owing("graph")' = Owing("graph") /\ AloneOwing("graph")' /\ Owing("graph") = {w}
  <2>1. \A v \in Workers : "graph" \in Owes(run'[v]) <=> "graph" \in Owes(run[v])
    BY <1>1, <1>3
  <2>2. Owing("graph")' = Owing("graph") BY <2>1 DEF Owing
  <2> QED BY <1>4, <1>5, <2>2 DEF AloneOwing
<1>7. GraphBehind(r, stream, graph) BY <1>1, <1>4, <1>5 DEF GraphInv
<1>8. GraphBehind(n, stream, graph')
  <2>1. PICK v \in 0..(Len(stream) - 1) :
          /\ At(stream, Len(stream), "extracted") = At(stream, v, "extracted") \union {v + 1}
          /\ stream[v + 1] = r.events[1]
          /\ graph = GraphAt(stream, v)
    BY <1>1, <1>7 DEF GraphBehind
  <2>2. graph' = WithRows(GraphAt(stream, v), stream[v + 1]) BY <1>1, <2>1
  <2> QED BY <1>1, <2>1, <2>2 DEF GraphBehind
<1> HIDE DEF n
<1> QED BY <1>1, <1>5, <1>6, <1>8 DEF GraphInv, n

LEMMA RetractionsKeepGraph ==
  ASSUME Base, GraphInv, NEW w \in Workers, ProjectRetractions(w)
  PROVE  GraphInv'
<1> SUFFICES ASSUME "graph" \notin stale' PROVE GraphInv' BY DEF GraphInv
<1> DEFINE r == run[w]
<1>1. /\ r.phase = "retract" /\ graph' = WithRetractions(graph, r.events[1])
      /\ stream' = stream /\ replay' = replay /\ stale' = stale
      /\ "graph" \notin Owes(run'[w])
      /\ \A v \in Workers \ {w} : run'[v] = run[v]
  BY RetractionsSpare
<1>2. r.events[1].type = "extracted" BY <1>1 DEF Base, RunsInv, RunOK
<1>3. "graph" \in Owes(r) BY <1>1, <1>2 DEF Owes, Stores
<1>4. /\ ~ Replaying("graph") /\ ~ Replaying("graph")' /\ w \in Owing("graph")
      /\ Owing("graph")' = {} /\ AloneOwing("graph")'
  BY <1>1, <1>3, CeasesToOwe DEF GraphInv, Stores
<1>5. GraphBehind(r, stream, graph) BY <1>1, <1>4 DEF GraphInv
<1>6. graph' = GraphAt(stream, Len(stream))
  <2>1. PICK v \in 0..(Len(stream) - 1) :
          /\ At(stream, Len(stream), "extracted") = At(stream, v, "extracted") \union {v + 1}
          /\ stream[v + 1] = r.events[1]
          /\ graph = WithRows(GraphAt(stream, v), stream[v + 1])
    BY <1>1, <1>5 DEF GraphBehind
  <2>2. graph' = WithRetractions(WithRows(GraphAt(stream, v), stream[v + 1]), stream[v + 1])
    BY <1>1, <2>1
  <2> QED BY <2>1, <2>2, GraphCaughtUp DEF Base, StreamInv
<1> QED BY <1>1, <1>4, <1>6 DEF GraphInv

LEMMA RebuildKeepsGraph ==
  ASSUME Base, GraphInv,
         StartRebuild("graph") \/ ReplayNext("graph") \/ EndRebuild("graph")
  PROVE  GraphInv'
<1> SUFFICES ASSUME "graph" \notin stale' PROVE GraphInv' BY DEF GraphInv
<1>1. stream' = stream /\ run' = run /\ stream \in Seq(Event)
  BY DEF StartRebuild, ReplayNext, EndRebuild, Base, StreamInv
<1>2. Owing("graph")' = Owing("graph") BY <1>1 DEF Owing
<1>3. "graph" \in DOMAIN replay /\ Len(stream) \in Nat
  BY <1>1 DEF Base, ReplayInv, Stores
<1>4. CASE StartRebuild("graph")
  <2>1. /\ graph' = [x \in Entities |-> "none"] /\ replay'["graph"] = 0
        /\ \A w \in Workers : "graph" \notin Owes(run[w])
    BY <1>3, <1>4 DEF StartRebuild
  <2>2. Owing("graph") = {} BY <2>1 DEF Owing
  <2>3. graph' = GraphAt(stream, 0) BY <2>1, NothingSaid
  <2> QED BY <1>1, <1>2, <2>1, <2>2, <2>3 DEF GraphInv, AloneOwing, Replaying, NoReplay
<1>5. CASE ReplayNext("graph")
  <2> DEFINE v == replay["graph"]
             e == stream[v + 1]
  <2>1. /\ Replaying("graph") /\ v < Len(stream) /\ replay'["graph"] = v + 1 /\ stale' = stale
        /\ graph' = IF e.type = "extracted" THEN WithRetractions(WithRows(graph, e), e) ELSE graph
    BY <1>3, <1>5 DEF ReplayNext
  <2>2. AloneOwing("graph") /\ Owing("graph") = {} /\ graph = GraphAt(stream, v)
    BY <2>1 DEF GraphInv, AloneOwing
  <2>3. v \in Nat /\ v + 1 \in 1..Len(stream) /\ (v + 1) - 1 = v
    BY <1>3, <2>1 DEF Base, ReplayInv, Replaying, NoReplay, Stores
  <2>4. graph' = GraphAt(stream, v + 1)
    <3>1. CASE e.type = "extracted"
      <4>1. v + 1 \in At(stream, Len(stream), "extracted") BY <2>3, <3>1 DEF At
      <4>2. e.retracted = LastIn(stream, v) \ e.entities
        BY <2>3, <4>1 DEF Base, StreamInv, Exact
      <4> QED BY <1>1, <2>1, <2>2, <2>3, <3>1, <4>2, GraphStep
    <3>2. CASE e.type # "extracted"
      <4>1. At(stream, v + 1, "extracted") = At(stream, v, "extracted") BY <2>3, <3>2, AtNext
      <4> QED BY <2>1, <2>2, <3>2, <4>1, GraphUntouched
    <3> QED BY <3>1, <3>2
  <2>5. Replaying("graph")' BY <2>1, <2>3 DEF Replaying, NoReplay
  <2> HIDE DEF v, e
  <2> QED BY <1>1, <1>2, <2>1, <2>2, <2>4, <2>5 DEF GraphInv, AloneOwing
<1>6. CASE EndRebuild("graph")
  <2>1. /\ replay["graph"] = Len(stream) /\ replay'["graph"] = NoReplay
        /\ stale' = stale /\ graph' = graph
    BY <1>3, <1>6 DEF EndRebuild, stores
  <2>2. Replaying("graph") /\ ~ Replaying("graph")' BY <1>3, <2>1 DEF Replaying, NoReplay
  <2>3. AloneOwing("graph") /\ Owing("graph") = {} /\ graph = GraphAt(stream, Len(stream))
    BY <2>1, <2>2 DEF GraphInv, AloneOwing
  <2> QED BY <1>1, <1>2, <2>1, <2>2, <2>3 DEF GraphInv, AloneOwing
<1> QED BY <1>4, <1>5, <1>6

(* The steps that write nothing to any store and record nothing. *)
QuietStep(w) ==
  \/ \E job \in Jobs : Load(w, job)
  \/ \E found \in SUBSET Entities : DecideExtraction(w, found)
  \/ DecideIndex(w) \/ Embed(w) \/ SaveConflict(w) \/ Die(w)

LEMMA NothingSpared ==
  ASSUME Base, UNCHANGED vars \/ \E w \in Workers : QuietStep(w)
  PROVE  /\ stream' = stream /\ graph' = graph /\ corpus' = corpus /\ vectors' = vectors
         /\ \A st \in Stores : Spared(st)
<1>1. CASE UNCHANGED vars BY <1>1 DEF vars, stores, Spared, SameDue
<1>2. ASSUME NEW w \in Workers, QuietStep(w)
      PROVE  /\ stream' = stream /\ stores' = stores
             /\ \A st \in Stores : Spared(st)
  BY <1>2, QuietSpares, EndRunSpares DEF QuietStep
<1>3. CASE \E w \in Workers : QuietStep(w) BY <1>2, <1>3 DEF stores
<1> QED BY <1>1, <1>3

LEMMA NextSteps ==
  ASSUME Next
  PROVE  \/ \E w \in Workers :
              \/ QuietStep(w) \/ Save(w) \/ ProjectChunks(w) \/ ProjectRows(w)
              \/ ProjectRetractions(w) \/ ProjectVectors(w) \/ Persist(w)
         \/ \E s \in Stores : StartRebuild(s) \/ ReplayNext(s) \/ EndRebuild(s)
BY DEF Next, QuietStep

LEMMA GraphHolds ==
  /\ Init => GraphInv
  /\ Base /\ GraphInv /\ [Next]_vars => GraphInv'
<1>1. ASSUME Init PROVE GraphInv
  <2>1. /\ stream = <<>> /\ Len(stream) = 0 /\ graph = [x \in Entities |-> "none"]
        /\ replay["graph"] = NoReplay
    BY <1>1 DEF Init, Stores
  <2>2. \A w \in Workers : "graph" \notin Owes(run[w]) BY <1>1 DEF Init, Owes, Idle
  <2>3. Owing("graph") = {} BY <2>2 DEF Owing
  <2> QED BY <2>1, <2>3, NothingSaid DEF GraphInv, AloneOwing, Replaying
<1> SUFFICES ASSUME Base, GraphInv, [Next]_vars PROVE GraphInv'
  BY <1>1
<1>2. Begins(stream, stream) BY SameStream DEF Base, StreamInv
<1>3. CASE UNCHANGED vars \/ \E w \in Workers : QuietStep(w)
  BY <1>2, <1>3, NothingSpared, GraphSpared DEF Stores
<1>4. ASSUME NEW w \in Workers, ProjectChunks(w) \/ ProjectVectors(w) PROVE GraphInv'
  BY <1>2, <1>4, ChunksSpare, VectorsSpare, GraphSpared
<1>5. ASSUME NEW w \in Workers, Persist(w) PROVE GraphInv'
  <2>1. Spared("graph") /\ graph' = graph BY <1>5, PersistSpares DEF stores
  <2> QED BY <1>5, <2>1, PersistEffect, GraphSpared
<1>6. ASSUME NEW s \in Stores, StartRebuild(s) \/ ReplayNext(s) \/ EndRebuild(s) PROVE GraphInv'
  <2>1. CASE s = "graph" BY <1>6, <2>1, RebuildKeepsGraph
  <2>2. CASE s # "graph"
    <3>1. Spared("graph") /\ stream' = stream /\ graph' = graph
      BY <1>6, <2>2, RebuildSpares DEF Stores
    <3> QED BY <1>2, <3>1, GraphSpared
  <2> QED BY <2>1, <2>2
<1>7. CASE Next
  BY <1>3, <1>4, <1>5, <1>6, <1>7, NextSteps, SaveKeepsGraph, RowsKeepGraph, RetractionsKeepGraph
<1> QED BY <1>3, <1>7
-----------------------------------------------------------------------------
(* The corpus *)

LEMMA SaveKeepsCorpus ==
  ASSUME Base, CorpusInv, NEW w \in Workers, Save(w)
  PROVE  CorpusInv'
<1> DEFINE r == run[w]
           n == run'[w]
           es == r.events
<1>1. /\ r.phase = "save" /\ Fresh(es, stream, Len(stream)) /\ es \in Seq(Event)
      /\ stream' = stream \o es /\ Begins(stream, stream')
      /\ n.events = es /\ \A v \in Workers \ {w} : run'[v] = run[v]
      /\ n.phase = IF LastOf(es).type = "chunked" THEN "corpus" ELSE "rows"
      /\ stale' = stale \union (Owes(n) \intersect Contended(w))
  BY SaveEffect
<1>2. stream \in Seq(Event) BY DEF Base, StreamInv
<1>3. /\ LastOf(es).type # "chunked" => Spared("corpus")
      /\ corpus' = corpus /\ replay' = replay
  BY SaveSpares DEF stores
<1> HIDE DEF n, es
<1>4. /\ Len(stream') = Len(stream) + Len(es)
      /\ \A i \in 1..Len(es) : stream'[Len(stream) + i] = es[i]
      /\ At(stream', Len(stream'), "chunked")
           = At(stream, Len(stream), "chunked")
               \union {Len(stream) + i : i \in {m \in 1..Len(es) : es[m].type = "chunked"}}
  <2>1. es \in Seq(Event) /\ stream' = stream \o es BY <1>1
  <2> QED BY <1>2, <2>1, Grown
<1>5. Len(es) \in {1, 2} /\ Len(stream) \in Nat
  <2>1. Len(es) \in {1, 2} BY <1>1 DEF Fresh
  <2>2. Len(stream) \in Nat BY <1>2
  <2> QED BY <2>1, <2>2
<1>6. \A m \in 1..Len(es) : m < Len(es) => es[m].type # "chunked"
  <2> SUFFICES ASSUME NEW m \in 1..Len(es), m < Len(es) PROVE es[m].type # "chunked" OBVIOUS
  <2>1. CASE Len(es) = 1 BY <2>1
  <2>2. CASE Len(es) = 2
    <3>1. m = 1 BY <2>2
    <3> QED BY <1>1, <2>2, <3>1 DEF Fresh
  <2> QED BY <1>5, <2>1, <2>2
<1>7. CASE LastOf(es).type # "chunked"
  <2>1. {m \in 1..Len(es) : es[m].type = "chunked"} = {} BY <1>5, <1>6, <1>7 DEF LastOf
  <2>2. {Len(stream) + i : i \in {}} = {} OBVIOUS
  <2>3. At(stream', Len(stream'), "chunked") = At(stream, Len(stream), "chunked")
    BY <1>4, <2>1, <2>2
  <2> QED BY <1>1, <1>3, <1>7, <2>3, CorpusSpared
<1>8. CASE LastOf(es).type = "chunked"
  <2>1. {m \in 1..Len(es) : es[m].type = "chunked"} = {Len(es)} BY <1>5, <1>6, <1>8 DEF LastOf
  <2>2. {Len(stream) + i : i \in {Len(es)}} = {Len(stream) + Len(es)} OBVIOUS
  <2>3. At(stream', Len(stream'), "chunked")
          = At(stream, Len(stream), "chunked") \union {Len(stream')}
    BY <1>4, <2>1, <2>2
  <2>4. "corpus" \notin Owes(r) BY <1>1, OwesNothing DEF Quiet, Stores
  <2>5. "corpus" \in Owes(n) BY <1>1, <1>8 DEF Owes, Stores
  <2> SUFFICES ASSUME "corpus" \notin stale' PROVE CorpusInv' BY DEF CorpusInv
  <2>6. /\ "corpus" \notin stale /\ ~ Replaying("corpus") /\ ~ Replaying("corpus")'
        /\ Owing("corpus") = {} /\ Owing("corpus")' = {w} /\ AloneOwing("corpus")'
    BY <1>1, <1>3, <2>4, <2>5, BeginsToOwe DEF Stores, n
  <2> DEFINE v == Len(stream') - 1
  <2>7. CorpusIs(stream, Len(stream), corpus) BY <2>6 DEF CorpusInv
  <2>8. v \in 0..(Len(stream') - 1) /\ Len(stream) <= v /\ v + 1 = Len(stream') /\ v \in Nat
    BY <1>4, <1>5
  <2>9. /\ CorpusIs(stream', Len(stream), corpus)
        /\ At(stream', Len(stream), "chunked") = At(stream, Len(stream), "chunked")
    BY <1>1, <1>5, <2>7, CorpusSaysTheSame, AtPrefix
  <2>10. At(stream', v, "chunked") = At(stream', Len(stream), "chunked")
    <3>1. Len(stream') \notin At(stream', v, "chunked") BY <2>8 DEF At
    <3>2. At(stream', v, "chunked") = At(stream', Len(stream'), "chunked") \ {Len(stream')}
      BY <2>8 DEF At
    <3>3. Len(stream') \notin At(stream, Len(stream), "chunked") BY <1>5, <2>8 DEF At
    <3> QED BY <2>3, <2>9, <3>1, <3>2, <3>3
  <2>11. CorpusIs(stream', v, corpus) BY <2>9, <2>10, CorpusUntouched
  <2>12. stream'[v + 1] = LastOf(n.events) BY <1>1, <1>4, <1>5, <2>8 DEF LastOf
  <2>13. At(stream', Len(stream'), "chunked") = At(stream', v, "chunked") \union {v + 1}
    BY <2>3, <2>8, <2>9, <2>10
  <2> HIDE DEF v
  <2>14. CorpusBehind(n, stream', corpus')
    BY <1>3, <2>8, <2>11, <2>12, <2>13 DEF CorpusBehind
  <2> QED BY <2>6, <2>14 DEF CorpusInv, n
<1> QED BY <1>7, <1>8

LEMMA ChunksKeepCorpus ==
  ASSUME Base, CorpusInv, NEW w \in Workers, ProjectChunks(w)
  PROVE  CorpusInv'
<1> SUFFICES ASSUME "corpus" \notin stale' PROVE CorpusInv' BY DEF CorpusInv
<1> DEFINE r == run[w]
<1>1. /\ r.phase = "corpus" /\ corpus' = ReplaceSource(corpus, LastOf(r.events))
      /\ stream' = stream /\ replay' = replay /\ stale' = stale
      /\ "corpus" \notin Owes(run'[w])
      /\ \A v \in Workers \ {w} : run'[v] = run[v]
  BY ChunksSpare
<1>2. "corpus" \in Owes(r) BY <1>1 DEF Owes, Stores
<1>3. /\ ~ Replaying("corpus") /\ ~ Replaying("corpus")' /\ w \in Owing("corpus")
      /\ Owing("corpus")' = {} /\ AloneOwing("corpus")'
  BY <1>1, <1>2, CeasesToOwe DEF CorpusInv, Stores
<1>4. CorpusBehind(r, stream, corpus) BY <1>1, <1>3 DEF CorpusInv
<1>5. CorpusIs(stream, Len(stream), corpus')
  <2>1. PICK v \in 0..(Len(stream) - 1) :
          /\ At(stream, Len(stream), "chunked") = At(stream, v, "chunked") \union {v + 1}
          /\ stream[v + 1] = LastOf(r.events)
          /\ CorpusIs(stream, v, corpus)
    BY <1>4 DEF CorpusBehind
  <2>2. v \in Nat /\ v + 1 \in 1..Len(stream) /\ stream \in Seq(Event)
    BY DEF Base, StreamInv
  <2>3. stream[v + 1].type = "chunked" BY <2>1 DEF At
  <2>4. CorpusIs(stream, v + 1, corpus') BY <1>1, <2>1, <2>2, <2>3, CorpusStep
  <2>5. At(stream, v + 1, "chunked") = At(stream, Len(stream), "chunked")
    BY <2>1, <2>2, <2>3, AtNext
  <2> QED BY <2>4, <2>5, CorpusUntouched
<1> QED BY <1>1, <1>3, <1>5 DEF CorpusInv

LEMMA RebuildKeepsCorpus ==
  ASSUME Base, CorpusInv,
         StartRebuild("corpus") \/ ReplayNext("corpus") \/ EndRebuild("corpus")
  PROVE  CorpusInv'
<1> SUFFICES ASSUME "corpus" \notin stale' PROVE CorpusInv' BY DEF CorpusInv
<1>1. stream' = stream /\ run' = run /\ stream \in Seq(Event)
  BY DEF StartRebuild, ReplayNext, EndRebuild, Base, StreamInv
<1>2. Owing("corpus")' = Owing("corpus") BY <1>1 DEF Owing
<1>3. "corpus" \in DOMAIN replay /\ Len(stream) \in Nat
  BY <1>1 DEF Base, ReplayInv, Stores
<1>4. CASE StartRebuild("corpus")
  <2>1. /\ corpus' = EmptyCorpus /\ replay'["corpus"] = 0
        /\ \A w \in Workers : "corpus" \notin Owes(run[w])
    BY <1>3, <1>4 DEF StartRebuild
  <2>2. Owing("corpus") = {} BY <2>1 DEF Owing
  <2>3. CorpusIs(stream, 0, corpus') BY <2>1, NothingSaid
  <2> QED BY <1>1, <1>2, <2>1, <2>2, <2>3 DEF CorpusInv, AloneOwing, Replaying, NoReplay
<1>5. CASE ReplayNext("corpus")
  <2> DEFINE v == replay["corpus"]
             e == stream[v + 1]
  <2>1. /\ Replaying("corpus") /\ v < Len(stream) /\ replay'["corpus"] = v + 1 /\ stale' = stale
        /\ corpus' = IF e.type = "chunked" THEN ReplaceSource(corpus, e) ELSE corpus
    BY <1>3, <1>5 DEF ReplayNext
  <2>2. AloneOwing("corpus") /\ Owing("corpus") = {} /\ CorpusIs(stream, v, corpus)
    BY <2>1 DEF CorpusInv, AloneOwing
  <2>3. v \in Nat /\ v + 1 \in 1..Len(stream)
    BY <1>3, <2>1 DEF Base, ReplayInv, Replaying, NoReplay, Stores
  <2>4. CorpusIs(stream, v + 1, corpus')
    <3>1. CASE e.type = "chunked" BY <1>1, <2>1, <2>2, <2>3, <3>1, CorpusStep
    <3>2. CASE e.type # "chunked"
      <4>1. At(stream, v + 1, "chunked") = At(stream, v, "chunked") BY <2>3, <3>2, AtNext
      <4> QED BY <2>1, <2>2, <3>2, <4>1, CorpusUntouched
    <3> QED BY <3>1, <3>2
  <2>5. Replaying("corpus")' BY <2>1, <2>3 DEF Replaying, NoReplay
  <2> HIDE DEF v, e
  <2> QED BY <1>1, <1>2, <2>1, <2>2, <2>4, <2>5 DEF CorpusInv, AloneOwing
<1>6. CASE EndRebuild("corpus")
  <2>1. /\ replay["corpus"] = Len(stream) /\ replay'["corpus"] = NoReplay
        /\ stale' = stale /\ corpus' = corpus
    BY <1>3, <1>6 DEF EndRebuild, stores
  <2>2. Replaying("corpus") /\ ~ Replaying("corpus")' BY <1>3, <2>1 DEF Replaying, NoReplay
  <2>3. /\ AloneOwing("corpus") /\ Owing("corpus") = {}
        /\ CorpusIs(stream, Len(stream), corpus)
    BY <2>1, <2>2 DEF CorpusInv, AloneOwing
  <2> QED BY <1>1, <1>2, <2>1, <2>2, <2>3 DEF CorpusInv, AloneOwing
<1> QED BY <1>4, <1>5, <1>6

LEMMA CorpusHolds ==
  /\ Init => CorpusInv
  /\ Base /\ CorpusInv /\ [Next]_vars => CorpusInv'
<1>1. ASSUME Init PROVE CorpusInv
  <2>1. stream = <<>> /\ Len(stream) = 0 /\ corpus = EmptyCorpus /\ replay["corpus"] = NoReplay
    BY <1>1 DEF Init, Stores
  <2>2. \A w \in Workers : "corpus" \notin Owes(run[w]) BY <1>1 DEF Init, Owes, Idle
  <2>3. Owing("corpus") = {} BY <2>2 DEF Owing
  <2> QED BY <2>1, <2>3, NothingSaid DEF CorpusInv, AloneOwing, Replaying
<1> SUFFICES ASSUME Base, CorpusInv, [Next]_vars PROVE CorpusInv'
  BY <1>1
<1>2. Begins(stream, stream) BY SameStream DEF Base, StreamInv
<1>3. CASE UNCHANGED vars \/ \E w \in Workers : QuietStep(w)
  BY <1>2, <1>3, NothingSpared, CorpusSpared DEF Stores
<1>4. ASSUME NEW w \in Workers, ProjectRows(w) \/ ProjectRetractions(w) \/ ProjectVectors(w)
      PROVE  CorpusInv'
  BY <1>2, <1>4, RowsSpare, RetractionsSpare, VectorsSpare, CorpusSpared
<1>5. ASSUME NEW w \in Workers, Persist(w) PROVE CorpusInv'
  <2>1. Spared("corpus") /\ corpus' = corpus BY <1>5, PersistSpares DEF stores
  <2> QED BY <1>5, <2>1, PersistEffect, CorpusSpared
<1>6. ASSUME NEW s \in Stores, StartRebuild(s) \/ ReplayNext(s) \/ EndRebuild(s) PROVE CorpusInv'
  <2>1. CASE s = "corpus" BY <1>6, <2>1, RebuildKeepsCorpus
  <2>2. CASE s # "corpus"
    <3>1. Spared("corpus") /\ stream' = stream /\ corpus' = corpus
      BY <1>6, <2>2, RebuildSpares DEF Stores
    <3> QED BY <1>2, <3>1, CorpusSpared
  <2> QED BY <2>1, <2>2
<1>7. CASE Next
  BY <1>3, <1>4, <1>5, <1>6, <1>7, NextSteps, SaveKeepsCorpus, ChunksKeepCorpus
<1> QED BY <1>3, <1>7

-----------------------------------------------------------------------------
(* The vectors *)

LEMMA ProjectKeepsVectors ==
  ASSUME Base, VectorsInv, NEW w \in Workers, ProjectVectors(w)
  PROVE  VectorsInv'
<1> SUFFICES ASSUME "vectors" \notin stale' PROVE VectorsInv' BY DEF VectorsInv
<1>1. /\ run[w].phase = "vectors" /\ vectors' = vectors \union LastOf(run[w].events).entities
      /\ stream' = stream /\ replay' = replay
      /\ stale' = stale \union (Owes(run'[w]) \intersect Contended(w))
      /\ run'[w].phase = "persist" /\ run'[w].events = run[w].events
      /\ \A v \in Workers \ {w} : run'[v] = run[v]
  BY VectorsSpare
<1>2. "vectors" \notin Owes(run[w]) BY <1>1, OwesNothing DEF Quiet, Stores
<1>3. "vectors" \in Owes(run'[w]) BY <1>1 DEF Owes, Stores
<1>4. /\ "vectors" \notin stale /\ ~ Replaying("vectors") /\ ~ Replaying("vectors")'
      /\ Owing("vectors") = {} /\ Owing("vectors")' = {w} /\ AloneOwing("vectors")'
  BY <1>1, <1>2, <1>3, BeginsToOwe DEF Stores
<1>5. vectors = VectorsAt(stream, Len(stream)) BY <1>4 DEF VectorsInv
<1> QED BY <1>1, <1>4, <1>5 DEF VectorsInv

LEMMA PersistKeepsVectors ==
  ASSUME Base, VectorsInv, NEW w \in Workers, Persist(w)
  PROVE  VectorsInv'
<1> SUFFICES ASSUME "vectors" \notin stale' PROVE VectorsInv' BY DEF VectorsInv
<1> DEFINE e == LastOf(run[w].events)
<1>1. /\ run[w].phase = "persist" /\ e.type = "embedded"
      /\ Begins(stream, stream') /\ Len(stream') = Len(stream) + 1
      /\ stream'[Len(stream) + 1] = e /\ Become(w, Idle) /\ stream' \in Seq(Event)
      /\ replay' = replay
  BY PersistEffect
<1>2. vectors' = vectors /\ stale' = stale BY DEF Persist, stores
<1>3. run'[w] = Idle /\ \A v \in Workers \ {w} : run'[v] = run[v]
  BY <1>1, Becoming DEF Base, RunsInv
<1>4. "vectors" \in Owes(run[w]) /\ "vectors" \notin Owes(run'[w])
  BY <1>1, <1>3 DEF Owes, Stores, Idle
<1>5. /\ ~ Replaying("vectors") /\ ~ Replaying("vectors")' /\ w \in Owing("vectors")
      /\ Owing("vectors")' = {} /\ AloneOwing("vectors")'
  BY <1>1, <1>2, <1>3, <1>4, CeasesToOwe DEF VectorsInv, Stores
<1>6. vectors = VectorsAt(stream, Len(stream)) \union e.entities
  BY <1>2, <1>5 DEF VectorsInv
<1>7. Len(stream) \in Nat /\ Len(stream) \in 0..Len(stream) BY DEF Base, StreamInv
<1> HIDE DEF e
<1>8. VectorsAt(stream', Len(stream)) = VectorsAt(stream, Len(stream))
  BY <1>1, <1>7, SaysTheSame
<1>9. VectorsAt(stream', Len(stream)) \union e.entities = VectorsAt(stream', Len(stream'))
  <2>1. Len(stream) + 1 \in 1..Len(stream') BY <1>1, <1>7
  <2> QED BY <1>1, <1>7, <2>1, VectorsStep
<1> QED BY <1>2, <1>5, <1>6, <1>8, <1>9 DEF VectorsInv

LEMMA RebuildKeepsVectors ==
  ASSUME Base, VectorsInv,
         StartRebuild("vectors") \/ ReplayNext("vectors") \/ EndRebuild("vectors")
  PROVE  VectorsInv'
<1> SUFFICES ASSUME "vectors" \notin stale' PROVE VectorsInv' BY DEF VectorsInv
<1>1. stream' = stream /\ run' = run /\ stream \in Seq(Event)
  BY DEF StartRebuild, ReplayNext, EndRebuild, Base, StreamInv
<1>2. Owing("vectors")' = Owing("vectors") BY <1>1 DEF Owing
<1>3. "vectors" \in DOMAIN replay /\ Len(stream) \in Nat
  BY <1>1 DEF Base, ReplayInv, Stores
<1>4. CASE StartRebuild("vectors")
  <2>1. /\ vectors' = {} /\ replay'["vectors"] = 0
        /\ \A w \in Workers : "vectors" \notin Owes(run[w])
    BY <1>3, <1>4 DEF StartRebuild
  <2>2. Owing("vectors") = {} BY <2>1 DEF Owing
  <2>3. vectors' = VectorsAt(stream, 0) BY <2>1, NothingSaid
  <2> QED BY <1>1, <1>2, <2>1, <2>2, <2>3 DEF VectorsInv, AloneOwing, Replaying, NoReplay
<1>5. CASE ReplayNext("vectors")
  <2> DEFINE v == replay["vectors"]
             e == stream[v + 1]
  <2>1. /\ Replaying("vectors") /\ v < Len(stream) /\ replay'["vectors"] = v + 1 /\ stale' = stale
        /\ vectors' = IF e.type = "embedded" THEN vectors \union e.entities ELSE vectors
    BY <1>3, <1>5 DEF ReplayNext
  <2>2. AloneOwing("vectors") /\ Owing("vectors") = {} /\ vectors = VectorsAt(stream, v)
    BY <2>1 DEF VectorsInv, AloneOwing
  <2>3. v \in Nat /\ v + 1 \in 1..Len(stream)
    BY <1>3, <2>1 DEF Base, ReplayInv, Replaying, NoReplay, Stores
  <2>4. vectors' = VectorsAt(stream, v + 1)
    <3>1. CASE e.type = "embedded" BY <1>1, <2>1, <2>2, <2>3, <3>1, VectorsStep
    <3>2. CASE e.type # "embedded"
      <4>1. At(stream, v + 1, "embedded") = At(stream, v, "embedded") BY <2>3, <3>2, AtNext
      <4> QED BY <2>1, <2>2, <3>2, <4>1, VectorsUntouched
    <3> QED BY <3>1, <3>2
  <2>5. Replaying("vectors")' BY <2>1, <2>3 DEF Replaying, NoReplay
  <2> HIDE DEF v, e
  <2> QED BY <1>1, <1>2, <2>1, <2>2, <2>4, <2>5 DEF VectorsInv, AloneOwing
<1>6. CASE EndRebuild("vectors")
  <2>1. /\ replay["vectors"] = Len(stream) /\ replay'["vectors"] = NoReplay
        /\ stale' = stale /\ vectors' = vectors
    BY <1>3, <1>6 DEF EndRebuild, stores
  <2>2. Replaying("vectors") /\ ~ Replaying("vectors")' BY <1>3, <2>1 DEF Replaying, NoReplay
  <2>3. /\ AloneOwing("vectors") /\ Owing("vectors") = {}
        /\ vectors = VectorsAt(stream, Len(stream))
    BY <2>1, <2>2 DEF VectorsInv, AloneOwing
  <2> QED BY <1>1, <1>2, <2>1, <2>2, <2>3 DEF VectorsInv, AloneOwing
<1> QED BY <1>4, <1>5, <1>6

LEMMA VectorsHold ==
  /\ Init => VectorsInv
  /\ Base /\ VectorsInv /\ [Next]_vars => VectorsInv'
<1>1. ASSUME Init PROVE VectorsInv
  <2>1. stream = <<>> /\ Len(stream) = 0 /\ vectors = {} /\ replay["vectors"] = NoReplay
    BY <1>1 DEF Init, Stores
  <2>2. \A w \in Workers : "vectors" \notin Owes(run[w]) BY <1>1 DEF Init, Owes, Idle
  <2>3. Owing("vectors") = {} BY <2>2 DEF Owing
  <2> QED BY <2>1, <2>3, NothingSaid DEF VectorsInv, AloneOwing, Replaying
<1> SUFFICES ASSUME Base, VectorsInv, [Next]_vars PROVE VectorsInv'
  BY <1>1
<1>2. Begins(stream, stream) BY SameStream DEF Base, StreamInv
<1>3. CASE UNCHANGED vars \/ \E w \in Workers : QuietStep(w)
  BY <1>2, <1>3, NothingSpared, VectorsSpared DEF Stores
<1>4. ASSUME NEW w \in Workers, ProjectRows(w) \/ ProjectRetractions(w) \/ ProjectChunks(w)
      PROVE  VectorsInv'
  BY <1>2, <1>4, RowsSpare, RetractionsSpare, ChunksSpare, VectorsSpared
<1>5. ASSUME NEW w \in Workers, Save(w) PROVE VectorsInv'
  <2>1. Spared("vectors") /\ vectors' = vectors BY <1>5, SaveSpares DEF stores
  <2>2. /\ Fresh(run[w].events, stream, Len(stream)) /\ run[w].events \in Seq(Event)
        /\ stream' = stream \o run[w].events /\ Begins(stream, stream')
    BY <1>5, SaveEffect
  <2>3. At(stream', Len(stream'), "embedded") = At(stream, Len(stream), "embedded")
    <3>1. PICK es : es = run[w].events OBVIOUS
    <3>2. \A m \in 1..Len(es) : es[m].type # "embedded" BY <2>2, <3>1 DEF Fresh
    <3>3. {m \in 1..Len(es) : es[m].type = "embedded"} = {} BY <3>2
    <3>4. {Len(stream) + i : i \in {}} = {} OBVIOUS
    <3>5. stream \in Seq(Event) /\ es \in Seq(Event) BY <2>2, <3>1 DEF Base, StreamInv
    <3>6. At(stream \o es, Len(stream \o es), "embedded")
            = At(stream, Len(stream), "embedded")
                \union {Len(stream) + i : i \in {m \in 1..Len(es) : es[m].type = "embedded"}}
      BY <3>5, Grown
    <3> QED BY <2>2, <3>1, <3>3, <3>4, <3>6
  <2> QED BY <2>1, <2>2, <2>3, VectorsSpared
<1>6. ASSUME NEW s \in Stores, StartRebuild(s) \/ ReplayNext(s) \/ EndRebuild(s) PROVE VectorsInv'
  <2>1. CASE s = "vectors" BY <1>6, <2>1, RebuildKeepsVectors
  <2>2. CASE s # "vectors"
    <3>1. Spared("vectors") /\ stream' = stream /\ vectors' = vectors
      BY <1>6, <2>2, RebuildSpares DEF Stores
    <3> QED BY <1>2, <3>1, VectorsSpared
  <2> QED BY <2>1, <2>2
<1>7. CASE Next
  BY <1>3, <1>4, <1>5, <1>6, <1>7, NextSteps, ProjectKeepsVectors, PersistKeepsVectors
<1> QED BY <1>3, <1>7
-----------------------------------------------------------------------------
(* The inductive invariant, and what follows from it *)

LEMMA IInvHolds == Spec => []IInv
<1>1. Init => IInv BY BaseHolds, StoredHolds, GraphHolds, CorpusHolds, VectorsHold DEF IInv
<1>2. IInv /\ [Next]_vars => IInv'
  BY BaseHolds, StoredHolds, GraphHolds, CorpusHolds, VectorsHold DEF IInv
<1> QED BY <1>1, <1>2, PTL DEF Spec

LEMMA ReadAlike ==
  /\ \A v : Extracted(v) = At(stream, v, "extracted")
  /\ \A v : Chunked(v) = At(stream, v, "chunked")
  /\ \A v : Embedded(v) = At(stream, v, "embedded")
BY DEF Extracted, Chunked, Embedded, At

(* Runs racing on copies of any age, dying and retried, record one extraction
   per model, one chunking per split and writer and one embedding
   (record_extraction, record_chunking and record_embeddings under the append's
   optimistic lock). *)
THEOREM RecordedOnce == Spec => []OncePerKey
<1>1. ASSUME IInv PROVE OncePerKey
  BY <1>1, ReadAlike DEF IInv, Base, StreamInv, Once, OncePerKey
<1> QED BY <1>1, IInvHolds, PTL

(* An extraction retracts exactly what the one before it in the stream found
   and it did not, however many runs were deciding meanwhile
   (record_extraction, aggregates/document.py:94-100: the append is refused
   unless the stream is the one the retractions were computed from). *)
THEOREM RetractionsFollow == Spec => []RetractionsExact
<1>1. ASSUME IInv PROVE RetractionsExact
  <2> SUFFICES ASSUME NEW j \in Extracted(Len(stream)), NEW x \in Entities
               PROVE  x \in stream[j].retracted <=>
                        /\ x \notin stream[j].entities
                        /\ \E i \in Extracted(j - 1) :
                             x \in stream[i].entities /\ Extracted(j - 1) \subseteq 1..i
    BY DEF RetractionsExact
  <2>1. stream[j].retracted = LastIn(stream, j - 1) \ stream[j].entities
    BY <1>1, ReadAlike DEF IInv, Base, StreamInv, Exact
  <2>2. x \in LastIn(stream, j - 1) <=>
          \E i \in Extracted(j - 1) : x \in stream[i].entities /\ Extracted(j - 1) \subseteq 1..i
    BY ReadAlike DEF LastIn
  <2> QED BY <2>1, <2>2
<1> QED BY <1>1, IInvHolds, PTL

(* Whatever runs and rebuilds are in the middle of, the chunk store of either
   adapter holds one recorded chunking whole or nothing (replace_source). *)
THEOREM CorpusWhole == Spec => []CorpusIsOneChunking
<1>1. ASSUME IInv PROVE CorpusIsOneChunking
  BY <1>1, ReadAlike DEF IInv, StoredInv, OneChunking, CorpusIsOneChunking
<1> QED BY <1>1, IInvHolds, PTL

LEMMA GraphTold ==
  ASSUME IInv, Settled("graph")
  PROVE  GraphSays
<1>1. stream \in Seq(Event) /\ Len(stream) \in 0..Len(stream) BY DEF IInv, Base, StreamInv
<1>2. graph = GraphAt(stream, Len(stream))
  BY DEF IInv, GraphInv, Settled, Owing
<1>3. LastExtracted(Len(stream)) = LastIn(stream, Len(stream)) BY <1>1, LastFound
<1>4. \A x \in Entities : x \in EverExtracted(Len(stream)) <=> x \in EverIn(stream, Len(stream))
  BY ReadAlike DEF EverExtracted, EverIn
<1> QED BY <1>2, <1>3, <1>4 DEF GraphAt, GraphSays

LEMMA CorpusTold ==
  ASSUME IInv, Settled("corpus")
  PROVE  CorpusSays
<1>1. CorpusIs(stream, Len(stream), corpus) BY DEF IInv, CorpusInv, Settled, Owing
<1> SUFFICES ASSUME NEW a \in Adapters, NEW p \in Passages
             PROVE  corpus[a][p] =
                      IF HeldSince(p) = {} THEN NoRow
                      ELSE LET last == Latest(HeldSince(p))
                               first == CHOOSE i \in HeldSince(p) :
                                          \A j \in HeldSince(p) : i <= j
                           IN [by |-> stream[last].by,
                               vector |-> stream[IF a = "postgres" THEN first ELSE last].vector]
  BY DEF CorpusSays
<1> DEFINE H == HeldSince(p)
<1>2. H = HeldAt(stream, Len(stream), p) BY ReadAlike DEF HeldSince, HeldAt
<1>3. RowAt(stream, Len(stream), a, p, corpus[a][p]) BY <1>1 DEF CorpusIs
<1>4. H \subseteq Int BY <1>2 DEF HeldAt, At
<1> HIDE DEF H
<1>5. CASE H = {} BY <1>2, <1>3, <1>5 DEF RowAt, H
<1>6. CASE H # {}
  <2>1. PICK first \in H, last \in H :
          /\ \A j \in H : first <= j /\ j <= last
          /\ corpus[a][p] = [by |-> stream[last].by,
                             vector |-> stream[IF a = "postgres" THEN first ELSE last].vector]
    BY <1>2, <1>3, <1>6 DEF RowAt
  <2>2. Latest(H) = last
    <3>1. PICK m : m = Latest(H) OBVIOUS
    <3>2. m \in H /\ \A j \in H : j <= m BY <2>1, <3>1 DEF Latest
    <3>3. m <= last /\ last <= m BY <2>1, <3>2
    <3> QED BY <1>4, <2>1, <3>1, <3>2, <3>3
  <2>3. (CHOOSE i \in H : \A j \in H : i <= j) = first
    <3>1. PICK m : m = CHOOSE i \in H : \A j \in H : i <= j OBVIOUS
    <3>2. m \in H /\ \A j \in H : m <= j BY <2>1, <3>1
    <3>3. m <= first /\ first <= m BY <2>1, <3>2
    <3> QED BY <1>4, <2>1, <3>1, <3>2, <3>3
  <2> QED BY <1>6, <2>1, <2>2, <2>3 DEF H
<1> QED BY <1>5, <1>6

LEMMA VectorsTold ==
  ASSUME IInv, Settled("vectors")
  PROVE  VectorsSay
<1>1. stream \in Seq(Event) BY DEF IInv, Base, StreamInv
<1>2. vectors = VectorsAt(stream, Len(stream)) BY DEF IInv, VectorsInv, Settled, Owing
<1>3. \A i \in At(stream, Len(stream), "embedded") : stream[i].entities \subseteq Entities
  BY <1>1, EventFacts DEF At, EmbeddedEvent
<1> QED BY <1>2, <1>3, ReadAlike DEF VectorsAt, VectorsSay

(* The graph holds and tombstones no entity the stream does not account for; and
   a store nobody is writing to, and nobody wrote to out of the stream's order
   since its last rebuild, says what the stream says: through any interleaving
   of runs that race, die or are refused, with rebuilds started at any time
   (build_graph.py:425-427, projections/chunk.py:14-18). *)
THEOREM StoresFollow == Spec => []StoresSayWhatTheStreamSays
<1>1. ASSUME IInv PROVE AccountedFor
  BY <1>1, ReadAlike DEF IInv, StoredInv, Accounted, AccountedFor
<1>2. ASSUME IInv PROVE StoresSayWhatTheStreamSays
  BY <1>1, <1>2, GraphTold, CorpusTold, VectorsTold DEF StoresSayWhatTheStreamSays
<1> QED BY <1>2, IInvHolds, PTL
=============================================================================
