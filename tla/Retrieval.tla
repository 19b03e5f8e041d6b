------------------------------ MODULE Retrieval ------------------------------
(***************************************************************************)
(* One call of `Retriever.retrieve` or of `ChunkRetriever.retrieve_chunks`:*)
(* src/src/redstring/composition/retrieval.py and                          *)
(* domain/{fusion,chunk_ranking}.py.  It reads two or three times, and the *)
(* stores change between the reads.                                        *)
(*                                                                         *)
(* An item is an entity or a chunk.  A row says its type, which version of *)
(* it this is and how well the query matches it lexically, 0 if it is not  *)
(* found so; a vector says the type and how near it is.  How scores are    *)
(* computed is left out: they are numbers.                                 *)
(***************************************************************************)
EXTENDS Integers, Sequences, FiniteSets, Sorting

CONSTANTS
  MaxItem,    \* items are 1..MaxItem, in the order of their ids' strings
  Rows,       \* what a row may say: [type, version, lexical]
  Vectors,    \* what a vector may say: [type, score]
  Wanted,     \* entity_types: the sets a call may ask for
  Ks,         \* k
  Overfetch,  \* overfetch
  RrfK,       \* RRF_K
  MaxWrites,  \* bound on the writes made during the call
  Absent      \* no row, no vector, not ranked

VARIABLES
  kind,      \* "entities" or "chunks"
  mode,      \* "lexical", "semantic", "hybrid"
  wanted, k, \* the call
  rows,      \* item -> row or Absent
  vectors,   \* item -> vector or Absent
  phase,     \* "semantic", "lexical", "resolve", "done"
  semantic,  \* semantic_scores, in order: sequence of [item, score]
  lexical,   \* lexical_scores, in order
  known,     \* rows read with a ranking: item -> row or Absent
  matches,   \* the result: sequence of [item, row, semantic, lexical]
  past,      \* rows an item had during the call (for checking)
  writes

vars == <<kind, mode, wanted, k, rows, vectors, phase, semantic, lexical, known, matches, past, writes>>
call == <<kind, mode, wanted, k>>

Items == 1..MaxItem

(* A chunk's vector is a column of its row; chunks have no types. *)
Init ==
  /\ kind \in {"entities", "chunks"}
  /\ mode \in {"lexical", "semantic", "hybrid"}
  /\ wanted \in Wanted
  /\ k \in Ks
  /\ rows \in [Items -> {Absent} \union Rows]
  /\ vectors \in [Items -> {Absent} \union Vectors]
  /\ phase = IF mode = "lexical" THEN "lexical" ELSE "semantic"
  /\ semantic = <<>> /\ lexical = <<>>
  /\ known = [x \in Items |-> Absent]
  /\ matches = <<>>
  /\ past = [x \in Items |-> {rows[x]}]
  /\ writes = 0

(* The best of some scored items, ties by id. *)
Top(scored, n) ==
  LET better == {pq \in scored \X scored :
                   \/ pq[1].score > pq[2].score
                   \/ pq[1].score = pq[2].score /\ pq[1].item < pq[2].item}
      best == Ranked(scored, better)
  IN SubSeq(best, 1, IF Len(best) < n THEN Len(best) ELSE n)

ItemsOf(ranking) == {ranking[i].item : i \in DOMAIN ranking}

(* vectors.search filters by the type its metadata was written with;
   semantic_candidates finds embedded chunks. *)
Searched(x) ==
  /\ vectors[x] # Absent
  /\ IF kind = "chunks" THEN rows[x] # Absent ELSE vectors[x].type \in wanted

Semantic ==
  /\ phase = "semantic"
  /\ semantic' = Top({[item |-> x, score |-> vectors[x].score] : x \in {y \in Items : Searched(y)}},
                     k * Overfetch)
  /\ known' = [x \in Items |-> IF kind = "chunks" /\ x \in ItemsOf(semantic') THEN rows[x] ELSE Absent]
  /\ phase' = IF mode = "hybrid" THEN "lexical" ELSE "resolve"
  /\ UNCHANGED <<call, rows, vectors, lexical, matches, past, writes>>

(* find_by_blocking_keys, or lexical_candidates: what scores 0 is left out. *)
Candidate(x) ==
  rows[x] # Absent /\ rows[x].lexical > 0 /\ (kind = "chunks" \/ rows[x].type \in wanted)

Lexical ==
  /\ phase = "lexical"
  /\ lexical' = Top({[item |-> x, score |-> rows[x].lexical] : x \in {y \in Items : Candidate(y)}},
                    k * Overfetch)
  /\ known' = [x \in Items |-> IF x \in ItemsOf(lexical') THEN rows[x] ELSE known[x]]
  /\ phase' = "resolve"
  /\ UNCHANGED <<call, rows, vectors, semantic, matches, past, writes>>

-----------------------------------------------------------------------------
(* reciprocal_rank_fusion, in fractions <<numerator, denominator>> *)

Place(ranking, x) ==
  LET at == {i \in DOMAIN ranking : ranking[i].item = x}
  IN IF at = {} THEN Absent ELSE CHOOSE i \in at : TRUE

Share(place) == IF place = Absent THEN <<0, 1>> ELSE <<1, RrfK + place>>

Sum(p, q) == <<p[1] * q[2] + q[1] * p[2], p[2] * q[2]>>
Greater(p, q) == p[1] * q[2] > q[1] * p[2]

(* Mutant: an item two channels found counts once. *)
LexicalFirst(x) == IF Place(lexical, x) = Absent THEN Share(Place(semantic, x)) ELSE Share(Place(lexical, x))

Fused(x) == Sum(Share(Place(semantic, x)), Share(Place(lexical, x)))

(* Higher sums first, ties by id. *)
FusedOrder(xs) ==
  Ranked(xs, {p \in xs \X xs :
                \/ Greater(Fused(p[1]), Fused(p[2]))
                \/ ~ Greater(Fused(p[2]), Fused(p[1])) /\ p[1] < p[2]})

(* The best k of both rankings. *)
BestFused ==
  LET order == FusedOrder(ItemsOf(semantic) \union ItemsOf(lexical))
  IN {order[i] : i \in {j \in DOMAIN order : j <= k}}

(* _resolve: what lexical search read is not read again; get_entities for the
   rest. *)
Resolved(x) == IF known[x] # Absent \/ kind = "chunks" THEN known[x] ELSE rows[x]

Resolve ==
  /\ phase = "resolve"
  /\ matches' = LET there == FusedOrder({x \in BestFused : Resolved(x) # Absent})
                IN [i \in DOMAIN there |-> [item |-> there[i], row |-> Resolved(there[i])]]
  /\ phase' = "done"
  /\ UNCHANGED <<call, rows, vectors, semantic, lexical, known, past, writes>>

-----------------------------------------------------------------------------
(* Meanwhile the projections write: a row or a vector changes or goes. *)

WriteRow(x, row) ==
  /\ phase # "done" /\ writes < MaxWrites /\ rows[x] # row
  /\ rows' = [rows EXCEPT ![x] = row]
  /\ past' = [past EXCEPT ![x] = @ \union {row}]
  /\ writes' = writes + 1
  /\ UNCHANGED <<call, vectors, phase, semantic, lexical, known, matches>>

WriteVector(x, vector) ==
  /\ phase # "done" /\ writes < MaxWrites /\ vectors[x] # vector
  /\ vectors' = [vectors EXCEPT ![x] = vector]
  /\ writes' = writes + 1
  /\ UNCHANGED <<call, rows, phase, semantic, lexical, known, matches, past>>

Returned == phase = "done" /\ UNCHANGED vars

Next ==
  \/ Semantic \/ Lexical \/ Resolve \/ Returned
  \/ \E x \in Items :
       \/ \E row \in {Absent} \union Rows : WriteRow(x, row)
       \/ \E vector \in {Absent} \union Vectors : WriteVector(x, vector)

Spec == Init /\ [][Next]_vars

-----------------------------------------------------------------------------
(* Properties *)

(* x comes before y in every ranking that has either of them. *)
Outranks(x, y) ==
  \A ranking \in {semantic, lexical} :
    Place(ranking, y) # Absent =>
      /\ Place(ranking, x) # Absent
      /\ Place(ranking, x) < Place(ranking, y)

(* Whatever is written between the reads: no item is matched twice, none in a
   state it was never in, one that both channels put first comes first, and of
   the best k none that was there all along is missing
   (retrieval.py:200-228, fusion.py:72-80). *)
MatchesHold ==
  phase = "done" =>
    LET found == ItemsOf(matches) IN
    /\ Len(matches) <= k
    /\ \A i, j \in DOMAIN matches : i < j =>
         /\ matches[i].item # matches[j].item
         /\ ~ Outranks(matches[j].item, matches[i].item)
    /\ \A i \in DOMAIN matches : matches[i].row \in past[matches[i].item] \ {Absent}
    /\ \A x \in Items : \A y \in ItemsOf(semantic) \union ItemsOf(lexical) :
         x \in found /\ y \notin found /\ Absent \notin past[y] => ~ Outranks(y, x)

(* Every match is of a type the call asked for.  (Known limit: the vector's
   metadata may name the type an entity no longer has.) *)
TypesAsAsked ==
  phase = "done" /\ kind = "entities" =>
    \A i \in DOMAIN matches : matches[i].row.type \in wanted
=============================================================================
