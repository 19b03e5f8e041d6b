-------------------------- MODULE ResolveManyProofs --------------------------
(***************************************************************************)
(* For any entities, scores, model answers and number of outside steps:    *)
(* what a pass absorbs for a subject scored High against it, or the model  *)
(* said `same` of that very pair; and a pass nobody disturbs never raises. *)
(***************************************************************************)
EXTENDS ResolveMany, Iteration, TLAPS

-----------------------------------------------------------------------------
(* Sorted lists *)

(* Confirmed candidates stay in the order they were asked about; ... *)
LEMMA RankedNumbers ==
  ASSUME NEW S \in SUBSET Nat, IsFiniteSet(S)
  PROVE  Ranked(S, Ascending(S)) \in [1..Cardinality(S) -> S]
<1>1. \A x, y \in S : <<x, y>> \in Ascending(S) <=> x < y BY DEF Ascending
<1>2. Orders(Ascending(S), S) BY <1>1 DEF Orders
<1> QED BY <1>2, RankedIsRanking DEF Ranking

(* ... candidates are sorted by score, ... *)
LEMMA RankedCandidates ==
  ASSUME NEW s \in Entities, NEW xs \in SUBSET Entities, score[s] \in [Entities -> Nat]
  PROVE  BestFirst(s, xs) \in [1..Cardinality(xs) -> xs] /\ Cardinality(xs) \in Nat
<1>0. IsFiniteSet(xs) /\ Cardinality(xs) \in Nat
  BY EntitiesAssumption, FS_Subset, FS_CardinalityType
<1>1. PICK of : of = score[s] OBVIOUS
<1>2. of \in [Entities -> Nat] /\ IdOrder \in [Entities -> Nat]
      /\ \A x, y \in Entities : IdOrder[x] = IdOrder[y] => x = y
  BY <1>1, IdOrderAssumption
<1>3. PICK R : R = {p \in xs \X xs : Better(s, p[1], p[2])} OBVIOUS
<1>4. \A x, y \in xs : <<x, y>> \in R <=> \/ of[x] > of[y]
                                          \/ of[x] = of[y] /\ IdOrder[x] < IdOrder[y]
  BY <1>1, <1>3 DEF Better
<1>5. Orders(R, xs) BY <1>2, <1>4 DEF Orders
<1>6. BestFirst(s, xs) = Ranked(xs, R) BY <1>3 DEF BestFirst
<1> QED BY <1>0, <1>5, <1>6, RankedIsRanking DEF Ranking

(* ... and decisions by their subjects' ids. *)
EmitOrder(S) == {p \in S \X S : EmitsBefore(p[1], p[2])}

LEMMA RankedDecisions ==
  ASSUME NEW S \in SUBSET Nat, IsFiniteSet(S), \A i \in S : scoring[i].subject \in Entities
  PROVE  /\ Ranked(S, EmitOrder(S)) \in [1..Cardinality(S) -> S]
         /\ \A i, j \in 1..Cardinality(S) : i < j =>
              Ranked(S, EmitOrder(S))[i] # Ranked(S, EmitOrder(S))[j]
<1>1. PICK R : R = EmitOrder(S) OBVIOUS
<1>2. \A i, j \in S : <<i, j>> \in R <=> EmitsBefore(i, j) BY <1>1 DEF EmitOrder
<1>3. PICK at : at = [i \in S |-> IdOrder[scoring[i].subject]] OBVIOUS
<1>4. \A i \in S : at[i] \in Nat BY <1>3, IdOrderAssumption
<1>5. \A i, j \in S : EmitsBefore(i, j) <=> at[i] < at[j] \/ (at[i] = at[j] /\ i < j)
  BY <1>3, IdOrderAssumption DEF EmitsBefore
<1>6. Orders(R, S) BY <1>2, <1>4, <1>5 DEF Orders
<1>7. PICK g : g = Ranked(S, R) OBVIOUS
<1>8. Ranking(g, S, R) BY <1>6, <1>7, RankedIsRanking
<1>9. g \in [1..Cardinality(S) -> S]
      /\ \A i, j \in 1..Cardinality(S) : i < j => <<g[i], g[j]>> \in R
  BY <1>8 DEF Ranking
<1>10. \A i \in S : <<i, i>> \notin R BY <1>6 DEF Orders
<1>11. \A i, j \in 1..Cardinality(S) : i < j => g[i] # g[j] BY <1>9, <1>10
<1> QED BY <1>1, <1>7, <1>9, <1>11

-----------------------------------------------------------------------------
(* Alias chains *)

Aliased(g) == g.aliases \in [Entities -> Entities \union {NotAlias}]

LEMMA Walking ==
  ASSUME NEW g, Aliased(g), NEW x \in Entities
  PROVE  /\ Walk(g, x) \in [Nat -> Entities] /\ Walk(g, x)[0] = x
         /\ \A n \in Nat : Walk(g, x)[n + 1] = Hop(g, Walk(g, x)[n])
<1> DEFINE Steps(w) == w = [n \in Nat |-> IF n = 0 THEN x ELSE Hop(g, w[n - 1])]
           hop == [n \in Nat |-> [y \in Entities |-> Hop(g, y)]]
<1>1. \A y \in Entities : Hop(g, y) \in Entities BY DEF Hop, Aliased
<1>2. hop \in [Nat -> [Entities -> Entities]] BY <1>1
<1>3. PICK f : Iterating(f, Entities, x, hop)
  <2> HIDE DEF hop
  <2> QED BY <1>2, Iterates
<1>4. f \in [Nat -> Entities] /\ f[0] = x /\ \A n \in Nat : f[n + 1] = Hop(g, f[n])
  BY <1>3 DEF Iterating
<1>5. Steps(f)
  <2>1. ASSUME NEW n \in Nat, n # 0 PROVE f[n] = Hop(g, f[n - 1])
    <3>1. n - 1 \in Nat /\ (n - 1) + 1 = n BY <2>1
    <3> QED BY <1>4, <3>1
  <2>2. f = [n \in Nat |-> f[n]] BY <1>4
  <2> QED BY <1>4, <2>1, <2>2
<1>6. Walk(g, x) = CHOOSE w : Steps(w) BY Zenon DEF Walk
<1>7. PICK w : w = Walk(g, x) OBVIOUS
<1>8. Steps(w)
  <2> HIDE DEF Steps
  <2> QED BY <1>5, <1>6, <1>7
<1>9. w[0] = x BY <1>8
<1>10. \A n \in Nat : w[n + 1] = Hop(g, w[n]) BY <1>8
<1>11. w \in [Nat -> Entities]
  <2> DEFINE P == {n \in Nat : w[n] \in Entities}
  <2>1. 0 \in P BY <1>9
  <2>2. ASSUME NEW n \in P PROVE n + 1 \in P BY <1>1, <1>10
  <2>3. P \in SUBSET Nat OBVIOUS
  <2>4. P = Nat
    <3> HIDE DEF P
    <3> QED BY <2>1, <2>2, <2>3, Inductive
  <2>5. \A n \in Nat : w[n] \in Entities BY <2>4
  <2>6. w = [n \in Nat |-> w[n]] BY <1>8
  <2> QED BY <2>5, <2>6
<1> QED BY <1>7, <1>9, <1>10, <1>11

LEMMA Resolving ==
  ASSUME NEW g, Aliased(g), NEW x \in Entities
  PROVE  Resolve(g, x) \in Entities
<1>1. IsFiniteSet({y \in Entities : g.aliases[y] # NotAlias})
  BY EntitiesAssumption, FS_Subset
<1>2. Cardinality({y \in Entities : g.aliases[y] # NotAlias}) \in Nat
  BY <1>1, FS_CardinalityType
<1> QED BY <1>2, Walking DEF Resolve

(* A merge in a log: into an entity that is not among those merged. *)
IsMerge(e) ==
  /\ e.type = "merged" /\ e.canonical \in Entities /\ e.merged \in SUBSET Entities
  /\ e.canonical \notin e.merged

(* In a log no entity is absorbed twice, and none absorbs after it was. *)
Forward(es) ==
  /\ es \in Seq(Range(es)) /\ Len(es) \in Nat
  /\ \A i \in 1..Len(es) : IsMerge(es[i])
  /\ \A i, j \in 1..Len(es) :
       i < j => es[j].canonical \notin es[i].merged /\ es[i].merged \cap es[j].merged = {}

(* The alias rows are those of the first n merges. *)
RowsAfter(g, es, n) ==
  \A x \in Entities :
    /\ g.aliases[x] # NotAlias =>
         \E i \in 1..n : x \in es[i].merged /\ g.aliases[x] = es[i].canonical
    /\ \A i \in 1..n : x \in es[i].merged => g.aliases[x] # NotAlias

(* What was absorbed stands for something else: from one alias row to the next
   the merges are later ones, so a chain does not come back. *)
LEMMA AwayForGood ==
  ASSUME NEW es, Forward(es), NEW n \in 0..Len(es), NEW g, Aliased(g), RowsAfter(g, es, n),
         NEW x \in Entities, g.aliases[x] # NotAlias
  PROVE  Resolve(g, x) # x
<1> DEFINE A == {y \in Entities : g.aliases[y] # NotAlias}
           N == Cardinality(A)
<1>1. PICK i \in 1..n : x \in es[i].merged BY DEF RowsAfter
<1>a. \E w : /\ w = Walk(g, x)
            /\ w \in [Nat -> Entities] /\ w[0] = x
            /\ \A m \in Nat : w[m + 1] = Hop(g, w[m])
  <2>1. /\ Walk(g, x) \in [Nat -> Entities] /\ Walk(g, x)[0] = x
        /\ \A m \in Nat : Walk(g, x)[m + 1] = Hop(g, Walk(g, x)[m])
    BY Walking
  <2> WITNESS Walk(g, x)
  <2> QED BY <2>1
<1>2. PICK w : /\ w = Walk(g, x)
               /\ w \in [Nat -> Entities] /\ w[0] = x
               /\ \A m \in Nat : w[m + 1] = Hop(g, w[m])
  BY <1>a, Zenon
<1>3. /\ w \in [Nat -> Entities] /\ w[0] = x
      /\ \A m \in Nat : w[m + 1] = Hop(g, w[m])
  BY <1>2, Zenon
<1>4. IsFiniteSet(A) /\ N \in Nat /\ N # 0
  <2>1. IsFiniteSet(A) /\ A # {} BY EntitiesAssumption, FS_Subset
  <2> HIDE DEF A
  <2> QED BY <2>1, FS_CardinalityType, FS_EmptySet
<1>5. Resolve(g, x) = w[N] BY <1>2, Zenon DEF Resolve
<1> HIDE DEF N
<1> DEFINE Later(y) == g.aliases[y] = NotAlias \/ \E j \in 1..n : j > i /\ y \in es[j].merged
<1>6. Len(es) \in Nat /\ n \in Nat /\ n <= Len(es) BY DEF Forward
<1>7. \A j, k \in 1..n : j < k => es[k].canonical \notin es[j].merged
                                   /\ es[j].merged \cap es[k].merged = {}
  BY <1>6 DEF Forward
<1>8. \A j \in 1..n : es[j].canonical \notin es[j].merged BY <1>6 DEF Forward, IsMerge
<1>9. ASSUME NEW y \in Entities, NEW j \in 1..n, y \in es[j].merged, j >= i, g.aliases[y] # NotAlias
      PROVE  Later(g.aliases[y])
  <2>1. PICK z : z = g.aliases[y] OBVIOUS
  <2>2. z \in Entities BY <1>9, <2>1 DEF Aliased
  <2>3. PICK k \in 1..n : y \in es[k].merged /\ z = es[k].canonical
    BY <1>9, <2>1 DEF RowsAfter
  <2>4. k = j BY <1>6, <1>7, <1>9, <2>3
  <2>5. CASE g.aliases[z] # NotAlias
    <3>1. PICK l \in 1..n : z \in es[l].merged BY <2>2, <2>5 DEF RowsAfter
    <3>2. l # j /\ ~ (l < j) BY <1>7, <1>8, <2>3, <2>4, <3>1
    <3>3. l > i BY <1>6, <1>9, <3>2
    <3> QED BY <2>1, <3>1, <3>3
  <2> QED BY <2>1, <2>5
<1> DEFINE P == {m \in Nat : Later(w[m + 1])}
<1>10. 0 \in P
  <2>1. w[0 + 1] = g.aliases[x] BY <1>3 DEF Hop
  <2>2. Later(g.aliases[x]) BY <1>1, <1>9
  <2> QED BY <2>1, <2>2
<1>11. ASSUME NEW m \in P PROVE m + 1 \in P
  <2>1. PICK y : y = w[m + 1] OBVIOUS
  <2>2. y \in Entities /\ Later(y) /\ w[(m + 1) + 1] = Hop(g, y) BY <1>3, <2>1
  <2>3. CASE g.aliases[y] = NotAlias BY <2>2, <2>3 DEF Hop
  <2>4. CASE g.aliases[y] # NotAlias
    <3>1. PICK j \in 1..n : j > i /\ y \in es[j].merged BY <2>2, <2>4
    <3>2. Later(g.aliases[y]) BY <1>9, <2>2, <2>4, <3>1
    <3> QED BY <2>2, <2>4, <3>2 DEF Hop
  <2> QED BY <2>3, <2>4
<1>12. P \in SUBSET Nat OBVIOUS
<1>13. P = Nat
  <2> HIDE DEF P
  <2> QED BY <1>10, <1>11, <1>12, Inductive
<1>14. Later(w[N])
  <2>1. N - 1 \in Nat /\ (N - 1) + 1 = N BY <1>4
  <2>2. N - 1 \in P BY <1>13, <2>1
  <2> QED BY <2>1, <2>2
<1>15. ~ Later(x)
  <2> SUFFICES ASSUME NEW j \in 1..n, j > i, x \in es[j].merged PROVE FALSE
    OBVIOUS
  <2> QED BY <1>1, <1>7
<1> HIDE DEF Later
<1> QED BY <1>5, <1>14, <1>15

-----------------------------------------------------------------------------
(* The log and the graph *)

IsGraph(g) == g = [rows |-> g.rows, rels |-> g.rels, aliases |-> g.aliases]

IsMerging(m) ==
  m = [canonical |-> m.canonical, merged |-> m.merged, retried |-> m.retried,
       plan |-> m.plan, before |-> m.before, after |-> m.after]

(* What the projection makes of a merge: its alias rows. *)
LEMMA Folding ==
  ASSUME NEW g, IsGraph(g), NEW e, IsMerge(e), NEW h, h = FoldEvent(g, e)
  PROVE  /\ IsGraph(h)
         /\ h.aliases = [x \in Entities |-> IF x \in e.merged THEN e.canonical ELSE g.aliases[x]]
<1>1. h = FoldMerged(g, e) BY DEF FoldEvent, IsMerge
<1>2. PICK dropped, moved :
        h = UpsertEntity(
              UpsertRelationships(
                [Without(g, dropped) EXCEPT !.aliases =
                   [x \in Entities |-> IF x \in e.merged THEN e.canonical ELSE @[x]]],
                moved),
              e.canonical, e.after)
  BY <1>1 DEF FoldMerged
<1>3. PICK g1 : g1 = Without(g, dropped) OBVIOUS
<1>4. IsGraph(g1) /\ g1.aliases = g.aliases
  BY <1>3 DEF Without, IsGraph
<1>5. PICK g2 : g2 = [g1 EXCEPT !.aliases =
                        [x \in Entities |-> IF x \in e.merged THEN e.canonical ELSE @[x]]]
  OBVIOUS
<1>6. /\ IsGraph(g2)
      /\ g2.aliases = [x \in Entities |-> IF x \in e.merged THEN e.canonical ELSE g1.aliases[x]]
  BY <1>4, <1>5 DEF IsGraph
<1>7. PICK g3 : g3 = UpsertRelationships(g2, moved) OBVIOUS
<1>8. IsGraph(g3) /\ g3.aliases = g2.aliases BY <1>6, <1>7 DEF UpsertRelationships, IsGraph
<1>9. h = UpsertEntity(g3, e.canonical, e.after) BY <1>2, <1>3, <1>5, <1>7
<1>10. IsGraph(h) /\ h.aliases = g3.aliases BY <1>8, <1>9 DEF UpsertEntity, IsGraph
<1> QED BY <1>4, <1>6, <1>8, <1>10

(* What a merge of some entities appends. *)
LEMMA Merging ==
  ASSUME NEW m, m.canonical \in Entities, m.merged \in SUBSET Entities, m.canonical \notin m.merged
  PROVE  /\ IsMerge(MergeEvent(m)) /\ MergeEvent(m).merged = m.merged
         /\ MergeEvent(m).canonical = m.canonical
<1>1. PICK e : e = MergeEvent(m) OBVIOUS
<1>2. e.type = "merged" /\ e.canonical = m.canonical /\ e.merged = m.merged
  BY <1>1 DEF MergeEvent
<1>3. IsMerge(e) BY <1>2 DEF IsMerge
<1> QED BY <1>1, <1>2, <1>3

(* What planning leaves of a merge. *)
LEMMA Planning ==
  ASSUME NEW g, NEW m, IsMerging(m)
  PROVE  /\ IsMerging(Planned(g, m)) /\ Planned(g, m).merged = m.merged
         /\ Planned(g, m).canonical = m.canonical
<1>3. PICK p : p = Planned(g, m) OBVIOUS
<1>4. PICK plan, before, after :
        p = [m EXCEPT !.plan = plan, !.before = before, !.after = after]
  BY <1>3 DEF Planned
<1>5. p = [canonical |-> m.canonical, merged |-> m.merged, retried |-> m.retried,
           plan |-> plan, before |-> before, after |-> after]
  BY <1>4 DEF IsMerging
<1>6. p.canonical = m.canonical /\ p.merged = m.merged /\ p.retried = m.retried
        /\ p.plan = plan /\ p.before = before /\ p.after = after
  BY <1>5
<1>7. IsMerging(p) BY <1>5, <1>6, Zenon DEF IsMerging
<1> QED BY <1>3, <1>6, <1>7

AbsorbedIn(es, x) == \E i \in 1..Len(es) : x \in es[i].merged

Fits(es, e) == /\ IsMerge(e) /\ ~ AbsorbedIn(es, e.canonical)
               /\ \A x \in e.merged : ~ AbsorbedIn(es, x)

Extends(more, es, e) == /\ Forward(more) /\ Len(more) = Len(es) + 1
                        /\ \A i \in 1..Len(es) : more[i] = es[i]
                        /\ more[Len(es) + 1] = e

LEMMA Appending ==
  ASSUME NEW es, Forward(es), NEW e, Fits(es, e)
  PROVE  Extends(Append(es, e), es, e)
<1>0. PICK more : more = Append(es, e) OBVIOUS
<1>1. PICK n \in Nat : n = Len(es) BY DEF Forward
<1>2. PICK R : R = Range(es) \union {e} OBVIOUS
<1>3. es \in Seq(R) /\ e \in R
  <2>1. Range(es) \subseteq R BY <1>2
  <2>2. es \in Seq(Range(es)) BY DEF Forward
  <2> QED BY <1>2, <2>1, <2>2
<1>4. more \in Seq(R) /\ Len(more) = n + 1 /\ DOMAIN more = 1..(n + 1)
      /\ (\A i \in 1..n : more[i] = es[i]) /\ more[n + 1] = e
  BY <1>0, <1>1, <1>3
<1>5. more \in Seq(Range(more))
  <2>1. \A r \in R : \E i \in 1..(n + 1) : r = more[i]
    <3>1. ASSUME NEW r \in Range(es) PROVE \E i \in 1..(n + 1) : r = more[i]
      <4>1. PICK i \in 1..n : r = es[i] BY <1>1, <1>3 DEF Range
      <4> QED BY <1>4, <4>1
    <3>2. n + 1 \in 1..(n + 1) OBVIOUS
    <3> QED BY <1>2, <1>4, <3>1, <3>2
  <2>2. \A i \in 1..(n + 1) : more[i] \in R BY <1>4
  <2>3. Range(more) = R BY <1>4, <2>1, <2>2 DEF Range
  <2> QED BY <1>4, <2>3
<1>6. \A i \in 1..(n + 1) : i \in 1..n \/ i = n + 1 OBVIOUS
<1>7. \A i \in 1..(n + 1) : IsMerge(more[i]) BY <1>1, <1>4, <1>6 DEF Forward, Fits
<1>8. ASSUME NEW i \in 1..(n + 1), NEW j \in 1..(n + 1), i < j
      PROVE  more[j].canonical \notin more[i].merged /\ more[i].merged \cap more[j].merged = {}
  <2>1. i \in 1..n /\ more[i] = es[i] BY <1>4, <1>8
  <2>2. CASE j \in 1..n
    <3>1. more[j] = es[j] BY <1>4, <2>2
    <3> QED BY <1>1, <1>8, <2>1, <2>2, <3>1 DEF Forward
  <2>3. CASE j = n + 1
    <3>1. more[j] = e BY <1>4, <2>3
    <3> QED BY <1>1, <2>1, <3>1 DEF AbsorbedIn, Fits
  <2> QED BY <1>6, <2>2, <2>3
<1>9. Forward(more) BY <1>4, <1>5, <1>7, <1>8 DEF Forward
<1> QED BY <1>0, <1>1, <1>4, <1>9 DEF Extends

LEMMA RowsStay ==
  ASSUME NEW g, NEW es, NEW more, NEW n \in Nat, RowsAfter(g, es, n),
         \A i \in 1..n : more[i] = es[i]
  PROVE  RowsAfter(g, more, n)
BY DEF RowsAfter

LEMMA RowsNext ==
  ASSUME NEW g, NEW es, Forward(es), NEW n \in Nat, n + 1 <= Len(es), RowsAfter(g, es, n),
         NEW h, h.aliases = [x \in Entities |-> IF x \in es[n + 1].merged THEN es[n + 1].canonical
                                                ELSE g.aliases[x]]
  PROVE  RowsAfter(h, es, n + 1)
<1> SUFFICES ASSUME NEW x \in Entities
             PROVE  /\ h.aliases[x] # NotAlias =>
                         \E i \in 1..(n + 1) : x \in es[i].merged /\ h.aliases[x] = es[i].canonical
                    /\ \A i \in 1..(n + 1) : x \in es[i].merged => h.aliases[x] # NotAlias
  BY DEF RowsAfter
<1>1. n + 1 \in 1..(n + 1) /\ \A i \in 1..n : i \in 1..(n + 1) OBVIOUS
<1>2. CASE x \in es[n + 1].merged
  <2>1. h.aliases[x] = es[n + 1].canonical BY <1>2
  <2>2. n + 1 \in 1..Len(es) BY DEF Forward
  <2>3. es[n + 1].canonical # NotAlias BY <2>2, SentinelAssumption DEF Forward, IsMerge
  <2> QED BY <1>1, <1>2, <2>1, <2>3
<1>3. CASE x \notin es[n + 1].merged
  <2>1. h.aliases[x] = g.aliases[x] BY <1>3
  <2>2. \A i \in 1..(n + 1) : x \in es[i].merged => i \in 1..n BY <1>3
  <2> QED BY <1>1, <2>1, <2>2 DEF RowsAfter
<1> QED BY <1>2, <1>3

-----------------------------------------------------------------------------
(* The invariant *)

WorldInv ==
  /\ IsGraph(graph) /\ Aliased(graph)
  /\ Forward(log) /\ cursor \in 0..Len(log) /\ RowsAfter(graph, log, cursor)
  /\ score \in [Entities -> [Entities -> Nat]] /\ outside \in Nat

Decision == [step : {"todo", "resolved", "banded", "none"},
             subject : Entities \union {NotAlias},
             confirmed : Seq(Entities), undecided : Seq(Entities)]

(* Nobody is weighed against itself. *)
Sound(d) ==
  /\ d \in Decision
  /\ d.step # "todo" => d.subject \in Entities
  /\ \A j \in DOMAIN d.confirmed : d.confirmed[j] # d.subject
  /\ \A j \in DOMAIN d.undecided : d.undecided[j] # d.subject

SoundDecisions ==
  /\ subjects \in Seq(Entities)
  /\ scoring \in [DOMAIN subjects -> Decision] /\ \A i \in DOMAIN scoring : Sound(scoring[i])
  /\ banded \in Seq(Decision)
  /\ \A k \in DOMAIN banded : Sound(banded[k]) /\ banded[k].step = "banded"

(* What is about to be merged comes from the decision being emitted. *)
SoundMerging ==
  /\ phase \in {"score", "adjudicate", "emit", "plan", "append", "done", "failed"}
  /\ next \in Nat \ {0} /\ IsMerging(merging)
  /\ phase \in {"plan", "append"} =>
       /\ next \in DOMAIN banded /\ merging.canonical \in Entities
       /\ \A x \in merging.merged :
            \E j \in DOMAIN banded[next].confirmed : x = banded[next].confirmed[j]

(* Whatever a decision confirms is in the evidence. *)
Evident(d) == \A j \in DOMAIN d.confirmed : <<d.subject, d.confirmed[j]>> \in evidence

(* Each answer is to the question of the same number. *)
Answered ==
  /\ verdicts \in Seq({"same", "different", "none"})
  /\ \A n \in DOMAIN verdicts : verdicts[n] = "same" => Questions[n] \in evidence

EvidenceKept ==
  /\ \A i \in DOMAIN scoring : Evident(scoring[i])
  /\ phase = "score" => verdicts = <<>>
  /\ phase = "adjudicate" => Answered
  /\ phase \in {"score", "adjudicate"} => emitted = {}
  /\ phase # "score" /\ DistinctSubjects =>
       /\ \A j, k \in DOMAIN banded : banded[j].subject = banded[k].subject => j = k
       /\ \A k \in DOMAIN banded : Evident(banded[k])
  /\ VerdictsMatchQuestions

(* What a subject's question to the model is about, here and now. *)
Asked(s) == BestFirst(s, {x \in Candidates(s) : ~ Merges(s, x)})

Undisturbed ==
  outside = 0 =>
    /\ phase # "failed"
    /\ phase \in {"score", "adjudicate"} =>
         /\ cursor = Len(log)
         /\ \A i \in DOMAIN scoring :
              scoring[i].step = "banded" => scoring[i].undecided = Asked(scoring[i].subject)
         /\ \A k \in DOMAIN banded : banded[k].undecided = Asked(banded[k].subject)
    /\ \A y \in Entities : IsAlias(y) => y \in consumed \/ graph.aliases[y] # NotAlias
    /\ phase \in {"plan", "append"} =>
         /\ ~ IsAlias(merging.canonical) /\ merging.canonical \notin merging.merged
         /\ \A x \in merging.merged : ~ IsAlias(x)

PassInv == WorldInv /\ SoundDecisions /\ SoundMerging /\ EvidenceKept /\ Undisturbed

-----------------------------------------------------------------------------
(* The log and the graph stay sound *)

LEMMA EmptyLog == Forward(<<>>)
<1>1. <<>> \in Seq(Range(<<>>)) /\ Len(<<>>) = 0 OBVIOUS
<1> QED BY <1>1 DEF Forward

LEMMA NoMergeIsOne == IsMerging(NoMerge)
<1>1. PICK m : m = NoMerge OBVIOUS
<1>2. m.canonical = NotAlias /\ m.merged = {} /\ m.retried = FALSE /\ m.plan = {}
        /\ m.before = {} /\ m.after = {}
  BY <1>1 DEF NoMerge
<1> QED BY <1>1, <1>2 DEF IsMerging, NoMerge

(* A merge put together from nothing. *)
Bare(c, xs) == [NoMerge EXCEPT !.canonical = c, !.merged = xs]

LEMMA BareMerge ==
  ASSUME NEW c, NEW xs
  PROVE  IsMerging(Bare(c, xs)) /\ Bare(c, xs).canonical = c /\ Bare(c, xs).merged = xs
<1>1. PICK m : m = [canonical |-> c, merged |-> xs, retried |-> FALSE,
                    plan |-> {}, before |-> {}, after |-> {}]
  OBVIOUS
<1>2. m.canonical = c /\ m.merged = xs /\ m.retried = FALSE /\ m.plan = {}
        /\ m.before = {} /\ m.after = {}
  BY <1>1
<1>3. IsMerging(m) BY <1>1, <1>2 DEF IsMerging
<1>4. Bare(c, xs) = m
  <2>1. PICK b : b = Bare(c, xs) OBVIOUS
  <2>2. b = [NoMerge EXCEPT !.canonical = c, !.merged = xs] BY <2>1 DEF Bare
  <2>3. b = [canonical |-> c, merged |-> xs, retried |-> FALSE,
             plan |-> {}, before |-> {}, after |-> {}]
    BY <2>2 DEF NoMerge
  <2> QED BY <1>1, <2>1, <2>3
<1> QED BY <1>2, <1>3, <1>4

LEMMA Extracting ==
  /\ IsGraph(Extracted) /\ Aliased(Extracted) /\ RowsAfter(Extracted, <<>>, 0)
  /\ \A x \in Entities : Extracted.aliases[x] = NotAlias
<1>1. PICK g : g = Extracted OBVIOUS
<1>2. g.aliases = [x \in Entities |-> NotAlias] /\ IsGraph(g)
  BY <1>1 DEF Extracted, EmptyGraph, IsGraph
<1>3. Aliased(g) /\ RowsAfter(g, <<>>, 0) BY <1>2 DEF Aliased, RowsAfter
<1> QED BY <1>1, <1>2, <1>3

(* One more merge is projected. *)
LEMMA Projecting ==
  ASSUME NEW g, IsGraph(g), Aliased(g), NEW es, Forward(es), NEW n \in 0..Len(es), n < Len(es),
         RowsAfter(g, es, n), NEW h, h = FoldEvent(g, es[n + 1])
  PROVE  /\ IsGraph(h) /\ Aliased(h) /\ RowsAfter(h, es, n + 1) /\ n + 1 \in 0..Len(es)
         /\ \A x \in Entities : g.aliases[x] # NotAlias => h.aliases[x] # NotAlias
<1>1. n \in Nat /\ n + 1 \in 1..Len(es) BY DEF Forward
<1>2. PICK e : e = es[n + 1] OBVIOUS
<1>3. IsMerge(e) BY <1>1, <1>2 DEF Forward
<1>4. /\ IsGraph(h)
      /\ h.aliases = [x \in Entities |-> IF x \in e.merged THEN e.canonical ELSE g.aliases[x]]
  BY <1>2, <1>3, Folding
<1>5. e.canonical \in Entities /\ e.canonical # NotAlias BY <1>3, SentinelAssumption DEF IsMerge
<1>6. Aliased(h) BY <1>4, <1>5 DEF Aliased
<1>7. RowsAfter(h, es, n + 1)
  <2>1. n + 1 <= Len(es) BY <1>1
  <2> QED BY <1>1, <1>2, <1>4, <2>1, RowsNext
<1>8. \A x \in Entities : g.aliases[x] # NotAlias => h.aliases[x] # NotAlias BY <1>4, <1>5
<1> QED BY <1>1, <1>4, <1>6, <1>7, <1>8

LEMMA WorldStarts == ASSUME Init PROVE WorldInv /\ cursor = Len(log)
<1>1. score \in [Entities -> [Entities -> Nat]] /\ outside = 0 /\ cursor = Len(log)
  BY ArgumentsAssumption DEF Init
<1>2. CASE log = <<>>
  <2>1. graph = Extracted /\ cursor = 0 BY <1>1, <1>2 DEF Init
  <2> QED BY <1>1, <1>2, <2>1, Extracting, EmptyLog DEF WorldInv
<1>3. CASE log # <<>>
  <2>1. PICK q \in EarlierMerges : log = <<HistoryOf(q)>> BY <1>3 DEF Init, Histories
  <2>2. PICK m : m = Bare(q.canonical, q.merged) OBVIOUS
  <2>3. q.canonical \in Entities /\ q.merged \in SUBSET Entities /\ q.canonical \notin q.merged
    BY ArgumentsAssumption
  <2>4. IsMerging(m) /\ m.canonical = q.canonical /\ m.merged = q.merged
    BY <2>2, BareMerge
  <2>5. PICK p : p = Planned(Extracted, m) OBVIOUS
  <2>6. IsMerging(p) /\ p.canonical = m.canonical /\ p.merged = m.merged
    BY <2>3, <2>4, <2>5, Planning
  <2>7. PICK e : e = MergeEvent(p) OBVIOUS
  <2>8. IsMerge(e) BY <2>3, <2>4, <2>6, <2>7, Merging
  <2>9. log = <<e>> BY <2>1, <2>2, <2>5, <2>7 DEF HistoryOf, Bare
  <2>10. log = Append(<<>>, e) /\ Len(<<>>) = 0 /\ Len(log) = 1 /\ log[1] = e BY <2>9
  <2>11. Forward(log)
    <3>1. Fits(<<>>, e) BY <2>8 DEF AbsorbedIn, Fits
    <3>2. Extends(Append(<<>>, e), <<>>, e) BY <3>1, EmptyLog, Appending
    <3> QED BY <2>10, <3>2 DEF Extends
  <2>12. graph = FoldEvent(Extracted, log[1]) BY <1>3 DEF Init
  <2>13. RowsAfter(Extracted, log, 0)
    BY Extracting DEF RowsAfter
  <2>14. IsGraph(graph) /\ Aliased(graph) /\ RowsAfter(graph, log, 0 + 1)
    <3>1. 0 \in 0..Len(log) /\ 0 < Len(log) /\ log[0 + 1] = log[1] BY <2>10
    <3> QED BY <2>11, <2>12, <2>13, <3>1, Extracting, Projecting
  <2>15. cursor = 0 + 1 /\ cursor \in 0..Len(log) BY <1>1, <2>10
  <2> QED BY <1>1, <2>11, <2>14, <2>15 DEF WorldInv
<1> QED BY <1>2, <1>3

LEMMA WorldSteps ==
  ASSUME PassInv, [Next]_vars
  PROVE  WorldInv'
<1> USE DEF PassInv
<1>1. CASE UNCHANGED world BY <1>1 DEF WorldInv, world
<1>2. ASSUME NEW e, IsMerge(e), log' = Append(log, e), UNCHANGED <<graph, cursor, score>>,
             ~ IsAlias(e.canonical), \A x \in e.merged : ~ IsAlias(x), outside' \in Nat
      PROVE  WorldInv'
  <2>1. ~ AbsorbedIn(log, e.canonical) /\ \A x \in e.merged : ~ AbsorbedIn(log, x)
    BY <1>2 DEF IsAlias, AbsorbedIn
  <2>2. PICK more : more = log' OBVIOUS
  <2>3. Forward(more) /\ Len(more) = Len(log) + 1 /\ \A i \in 1..Len(log) : more[i] = log[i]
    <3>1. Forward(log) BY DEF WorldInv
    <3>2. Fits(log, e) BY <1>2, <2>1 DEF Fits
    <3>3. Extends(more, log, e) BY <1>2, <2>2, <3>1, <3>2, Appending
    <3> QED BY <3>3 DEF Extends
  <2>4. Len(log) \in Nat BY DEF WorldInv, Forward
  <2>5. cursor \in Nat /\ cursor \in 0..Len(more) /\ \A i \in 1..cursor : more[i] = log[i]
    BY <2>3, <2>4 DEF WorldInv
  <2>6. RowsAfter(graph, more, cursor) BY <2>5, RowsStay DEF WorldInv
  <2> QED BY <1>2, <2>2, <2>3, <2>5, <2>6 DEF WorldInv
<1>3. CASE AppendMerge
  <2>1. /\ merging.canonical \in Entities /\ merging.merged \in SUBSET Entities
        /\ merging.canonical \notin merging.merged /\ IsMerging(merging)
    <3>1. phase = "append" BY <1>3 DEF AppendMerge
    <3>2. next \in DOMAIN banded /\ merging.canonical \in Entities
          /\ \A x \in merging.merged :
               \E j \in DOMAIN banded[next].confirmed : x = banded[next].confirmed[j]
      BY <3>1 DEF SoundMerging
    <3>3. banded[next].confirmed \in Seq(Entities)
      <4>1. Sound(banded[next]) BY <3>2 DEF SoundDecisions
      <4> QED BY <4>1 DEF Sound, Decision
    <3> QED BY <1>3, <3>2, <3>3 DEF AppendMerge, SoundMerging
  <2>2. PICK e : e = MergeEvent(merging) OBVIOUS
  <2>3. IsMerge(e) /\ e.canonical = merging.canonical /\ e.merged = merging.merged
    BY <2>1, <2>2, Merging
  <2>4. /\ log' = Append(log, e) /\ UNCHANGED <<graph, cursor, score, outside>>
        /\ \A x \in merging.merged \union {merging.canonical} : ~ IsAlias(x)
    BY <1>3, <2>2 DEF AppendMerge
  <2>5. outside' \in Nat BY <2>4 DEF WorldInv
  <2> QED BY <1>2, <2>3, <2>4, <2>5
<1>4. CASE Project
  <2>1. PICK h : h = graph' OBVIOUS
  <2>2. cursor < Len(log) /\ h = FoldEvent(graph, log[cursor + 1]) /\ cursor' = cursor + 1
        /\ UNCHANGED <<log, score, outside>>
    BY <1>4, <2>1 DEF Project
  <2>3. IsGraph(h) /\ Aliased(h) /\ RowsAfter(h, log, cursor + 1) /\ cursor + 1 \in 0..Len(log)
    BY <2>2, Projecting DEF WorldInv
  <2> QED BY <2>1, <2>2, <2>3 DEF WorldInv
<1>5. ASSUME NEW x \in Entities, NEW y \in Entities, OutsideMerge(x, y) PROVE WorldInv'
  <2>1. PICK m : m = Bare(x, {y}) OBVIOUS
  <2>2. x # y /\ ~ IsAlias(x) /\ ~ IsAlias(y) /\ log' = Append(log, MergeEvent(Planned(graph, m)))
        /\ UNCHANGED <<graph, cursor, score>> /\ outside' = outside + 1
    BY <1>5, <2>1 DEF OutsideMerge, Bare
  <2>3. IsMerging(m) /\ m.canonical = x /\ m.merged = {y} BY <2>1, BareMerge
  <2>4. m.merged \in SUBSET Entities /\ m.canonical \notin m.merged BY <2>2, <2>3
  <2>5. PICK p : p = Planned(graph, m) OBVIOUS
  <2>6. IsMerging(p) /\ p.canonical = m.canonical /\ p.merged = m.merged
    BY <2>3, <2>4, <2>5, Planning
  <2>7. PICK e : e = MergeEvent(p) OBVIOUS
  <2>8. IsMerge(e) /\ e.canonical = x /\ e.merged = {y} BY <2>3, <2>4, <2>6, <2>7, Merging
  <2>9. outside' \in Nat BY <2>2 DEF WorldInv
  <2>10. ~ IsAlias(e.canonical) /\ \A z \in e.merged : ~ IsAlias(z) BY <2>2, <2>8
  <2> QED BY <1>2, <2>2, <2>5, <2>7, <2>8, <2>9, <2>10
<1>6. CASE Rescore BY <1>6, ArgumentsAssumption DEF Rescore, WorldInv
<1>7. CASE PassStep
  <2>1. ASSUME NEW i \in DOMAIN subjects, ResolveSubject(i) \/ FindCandidates(i) PROVE WorldInv'
    BY <1>1, <2>1 DEF ResolveSubject, FindCandidates
  <2> QED BY <1>1, <1>3, <1>7, <2>1
    DEF PassStep, EndWave, Adjudicate, PairVerdicts, Recheck, PlanMerge, RetryResolved, Raise,
        Finish
<1> QED BY <1>1, <1>4, <1>5, <1>6, <1>7 DEF Next, vars

-----------------------------------------------------------------------------
(* Decisions *)

LEMMA Undecided == NoDecision \in Decision /\ Sound(NoDecision) /\ NoDecision.step = "todo"
                   /\ NoDecision.confirmed = <<>>
<1>1. PICK d : d = NoDecision OBVIOUS
<1>2. /\ d.step = "todo" /\ d.subject = NotAlias /\ d.confirmed = <<>> /\ d.undecided = <<>>
      /\ d \in Decision
  BY <1>1 DEF NoDecision, Decision
<1>3. Sound(d) BY <1>2 DEF Sound
<1> QED BY <1>1, <1>2, <1>3

(* A ranking of others is a list of them. *)
LEMMA Lists ==
  ASSUME NEW s \in Entities, NEW xs \in SUBSET (Entities \ {s}), score[s] \in [Entities -> Nat]
  PROVE  /\ BestFirst(s, xs) \in Seq(Entities)
         /\ \A j \in DOMAIN BestFirst(s, xs) : BestFirst(s, xs)[j] \in xs
<1>1. PICK f : f = BestFirst(s, xs) OBVIOUS
<1>2. xs \in SUBSET Entities OBVIOUS
<1>3. f \in [1..Cardinality(xs) -> xs] /\ Cardinality(xs) \in Nat
  BY <1>1, <1>2, RankedCandidates
<1>4. f \in Seq(Entities) /\ \A j \in DOMAIN f : f[j] \in xs BY <1>3
<1> QED BY <1>1, <1>4

LEMMA Weighing ==
  ASSUME WorldInv, NEW s \in Entities, NEW step \in {"banded", "none"}, NEW d,
         d = [step |-> step, subject |-> s,
              confirmed |-> BestFirst(s, {x \in Candidates(s) : Merges(s, x)}),
              undecided |-> BestFirst(s, {x \in Candidates(s) : ~ Merges(s, x)})]
  PROVE  Sound(d)
<1>1. PICK yes : yes = {x \in Candidates(s) : Merges(s, x)} OBVIOUS
<1>2. PICK maybe : maybe = {x \in Candidates(s) : ~ Merges(s, x)} OBVIOUS
<1>3. yes \in SUBSET (Entities \ {s}) /\ maybe \in SUBSET (Entities \ {s})
  BY <1>1, <1>2 DEF Candidates
<1>4. score[s] \in [Entities -> Nat] BY DEF WorldInv
<1>5. PICK f : f = BestFirst(s, yes) OBVIOUS
<1>6. PICK g : g = BestFirst(s, maybe) OBVIOUS
<1>7. f \in Seq(Entities) /\ \A j \in DOMAIN f : f[j] \in yes BY <1>3, <1>4, <1>5, Lists
<1>8. g \in Seq(Entities) /\ \A j \in DOMAIN g : g[j] \in maybe BY <1>3, <1>4, <1>6, Lists
<1>9. d = [step |-> step, subject |-> s, confirmed |-> f, undecided |-> g]
  BY <1>1, <1>2, <1>5, <1>6
<1>10. PICK e : e = [step |-> step, subject |-> s, confirmed |-> f, undecided |-> g] OBVIOUS
<1>11. e \in Decision /\ e.step = step /\ e.subject = s /\ e.confirmed = f /\ e.undecided = g
  BY <1>7, <1>8, <1>10 DEF Decision
<1>12. Sound(e) BY <1>3, <1>7, <1>8, <1>11 DEF Sound
<1> QED BY <1>9, <1>10, <1>12

(* The indices of decisions are finitely many. *)
LEMMA Indices ==
  ASSUME SoundDecisions
  PROVE  DOMAIN scoring = 1..Len(subjects) /\ Len(subjects) \in Nat /\ IsFiniteSet(DOMAIN scoring)
<1>1. DOMAIN scoring = 1..Len(subjects) /\ Len(subjects) \in Nat BY DEF SoundDecisions
<1>2. IsFiniteSet(1..Len(subjects)) BY <1>1, FS_Interval
<1> QED BY <1>1, <1>2

(* Each decision for a candidate, once, in emit order. *)
LEMMA Ordered ==
  ASSUME SoundDecisions
  PROVE  /\ InEmitOrder \in Seq(Decision)
         /\ \E order : /\ \A k \in DOMAIN InEmitOrder :
                            /\ order[k] \in DOMAIN scoring
                            /\ InEmitOrder[k] = scoring[order[k]]
                            /\ InEmitOrder[k].step = "banded"
                       /\ \A j, k \in DOMAIN InEmitOrder : order[j] = order[k] => j = k
<1>1. PICK S : S = {i \in DOMAIN scoring : scoring[i].step = "banded"} OBVIOUS
<1>2. S \in SUBSET Nat /\ IsFiniteSet(S) BY <1>1, Indices, FS_Subset
<1>3. \A i \in S : scoring[i].subject \in Entities BY <1>1 DEF SoundDecisions, Sound
<1>4. PICK order : order = Ranked(S, EmitOrder(S)) OBVIOUS
<1>5. /\ order \in [1..Cardinality(S) -> S]
      /\ \A j, k \in 1..Cardinality(S) : j < k => order[j] # order[k]
  BY <1>2, <1>3, <1>4, RankedDecisions
<1>6. Cardinality(S) \in Nat BY <1>2, FS_CardinalityType
<1>7. PICK ds : ds = InEmitOrder OBVIOUS
<1>8. ds = [k \in 1..Cardinality(S) |-> scoring[order[k]]] BY <1>1, <1>4, <1>5, <1>7 DEF InEmitOrder, EmitOrder
<1>9. \A k \in 1..Cardinality(S) : order[k] \in DOMAIN scoring /\ scoring[order[k]] \in Decision
                                   /\ scoring[order[k]].step = "banded"
  BY <1>1, <1>5 DEF SoundDecisions
<1>10. ds \in Seq(Decision) BY <1>6, <1>8, <1>9
<1>11. \A j, k \in DOMAIN ds : order[j] = order[k] => j = k BY <1>5, <1>6, <1>8
<1>12. \A k \in DOMAIN ds : order[k] \in DOMAIN scoring /\ ds[k] = scoring[order[k]]
                            /\ ds[k].step = "banded"
  BY <1>8, <1>9
<1> QED BY <1>7, <1>10, <1>11, <1>12

(* A decision once its verdicts are in: what it confirms it confirmed before or
   was told. *)
Told(d, j) == VerdictsOf(BySubject(d.subject))[j] = "same"

Settles(d, c) ==
  /\ c \in Decision /\ c.step = d.step /\ c.subject = d.subject /\ c.undecided = d.undecided
  /\ \A n \in DOMAIN c.confirmed :
       \/ \E j \in DOMAIN d.confirmed : c.confirmed[n] = d.confirmed[j]
       \/ BySubject(d.subject) # 0
          /\ \E j \in DOMAIN d.undecided : c.confirmed[n] = d.undecided[j] /\ Told(d, j)

LEMMA Confirming ==
  ASSUME SoundDecisions, NEW k \in DOMAIN banded
  PROVE  Settles(banded[k], Confirmed(k))
<1>1. PICK d : d = banded[k] OBVIOUS
<1>2. Sound(d) BY <1>1 DEF SoundDecisions
<1>3. d \in Decision BY <1>2 DEF Sound
<1>4. PICK c : c = Confirmed(k) OBVIOUS
<1>5. CASE BySubject(d.subject) = 0
  <2>1. c = d BY <1>1, <1>4, <1>5 DEF Confirmed
  <2> QED BY <1>1, <1>3, <1>4, <2>1 DEF Settles
<1>6. CASE BySubject(d.subject) # 0
  <2>1. PICK yes : yes = {j \in DOMAIN d.undecided : Told(d, j)} OBVIOUS
  <2>2. d.undecided \in Seq(Entities) /\ d.confirmed \in Seq(Entities) BY <1>3 DEF Decision
  <2>3. yes \in SUBSET Nat /\ IsFiniteSet(yes)
    <3>1. PICK n \in Nat : DOMAIN d.undecided = 1..n BY <2>2
    <3>2. IsFiniteSet(1..n) BY <3>1, FS_Interval
    <3>3. yes \in SUBSET (1..n) BY <2>1, <3>1
    <3>4. IsFiniteSet(yes) BY <3>2, <3>3, FS_Subset
    <3>5. yes \in SUBSET Nat BY <3>3
    <3> QED BY <3>4, <3>5
  <2>4. PICK which : which = Ranked(yes, Ascending(yes)) OBVIOUS
  <2>5. which \in [1..Cardinality(yes) -> yes] /\ Cardinality(yes) \in Nat
    BY <2>3, <2>4, RankedNumbers, FS_CardinalityType
  <2>6. PICK more : more = [n \in 1..Cardinality(yes) |-> d.undecided[which[n]]] OBVIOUS
  <2>7. c = [d EXCEPT !.confirmed = @ \o more]
    BY <1>1, <1>4, <1>6, <2>1, <2>4, <2>6 DEF Confirmed, Told
  <2>8. \A n \in 1..Cardinality(yes) : which[n] \in DOMAIN d.undecided /\ Told(d, which[n])
                                       /\ more[n] = d.undecided[which[n]]
    BY <2>1, <2>5, <2>6
  <2>9. more \in Seq(Entities) /\ Len(more) = Cardinality(yes)
    BY <2>2, <2>5, <2>6, <2>8
  <2>10. PICK all : all = d.confirmed \o more OBVIOUS
  <2>11. all \in Seq(Entities) BY <2>2, <2>9, <2>10
  <2>12. c = [d EXCEPT !.confirmed = all] BY <2>7, <2>10
  <2>13. /\ c \in Decision /\ c.step = d.step /\ c.subject = d.subject
         /\ c.undecided = d.undecided /\ c.confirmed = all
    BY <1>3, <2>11, <2>12 DEF Decision
  <2>14. ASSUME NEW n \in DOMAIN all
         PROVE  \/ \E j \in DOMAIN d.confirmed : all[n] = d.confirmed[j]
                \/ \E j \in DOMAIN d.undecided : all[n] = d.undecided[j] /\ Told(d, j)
    <3>1. CASE n <= Len(d.confirmed) BY <2>2, <2>9, <2>10, <3>1
    <3>2. CASE n > Len(d.confirmed)
      <4>1. n - Len(d.confirmed) \in 1..Cardinality(yes) /\ all[n] = more[n - Len(d.confirmed)]
        BY <2>2, <2>9, <2>10, <3>2
      <4> QED BY <2>8, <4>1
    <3>3. n \in Nat /\ Len(d.confirmed) \in Nat BY <2>2, <2>11
    <3> QED BY <3>1, <3>2, <3>3
  <2> QED BY <1>1, <1>4, <1>6, <2>13, <2>14 DEF Settles
<1> QED BY <1>5, <1>6

LEMMA PassStarts == ASSUME Init PROVE SoundDecisions /\ SoundMerging
<1>1. subjects \in Seq(Entities) BY ArgumentsAssumption DEF Init
<1>2. scoring \in [DOMAIN subjects -> Decision] /\ \A i \in DOMAIN scoring : Sound(scoring[i])
  BY Undecided DEF Init
<1>3. banded = <<>> /\ phase = "score" /\ next = 1 /\ merging = NoMerge BY DEF Init
<1> QED BY <1>1, <1>2, <1>3, NoMergeIsOne DEF SoundDecisions, SoundMerging

(* One subject's decision changes. *)
LEMMA Deciding ==
  ASSUME SoundDecisions, NEW i \in DOMAIN scoring, NEW d, Sound(d), Scored(i, d),
         UNCHANGED <<subjects, banded>>
  PROVE  SoundDecisions'
<1>1. scoring' = [scoring EXCEPT ![i] = d] BY DEF Scored
<1>2. d \in Decision BY DEF Sound
<1>3. scoring' \in [DOMAIN subjects -> Decision] /\ DOMAIN scoring' = DOMAIN scoring
  BY <1>1, <1>2 DEF SoundDecisions
<1>4. \A j \in DOMAIN scoring' : Sound(scoring'[j]) BY <1>1, <1>3 DEF SoundDecisions
<1> QED BY <1>3, <1>4 DEF SoundDecisions

LEMMA DecisionsStay ==
  ASSUME PassInv, [Next]_vars
  PROVE  SoundDecisions'
<1> USE DEF PassInv
<1>1. CASE UNCHANGED <<subjects, scoring, banded>> BY <1>1 DEF SoundDecisions
<1>2. ASSUME NEW i \in DOMAIN subjects, ResolveSubject(i) PROVE SoundDecisions'
  <2>1. PICK c : c = Resolve(graph, subjects[i]) OBVIOUS
  <2>2. c \in Entities
    <3>1. subjects[i] \in Entities BY DEF SoundDecisions
    <3> QED BY <2>1, <3>1, Resolving DEF WorldInv
  <2>3. PICK d : d = [NoDecision EXCEPT !.step = "resolved", !.subject = c] OBVIOUS
  <2>4. Sound(d)
    <3>1. d = [step |-> "resolved", subject |-> c, confirmed |-> <<>>, undecided |-> <<>>]
      BY <2>3 DEF NoDecision
    <3>2. PICK e : e = [step |-> "resolved", subject |-> c,
                        confirmed |-> <<>>, undecided |-> <<>>]
      OBVIOUS
    <3>3. e \in Decision /\ e.step = "resolved" /\ e.subject = c /\ e.confirmed = <<>>
          /\ e.undecided = <<>>
      BY <2>2, <3>2 DEF Decision
    <3>4. Sound(e) BY <2>2, <3>3 DEF Sound
    <3> QED BY <3>1, <3>2, <3>4
  <2>5. Scored(i, d) /\ UNCHANGED <<subjects, banded>> BY <1>2, <2>1, <2>3 DEF ResolveSubject
  <2>6. i \in DOMAIN scoring BY DEF SoundDecisions
  <2> QED BY <2>4, <2>5, <2>6, Deciding
<1>3. ASSUME NEW i \in DOMAIN subjects, FindCandidates(i) PROVE SoundDecisions'
  <2>1. PICK s : s = scoring[i].subject OBVIOUS
  <2>2. PICK step \in {"banded", "none"} :
          step = IF Candidates(s) = {} THEN "none" ELSE "banded"
    OBVIOUS
  <2>3. PICK d : d = [step |-> step, subject |-> s,
                      confirmed |-> BestFirst(s, {x \in Candidates(s) : Merges(s, x)}),
                      undecided |-> BestFirst(s, {x \in Candidates(s) : ~ Merges(s, x)})]
    OBVIOUS
  <2>4. scoring[i].step = "resolved" /\ Scored(i, d) /\ UNCHANGED <<subjects, banded>>
    BY <1>3, <2>1, <2>2, <2>3 DEF FindCandidates
  <2>5. i \in DOMAIN scoring BY DEF SoundDecisions
  <2>6. s \in Entities BY <2>1, <2>4, <2>5 DEF SoundDecisions, Sound
  <2>7. Sound(d) BY <2>2, <2>3, <2>6, Weighing
  <2> QED BY <2>4, <2>5, <2>7, Deciding
<1>4. CASE EndWave
  <2>1. CASE UNCHANGED banded BY <1>1, <1>4, <2>1 DEF EndWave
  <2>2. CASE banded' = InEmitOrder
    <3>1. PICK ds : ds = InEmitOrder OBVIOUS
    <3>2. ds \in Seq(Decision) BY <3>1, Ordered
    <3>3. \A k \in DOMAIN ds : \E i \in DOMAIN scoring : ds[k] = scoring[i] /\ ds[k].step = "banded"
      BY <3>1, Ordered
    <3>4. \A k \in DOMAIN ds : Sound(ds[k]) /\ ds[k].step = "banded" BY <3>3 DEF SoundDecisions
    <3>5. UNCHANGED <<subjects, scoring>> /\ banded' = ds BY <1>4, <2>2, <3>1 DEF EndWave
    <3> QED BY <3>2, <3>4, <3>5 DEF SoundDecisions
  <2> QED BY <1>4, <2>1, <2>2 DEF EndWave
<1>5. CASE PairVerdicts
  <2>1. CASE UNCHANGED banded BY <1>1, <1>5, <2>1 DEF PairVerdicts
  <2>2. CASE banded' = [k \in DOMAIN banded |-> Confirmed(k)]
    <3>1. ASSUME NEW k \in DOMAIN banded PROVE Sound(Confirmed(k)) /\ Confirmed(k).step = "banded"
      <4>1. PICK c : c = Confirmed(k) OBVIOUS
      <4>2. PICK d : d = banded[k] OBVIOUS
      <4>3. Settles(d, c) BY <4>1, <4>2, Confirming
      <4>4. Sound(d) /\ d.step = "banded" BY <4>2 DEF SoundDecisions
      <4>5. Sound(c) /\ c.step = "banded"
        <5>1. d.subject \in Entities BY <4>4 DEF Sound
        <5>2. \A n \in DOMAIN c.confirmed : c.confirmed[n] # c.subject
          BY <4>3, <4>4 DEF Settles, Sound
        <5> QED BY <4>3, <4>4, <5>1, <5>2 DEF Settles, Sound
      <4> QED BY <4>1, <4>5
    <3>2. PICK n \in Nat : DOMAIN banded = 1..n BY DEF SoundDecisions
    <3>3. PICK ds : ds = [k \in DOMAIN banded |-> Confirmed(k)] OBVIOUS
    <3>4. \A k \in 1..n : ds[k] = Confirmed(k) /\ Sound(ds[k]) /\ ds[k].step = "banded"
      BY <3>1, <3>2, <3>3
    <3>5. ds \in Seq(Decision) /\ DOMAIN ds = 1..n
      <4>1. \A k \in 1..n : ds[k] \in Decision BY <3>4 DEF Sound
      <4>2. ds = [k \in 1..n |-> ds[k]] BY <3>2, <3>3
      <4> QED BY <4>1, <4>2
    <3>6. UNCHANGED <<subjects, scoring>> /\ banded' = ds BY <1>5, <2>2, <3>3 DEF PairVerdicts
    <3> QED BY <3>4, <3>5, <3>6 DEF SoundDecisions
  <2> QED BY <1>5, <2>1, <2>2 DEF PairVerdicts
<1>6. CASE PassStep
  <2>1. CASE \E i \in DOMAIN subjects : ResolveSubject(i) \/ FindCandidates(i)
    BY <1>2, <1>3, <2>1
  <2> QED BY <1>1, <1>4, <1>5, <1>6, <2>1
    DEF PassStep, Adjudicate, Recheck, PlanMerge, AppendMerge, RetryResolved, Raise, Finish,
        decided
<1>7. ASSUME NEW x \in Entities, NEW y \in Entities, OutsideMerge(x, y) PROVE SoundDecisions'
  BY <1>1, <1>7 DEF OutsideMerge, decided
<1> QED BY <1>1, <1>6, <1>7 DEF Next, Project, Rescore, vars, decided

LEMMA MergingStays ==
  ASSUME PassInv, [Next]_vars
  PROVE  SoundMerging'
<1> USE DEF PassInv
<1>1. CASE UNCHANGED <<next, merging>> /\ phase' \in {"score", "adjudicate", "emit", "done", "failed"}
  BY <1>1 DEF SoundMerging
<1>2. CASE UNCHANGED <<phase, next, merging, banded>> BY <1>2 DEF SoundMerging
<1>3. CASE PassStep
  <2>1. ASSUME NEW i \in DOMAIN subjects, ResolveSubject(i) \/ FindCandidates(i)
        PROVE  SoundMerging'
    BY <1>2, <2>1 DEF ResolveSubject, FindCandidates, emission
  <2>2. CASE EndWave BY <1>1, <2>2 DEF EndWave, emission
  <2>3. CASE Adjudicate BY <1>2, <2>3 DEF Adjudicate, emission
  <2>4. CASE PairVerdicts BY <1>1, <2>4 DEF PairVerdicts, emission
  <2>5. CASE Recheck
    <3>1. PICK d : d = banded[next] OBVIOUS
    <3>2. PICK fresh : fresh = {x \in Ext!ToSet(d.confirmed) : ~ Stale(x)} OBVIOUS
    <3>3. next \in Nat \ {0} /\ next <= Len(banded) /\ banded \in Seq(Decision)
      BY <2>5 DEF Recheck, SoundMerging, SoundDecisions
    <3>4. next \in DOMAIN banded BY <3>3
    <3>5. Sound(d) /\ d.step = "banded" BY <3>1, <3>4 DEF SoundDecisions
    <3>6. CASE Skip
      BY <2>5, <3>6, <3>3 DEF Recheck, Skip, SoundMerging
    <3>7. CASE /\ phase' = "plan" /\ UNCHANGED <<next, banded>>
               /\ merging' = [NoMerge EXCEPT !.canonical = d.subject, !.merged = fresh]
      <4>1. merging' = Bare(d.subject, fresh) BY <3>7 DEF Bare
      <4>2. IsMerging(merging') /\ merging'.canonical = d.subject /\ merging'.merged = fresh
        BY <4>1, BareMerge
      <4>3. d.subject \in Entities BY <3>5 DEF Sound
      <4>4. \A x \in fresh : \E j \in DOMAIN d.confirmed : x = d.confirmed[j]
        BY <3>2, Zenon DEF Ext!ToSet
      <4> QED BY <3>1, <3>3, <3>4, <3>7, <4>2, <4>3, <4>4 DEF SoundMerging
    <3> QED BY <2>5, <3>1, <3>2, <3>6, <3>7 DEF Recheck, decided
  <2>6. CASE PlanMerge
    <3>1. PICK p : p = Planned(graph, merging) OBVIOUS
    <3>2. IsMerging(p) /\ p.canonical = merging.canonical /\ p.merged = merging.merged
      BY <3>1, Planning DEF SoundMerging
    <3>3. phase = "plan" /\ phase' = "append" /\ merging' = p /\ UNCHANGED <<next, banded>>
      BY <2>6, <3>1 DEF PlanMerge, decided
    <3> QED BY <3>2, <3>3 DEF SoundMerging
  <2>7. CASE AppendMerge
    <3>1. phase' = "emit" /\ next' = next + 1 /\ merging' = NoMerge BY <2>7 DEF AppendMerge
    <3> QED BY <3>1, NoMergeIsOne DEF SoundMerging
  <2>8. CASE RetryResolved
    <3>1. PICK c : c = Resolve(graph, merging.canonical) OBVIOUS
    <3>2. phase = "append" /\ phase' = "plan" /\ UNCHANGED <<next, banded>>
          /\ merging' = [merging EXCEPT !.canonical = c, !.retried = TRUE]
      BY <2>8, <3>1 DEF RetryResolved, decided
    <3>3. next \in DOMAIN banded /\ merging.canonical \in Entities BY <3>2 DEF SoundMerging
    <3>4. c \in Entities BY <3>1, <3>3, Resolving DEF WorldInv
    <3>5. PICK m : m = merging' OBVIOUS
    <3>6. m = [canonical |-> c, merged |-> merging.merged, retried |-> TRUE,
               plan |-> merging.plan, before |-> merging.before, after |-> merging.after]
      BY <3>2, <3>5 DEF SoundMerging, IsMerging
    <3>7. m.canonical = c /\ m.merged = merging.merged /\ m.retried = TRUE
          /\ m.plan = merging.plan /\ m.before = merging.before /\ m.after = merging.after
      BY <3>6
    <3>8. IsMerging(m) BY <3>6, <3>7, Zenon DEF IsMerging
    <3> QED BY <3>2, <3>3, <3>4, <3>5, <3>7, <3>8 DEF SoundMerging
  <2>9. CASE Raise BY <1>1, <2>9 DEF Raise, emission
  <2>10. CASE Finish BY <1>1, <2>10 DEF Finish, emission
  <2> QED BY <1>3, <2>1, <2>2, <2>3, <2>4, <2>5, <2>6, <2>7, <2>8, <2>9, <2>10 DEF PassStep
<1>4. ASSUME NEW x \in Entities, NEW y \in Entities, OutsideMerge(x, y) PROVE SoundMerging'
  BY <1>2, <1>4 DEF OutsideMerge, decided, emission
<1>5. CASE Project BY <1>2, <1>5 DEF Project, decided, emission
<1>6. CASE Rescore BY <1>2, <1>6 DEF Rescore, decided, emission
<1>7. CASE UNCHANGED vars BY <1>2, <1>7 DEF vars, decided, emission
<1> QED BY <1>3, <1>4, <1>5, <1>6, <1>7 DEF Next

-----------------------------------------------------------------------------
(* A pass that nobody disturbs *)

(* The last decision for a subject that something was asked about. *)
LEMMA AskedLast ==
  ASSUME SoundDecisions, NEW s
  PROVE  \/ BySubject(s) = 0
         \/ /\ BySubject(s) \in DOMAIN banded /\ banded[BySubject(s)].subject = s
            /\ banded[BySubject(s)].undecided # <<>>
<1>1. PICK asked : asked = {k \in DOMAIN banded : banded[k].subject = s
                                                  /\ banded[k].undecided # <<>>}
  OBVIOUS
<1>2. CASE asked = {} BY <1>1, <1>2 DEF BySubject
<1>3. CASE asked # {}
  <2>1. PICK n \in Nat : DOMAIN banded = 1..n BY DEF SoundDecisions
  <2>2. asked \in SUBSET Nat /\ \A k \in asked : k <= n BY <1>1, <2>1
  <2>3. \E m \in asked : \A k \in asked : k <= m BY <1>3, <2>2, GreatestNatural
  <2>4. PICK from : from = CHOOSE k \in asked : \A j \in asked : j <= k OBVIOUS
  <2>5. from \in asked BY <2>3, <2>4
  <2>6. BySubject(s) = from BY <1>1, <1>3, <2>4 DEF BySubject
  <2> QED BY <1>1, <2>5, <2>6
<1> QED BY <1>2, <1>3

LEMMA NoneMismatched ==
  ASSUME PassInv, outside = 0, phase = "adjudicate", NEW k \in DOMAIN banded
  PROVE  ~ Mismatched(k)
<1>1. PICK s : s = banded[k].subject OBVIOUS
<1>2. \A j \in DOMAIN banded : banded[j].undecided = Asked(banded[j].subject)
  BY DEF PassInv, Undisturbed
<1>3. PICK from : from = BySubject(s) OBVIOUS
<1>4. from = 0 \/ (from \in DOMAIN banded /\ banded[from].subject = s)
  BY <1>3, AskedLast DEF PassInv
<1>5. CASE from = 0 BY <1>1, <1>3, <1>5 DEF Mismatched
<1>6. CASE from \in DOMAIN banded /\ banded[from].subject = s
  <2>1. banded[from].undecided = banded[k].undecided BY <1>1, <1>2, <1>6
  <2> QED BY <1>1, <1>3, <2>1 DEF Mismatched
<1> QED BY <1>4, <1>5, <1>6

(* Who stands for itself has no alias row. *)
LEMMA Free ==
  ASSUME WorldInv, NEW x \in Entities, Resolve(graph, x) = x
  PROVE  graph.aliases[x] = NotAlias
BY AwayForGood DEF WorldInv

LEMMA AskedStays ==
  ASSUME UNCHANGED <<graph, score>>, NEW s
  PROVE  Asked(s)' = Asked(s)
BY DEF Asked, BestFirst, Better, Ranked, Candidates, Merges

LEMMA UndisturbedStarts == ASSUME Init PROVE Undisturbed
<1>1. \A y \in Entities : IsAlias(y) => graph.aliases[y] # NotAlias
  BY WorldStarts DEF WorldInv, RowsAfter, IsAlias
<1>2. cursor = Len(log) /\ phase = "score" /\ banded = <<>> BY DEF Init
<1>3. \A i \in DOMAIN scoring : scoring[i].step # "banded" BY Undecided DEF Init
<1> QED BY <1>1, <1>2, <1>3 DEF Undisturbed

(* The part of Undisturbed that is about scores. *)
AsScored ==
  /\ cursor = Len(log)
  /\ \A i \in DOMAIN scoring :
       scoring[i].step = "banded" => scoring[i].undecided = Asked(scoring[i].subject)
  /\ \A k \in DOMAIN banded : banded[k].undecided = Asked(banded[k].subject)

LEMMA ScoredStays ==
  ASSUME PassInv, outside = 0, PassStep, phase \in {"score", "adjudicate"},
         phase' \in {"score", "adjudicate"}
  PROVE  AsScored'
<1> USE DEF PassInv
<1>1. AsScored BY DEF Undisturbed, AsScored
<1>2. ASSUME UNCHANGED <<world, scoring, banded>> PROVE AsScored'
  <2>1. \A s : Asked(s)' = Asked(s) BY <1>2, AskedStays DEF world
  <2> QED BY <1>1, <1>2, <2>1 DEF AsScored, world
<1>3. ASSUME NEW i \in DOMAIN subjects, NEW d, Scored(i, d), UNCHANGED <<world, subjects, banded>>,
             d.step = "banded" => d.undecided = Asked(d.subject)
      PROVE  AsScored'
  <2>1. \A s : Asked(s)' = Asked(s) BY <1>3, AskedStays DEF world
  <2>2. DOMAIN scoring' = DOMAIN scoring
        /\ \A j \in DOMAIN scoring : scoring'[j] = IF j = i THEN d ELSE scoring[j]
    BY <1>3 DEF Scored, SoundDecisions
  <2> QED BY <1>1, <1>3, <2>1, <2>2 DEF AsScored, world
<1>4. ASSUME NEW i \in DOMAIN subjects, ResolveSubject(i) PROVE AsScored'
  <2>1. PICK c : c = Resolve(graph, subjects[i]) OBVIOUS
  <2>2. PICK d : d = [NoDecision EXCEPT !.step = "resolved", !.subject = c] OBVIOUS
  <2>3. d.step = "resolved" BY <2>2 DEF NoDecision
  <2>4. Scored(i, d) /\ UNCHANGED <<world, subjects, banded>>
    BY <1>4, <2>1, <2>2 DEF ResolveSubject
  <2> QED BY <1>3, <2>3, <2>4
<1>5. ASSUME NEW i \in DOMAIN subjects, FindCandidates(i) PROVE AsScored'
  <2>1. PICK s : s = scoring[i].subject OBVIOUS
  <2>2. PICK step : step = IF Candidates(s) = {} THEN "none" ELSE "banded" OBVIOUS
  <2>3. PICK confirmed : confirmed = BestFirst(s, {x \in Candidates(s) : Merges(s, x)}) OBVIOUS
  <2>4. PICK d : d = [step |-> step, subject |-> s, confirmed |-> confirmed,
                      undecided |-> Asked(s)]
    OBVIOUS
  <2>5. Scored(i, d) /\ UNCHANGED <<world, subjects, banded>>
    BY <1>5, <2>1, <2>2, <2>3, <2>4 DEF FindCandidates, Asked
  <2>6. d.undecided = Asked(d.subject) BY <2>4
  <2> QED BY <1>3, <2>5, <2>6
<1>6. CASE EndWave
  <2>1. CASE UNCHANGED banded BY <1>2, <1>6, <2>1 DEF EndWave
  <2>2. CASE banded' = InEmitOrder
    <3>1. \A s : Asked(s)' = Asked(s) BY <1>6, AskedStays DEF EndWave, world
    <3>2. \A k \in DOMAIN InEmitOrder :
            \E i \in DOMAIN scoring : InEmitOrder[k] = scoring[i] /\ scoring[i].step = "banded"
      <4>1. PICK ds : ds = InEmitOrder OBVIOUS
      <4>2. \A k \in DOMAIN ds : \E i \in DOMAIN scoring : ds[k] = scoring[i] /\ ds[k].step = "banded"
        BY <4>1, Ordered
      <4> QED BY <4>1, <4>2
    <3>3. UNCHANGED <<world, scoring>> BY <1>6 DEF EndWave
    <3> QED BY <1>1, <2>2, <3>1, <3>2, <3>3 DEF AsScored, world
  <2> QED BY <1>6, <2>1, <2>2 DEF EndWave
<1>7. CASE Adjudicate BY <1>2, <1>7 DEF Adjudicate
<1>8. CASE PairVerdicts BY <1>8 DEF PairVerdicts
<1> QED BY <1>4, <1>5, <1>6, <1>7, <1>8
  DEF PassStep, Recheck, PlanMerge, AppendMerge, RetryResolved, Raise, Finish

(* Who was absorbed is known to have been, in the pass or in the graph. *)
Known ==
  \A y \in Entities : IsAlias(y) => y \in consumed \/ graph.aliases[y] # NotAlias

(* What is about to be merged can be. *)
Mergeable ==
  /\ ~ IsAlias(merging.canonical) /\ merging.canonical \notin merging.merged
  /\ \A x \in merging.merged : ~ IsAlias(x)

(* What is not stale was not absorbed. *)
LEMMA NotStale ==
  ASSUME WorldInv, Known, NEW x \in Entities, ~ Stale(x)
  PROVE  ~ IsAlias(x)
BY Free DEF Stale, Known

LEMMA KnownStays ==
  ASSUME PassInv, Known, PassStep \/ Project
  PROVE  Known'
<1> USE DEF PassInv
<1>1. CASE UNCHANGED <<log, graph, consumed>> BY <1>1 DEF Known, IsAlias
<1>2. CASE AppendMerge
  <2>1. PICK e : e = MergeEvent(merging) OBVIOUS
  <2>2. e.merged = merging.merged BY <2>1 DEF MergeEvent
  <2>3. log' = Append(log, e) /\ consumed' = consumed \union merging.merged /\ graph' = graph
    BY <1>2, <2>1 DEF AppendMerge
  <2>4. PICK es : es = log OBVIOUS
  <2>5. PICK more : more = log' OBVIOUS
  <2>6. PICK n \in Nat : n = Len(es) BY <2>4 DEF WorldInv, Forward
  <2>7. es \in Seq(Range(es)) BY <2>4 DEF WorldInv, Forward
  <2>8. es \in Seq(Range(es) \union {e}) BY <2>7
  <2>9. Len(more) = n + 1 /\ more[n + 1] = e /\ \A i \in 1..n : more[i] = es[i]
    BY <2>3, <2>4, <2>5, <2>6, <2>8
  <2>10. ASSUME NEW y \in Entities, NEW i \in 1..(n + 1), y \in more[i].merged
         PROVE  y \in consumed' \/ graph'.aliases[y] # NotAlias
    <3>1. CASE i \in 1..n
      <4>1. IsAlias(y) BY <2>4, <2>6, <2>9, <2>10, <3>1 DEF IsAlias
      <4> QED BY <2>3, <4>1 DEF Known
    <3>2. CASE i = n + 1 BY <2>2, <2>3, <2>9, <2>10, <3>2
    <3> QED BY <3>1, <3>2
  <2> QED BY <2>5, <2>9, <2>10 DEF Known, IsAlias
<1>3. CASE Project
  <2>1. PICK h : h = graph' OBVIOUS
  <2>2. cursor < Len(log) /\ h = FoldEvent(graph, log[cursor + 1]) /\ UNCHANGED <<log, consumed>>
    BY <1>3, <2>1 DEF Project, emission
  <2>3. \A x \in Entities : graph.aliases[x] # NotAlias => h.aliases[x] # NotAlias
    BY <2>2, Projecting DEF WorldInv
  <2> QED BY <2>1, <2>2, <2>3 DEF Known, IsAlias
<1>4. ASSUME NEW i \in DOMAIN subjects, ResolveSubject(i) \/ FindCandidates(i) PROVE Known'
  BY <1>1, <1>4 DEF ResolveSubject, FindCandidates, world, emission
<1> QED BY <1>1, <1>2, <1>3, <1>4
  DEF PassStep, EndWave, Adjudicate, PairVerdicts, Recheck, PlanMerge, RetryResolved, Raise,
      Finish, world, emission

LEMMA MergeableStays ==
  ASSUME PassInv, Known, PassStep \/ Project, phase \in {"plan", "append"} => Mergeable,
         phase' \in {"plan", "append"}
  PROVE  Mergeable'
<1> USE DEF PassInv
<1>1. CASE UNCHANGED <<log, merging, phase>> BY <1>1 DEF Mergeable, IsAlias
<1>2. CASE Recheck
  <2>1. PICK d : d = banded[next] OBVIOUS
  <2>2. PICK fresh : fresh = {x \in Ext!ToSet(d.confirmed) : ~ Stale(x)} OBVIOUS
  <2>3. phase = "emit" /\ next \in DOMAIN banded
    BY <1>2 DEF Recheck, SoundMerging, SoundDecisions
  <2>4. Sound(d) /\ d.step = "banded" BY <2>1, <2>3 DEF SoundDecisions
  <2>5. CASE Skip BY <2>3, <2>5 DEF Skip
  <2>6. CASE /\ ~ Stale(d.subject) /\ UNCHANGED log
             /\ merging' = [NoMerge EXCEPT !.canonical = d.subject, !.merged = fresh]
    <3>1. merging' = Bare(d.subject, fresh) BY <2>6 DEF Bare
    <3>2. merging'.canonical = d.subject /\ merging'.merged = fresh BY <3>1, BareMerge
    <3>3. \A x \in fresh : ~ Stale(x) /\ \E j \in DOMAIN d.confirmed : x = d.confirmed[j]
      BY <2>2, Zenon DEF Ext!ToSet
    <3>4. d.subject \in Entities /\ d.confirmed \in Seq(Entities) BY <2>4 DEF Sound, Decision
    <3>5. \A x \in fresh : x \in Entities /\ x # d.subject BY <2>4, <3>3, <3>4 DEF Sound
    <3>6. ~ IsAlias(d.subject) BY <2>6, <3>4, NotStale
    <3>7. \A x \in fresh : ~ IsAlias(x) BY <3>3, <3>5, NotStale
    <3> QED BY <2>6, <3>2, <3>5, <3>6, <3>7 DEF Mergeable, IsAlias
  <2> QED BY <1>2, <2>1, <2>2, <2>5, <2>6 DEF Recheck, world
<1>3. CASE PlanMerge
  <2>1. PICK p : p = Planned(graph, merging) OBVIOUS
  <2>2. p.canonical = merging.canonical /\ p.merged = merging.merged
    BY <2>1, Planning DEF SoundMerging
  <2>3. phase = "plan" /\ merging' = p /\ UNCHANGED log BY <1>3, <2>1 DEF PlanMerge, world
  <2> QED BY <2>2, <2>3 DEF Mergeable, IsAlias
<1>4. CASE RetryResolved BY <1>4 DEF RetryResolved, Mergeable
<1>5. CASE Project BY <1>1, <1>5 DEF Project, emission
<1>6. ASSUME NEW i \in DOMAIN subjects, ResolveSubject(i) \/ FindCandidates(i) PROVE Mergeable'
  BY <1>6 DEF ResolveSubject, FindCandidates
<1> QED BY <1>2, <1>3, <1>4, <1>5, <1>6
  DEF PassStep, EndWave, Adjudicate, PairVerdicts, AppendMerge, Raise, Finish

LEMMA UndisturbedStays ==
  ASSUME PassInv, [Next]_vars
  PROVE  Undisturbed'
<1> USE DEF PassInv
<1> SUFFICES ASSUME outside' = 0 PROVE Undisturbed'
  BY DEF Undisturbed
<1>1. CASE UNCHANGED vars
  <2>1. Undisturbed BY DEF PassInv
  <2>2. \A s : Asked(s)' = Asked(s) BY <1>1, AskedStays DEF vars, world
  <2> QED BY <1>1, <2>1, <2>2 DEF Undisturbed, IsAlias, vars, world, decided, emission
<1>2. CASE PassStep \/ Project
  <2>1. outside = 0
    <3>1. ASSUME NEW i \in DOMAIN subjects, ResolveSubject(i) \/ FindCandidates(i)
          PROVE  outside = 0
      BY <3>1 DEF ResolveSubject, FindCandidates, world
    <3> QED BY <1>2, <3>1
      DEF PassStep, EndWave, Adjudicate, PairVerdicts, Recheck, PlanMerge, AppendMerge,
          RetryResolved, Raise, Finish, Project, world
  <2>2. Known /\ (phase \in {"plan", "append"} => Mergeable) /\ phase # "failed"
    BY <2>1 DEF Undisturbed, Known, Mergeable
  <2>3. Known' BY <1>2, <2>2, KnownStays
  <2>4. phase' \in {"plan", "append"} => Mergeable' BY <1>2, <2>2, MergeableStays
  <2>5. phase' # "failed"
    <3>1. CASE PairVerdicts
      <4>1. phase = "adjudicate" BY <3>1 DEF PairVerdicts
      <4>2. \A k \in DOMAIN banded : ~ Mismatched(k) BY <2>1, <4>1, NoneMismatched
      <4> QED BY <3>1, <4>2 DEF PairVerdicts
    <3>2. CASE Raise BY <2>2, <3>2 DEF Raise, Mergeable
    <3>3. ASSUME NEW i \in DOMAIN subjects, ResolveSubject(i) \/ FindCandidates(i)
          PROVE  phase' # "failed"
      BY <2>2, <3>3 DEF ResolveSubject, FindCandidates
    <3> QED BY <1>2, <2>2, <3>1, <3>2, <3>3
      DEF PassStep, EndWave, Adjudicate, Recheck, Skip, PlanMerge, AppendMerge,
          RetryResolved, Finish, Project
  <2>6. phase' \in {"score", "adjudicate"} => AsScored'
    <3> SUFFICES ASSUME phase' \in {"score", "adjudicate"} PROVE AsScored'
      OBVIOUS
    <3>1. CASE Project
      <4>1. phase' = phase /\ cursor < Len(log) BY <3>1 DEF Project
      <4>2. cursor = Len(log) BY <2>1, <4>1 DEF Undisturbed
      <4>3. Len(log) \in Nat BY DEF WorldInv, Forward
      <4> QED BY <4>1, <4>2, <4>3
    <3>2. CASE PassStep
      <4>1. phase \in {"score", "adjudicate"}
        <5>1. ASSUME NEW i \in DOMAIN subjects, ResolveSubject(i) \/ FindCandidates(i)
              PROVE  phase \in {"score", "adjudicate"}
          BY <5>1 DEF ResolveSubject, FindCandidates
        <5> QED BY <3>2, <5>1
          DEF PassStep, EndWave, Adjudicate, PairVerdicts, Recheck, Skip, PlanMerge,
              AppendMerge, RetryResolved, Raise, Finish
      <4> QED BY <2>1, <3>2, <4>1, ScoredStays
    <3> QED BY <1>2, <3>1, <3>2
  <2>7. /\ phase' # "failed"
        /\ phase' \in {"score", "adjudicate"} => AsScored'
        /\ Known' /\ (phase' \in {"plan", "append"} => Mergeable')
    BY <2>3, <2>4, <2>5, <2>6
  <2> QED BY <2>7 DEF Undisturbed, AsScored, Known, Mergeable
<1>3. ASSUME NEW x \in Entities, NEW y \in Entities, OutsideMerge(x, y) PROVE FALSE
  <2>1. outside \in Nat /\ outside' = outside + 1 BY <1>3 DEF OutsideMerge, WorldInv
  <2> QED BY <2>1
<1>4. CASE Rescore
  <2>1. outside \in Nat /\ outside' = outside + 1 BY <1>4 DEF Rescore, WorldInv
  <2> QED BY <2>1
<1> QED BY <1>1, <1>2, <1>3, <1>4 DEF Next

-----------------------------------------------------------------------------
(* Lists put end to end *)

(* g[n]: the first n of ss, end to end. *)
Running(g, S, ss) ==
  /\ g \in [Nat -> Seq(S)] /\ g[0] = <<>>
  /\ \A n \in Nat : n + 1 \in 1..Len(ss) => g[n + 1] = g[n] \o ss[n + 1]

LEMMA RunningExists ==
  ASSUME NEW S, NEW ss \in Seq(Seq(S))
  PROVE  \E g : Running(g, S, ss)
<1> DEFINE more == [n \in Nat |-> [q \in Seq(S) |-> IF n + 1 \in 1..Len(ss) THEN q \o ss[n + 1]
                                                    ELSE q]]
<1>1. more \in [Nat -> [Seq(S) -> Seq(S)]]
  <2>1. ASSUME NEW n \in Nat, NEW q \in Seq(S)
        PROVE  (IF n + 1 \in 1..Len(ss) THEN q \o ss[n + 1] ELSE q) \in Seq(S)
    <3>1. n + 1 \in 1..Len(ss) => ss[n + 1] \in Seq(S) OBVIOUS
    <3> QED BY <3>1
  <2> QED BY <2>1
<1>2. <<>> \in Seq(S) OBVIOUS
<1>3. PICK g : Iterating(g, Seq(S), <<>>, more)
  <2> HIDE DEF more
  <2> QED BY <1>1, <1>2, Iterates
<1>4. g \in [Nat -> Seq(S)] /\ g[0] = <<>> /\ \A n \in Nat : g[n + 1] = more[n][g[n]]
  BY <1>3 DEF Iterating
<1>5. ASSUME NEW n \in Nat, n + 1 \in 1..Len(ss) PROVE g[n + 1] = g[n] \o ss[n + 1]
  <2>1. g[n] \in Seq(S) /\ g[n + 1] = more[n][g[n]] BY <1>4
  <2> QED BY <1>5, <2>1
<1> HIDE DEF more
<1> QED BY <1>4, <1>5 DEF Running

LEMMA RunningStep ==
  ASSUME NEW S, NEW ss \in Seq(Seq(S)), NEW g, Running(g, S, ss), NEW i \in 1..Len(ss)
  PROVE  ss[i] \in Seq(S) /\ g[i - 1] \in Seq(S) /\ g[i] \in Seq(S) /\ g[i] = g[i - 1] \o ss[i]
<1>1. PICK m \in Nat : m = i - 1 OBVIOUS
<1>2. m + 1 = i /\ i \in Nat BY <1>1
<1>3. ss[i] \in Seq(S) OBVIOUS
<1>4. g[m] \in Seq(S) /\ g[i] \in Seq(S) /\ g[m + 1] = g[m] \o ss[m + 1] BY <1>2 DEF Running
<1> QED BY <1>1, <1>2, <1>3, <1>4

(* The first n of ss. *)
Begins(tt, ss, n) == Len(tt) = n /\ \A i \in 1..n : tt[i] = ss[i]

(* FlattenSeq of the first n is g[n]. *)
LEMMA Flattened ==
  ASSUME NEW S, NEW ss \in Seq(Seq(S)), NEW g, Running(g, S, ss), NEW n \in 0..Len(ss),
         NEW tt \in Seq(Seq(S)), Begins(tt, ss, n)
  PROVE  Ext!FlattenSeq(tt) = g[n]
<1>0. Len(tt) = n /\ \A i \in 1..n : tt[i] = ss[i] BY DEF Begins
<1>1. CASE n = 0
  <2>1. tt = <<>> BY <1>0, <1>1
  <2> QED BY <1>1, <2>1, Zenon DEF Running, Ext!FlattenSeq
<1>2. CASE n # 0
  <2> DEFINE Flat(f) == f = [i \in 1..Len(tt) |-> IF i = 1 THEN tt[i] ELSE f[i - 1] \o tt[i]]
  <2>1. Ext!FlattenSeq(tt) = (CHOOSE f : Flat(f))[Len(tt)]
    BY <1>0, <1>2, Zenon DEF Ext!FlattenSeq
  <2>2. n \in Nat /\ n <= Len(ss) /\ Len(ss) \in Nat OBVIOUS
  <2>3. g \in [Nat -> Seq(S)] /\ g[0] = <<>>
        /\ \A m \in Nat : m + 1 \in 1..Len(ss) => g[m + 1] = g[m] \o ss[m + 1]
    BY DEF Running
  <2>4. ASSUME NEW i \in 1..n PROVE g[i] = IF i = 1 THEN tt[i] ELSE g[i - 1] \o tt[i]
    <3>1. i - 1 \in Nat /\ (i - 1) + 1 = i /\ i \in 1..Len(ss) BY <2>2
    <3>a. g[i] = g[i - 1] \o ss[i] BY <3>1, RunningStep
    <3>b. tt[i] = ss[i] BY <1>0
    <3>2. g[i] = g[i - 1] \o tt[i] BY <3>a, <3>b
    <3>3. CASE i = 1
      <4>1. ss[1] \in Seq(S) /\ tt[1] = ss[1] BY <1>0, <3>1, <3>3
      <4>2. <<>> \o ss[1] = ss[1] BY <4>1
      <4>3. g[i - 1] = <<>> BY <2>3, <3>3
      <4> QED BY <3>2, <3>3, <4>1, <4>2, <4>3
    <3> QED BY <3>2, <3>3
  <2>5. PICK f0 : f0 = [i \in 1..n |-> g[i]] OBVIOUS
  <2>6. Flat(f0)
    <3>1. ASSUME NEW i \in 1..n PROVE f0[i] = IF i = 1 THEN tt[i] ELSE f0[i - 1] \o tt[i]
      <4>1. i # 1 => i - 1 \in 1..n BY <2>2
      <4> QED BY <2>4, <2>5, <4>1
    <3>2. f0 = [i \in 1..n |-> f0[i]] BY <2>5
    <3> QED BY <1>0, <3>1, <3>2
  <2>7. PICK f : f = CHOOSE f1 : Flat(f1) OBVIOUS
  <2>8. Flat(f)
    <3> HIDE DEF Flat
    <3> QED BY <2>6, <2>7
  <2>9. \A i \in 1..n : f[i] = IF i = 1 THEN tt[i] ELSE f[i - 1] \o tt[i] BY <1>0, <2>8
  <2> DEFINE P == {m \in Nat : m + 1 \in 1..n => f[m + 1] = g[m + 1]}
  <2>10. 0 \in P
    <3>1. 0 + 1 = 1 OBVIOUS
    <3> QED BY <2>4, <2>9, <3>1
  <2>11. ASSUME NEW m \in P PROVE m + 1 \in P
    <3> SUFFICES ASSUME (m + 1) + 1 \in 1..n PROVE f[(m + 1) + 1] = g[(m + 1) + 1]
      OBVIOUS
    <3>1. m + 1 \in 1..n /\ ((m + 1) + 1) - 1 = m + 1 /\ (m + 1) + 1 # 1 BY <2>2
    <3>2. f[m + 1] = g[m + 1] BY <3>1
    <3>3. PICK i \in 1..n : i = (m + 1) + 1 OBVIOUS
    <3>4. i - 1 = m + 1 /\ i # 1 BY <3>1, <3>3
    <3>5. f[i] = f[i - 1] \o tt[i] BY <2>9, <3>4
    <3>6. g[i] = g[i - 1] \o tt[i] BY <2>4, <3>4
    <3> QED BY <3>2, <3>3, <3>4, <3>5, <3>6
  <2>12. P \in SUBSET Nat OBVIOUS
  <2>13. P = Nat
    <3> HIDE DEF P
    <3> QED BY <2>10, <2>11, <2>12, Inductive
  <2>14. f[n] = g[n]
    <3>1. n - 1 \in Nat /\ (n - 1) + 1 = n /\ n \in 1..n BY <1>2, <2>2
    <3>2. n - 1 \in P BY <2>13, <3>1
    <3> QED BY <3>1, <3>2
  <2> QED BY <1>0, <2>1, <2>7, <2>14
<1> QED BY <1>1, <1>2

LEMMA TwoLists ==
  ASSUME NEW S, NEW p \in Seq(S), NEW q \in Seq(S), NEW r, r = p \o q
  PROVE  /\ Len(r) = Len(p) + Len(q)
         /\ \A j \in 1..Len(p) : j \in 1..Len(r) /\ r[j] = p[j]
         /\ \A j \in 1..Len(q) : Len(p) + j \in 1..Len(r) /\ r[Len(p) + j] = q[j]
<1>1. Len(r) = Len(p) + Len(q) OBVIOUS
<1>2. \A j \in 1..Len(p) : j \in 1..Len(r) /\ r[j] = p[j] OBVIOUS
<1>3. ASSUME NEW j \in 1..Len(q) PROVE Len(p) + j \in 1..Len(r) /\ r[Len(p) + j] = q[j]
  OBVIOUS
<1> QED BY <1>1, <1>2, <1>3

(* Where the j-th of the k-th is. *)
Place(g, ss, k, j, n) ==
  /\ Len(g[k - 1]) \in Nat /\ Len(g[k - 1]) + j \in 1..Len(g[n])
  /\ g[n][Len(g[k - 1]) + j] = ss[k][j]

LEMMA Places ==
  ASSUME NEW S, NEW ss \in Seq(Seq(S)), NEW g, Running(g, S, ss),
         NEW k \in 1..Len(ss), NEW j \in 1..Len(ss[k]), NEW n \in k..Len(ss)
  PROVE  Place(g, ss, k, j, n)
<1>2. k - 1 \in Nat /\ k \in Nat /\ Len(ss) \in Nat OBVIOUS
<1>3. ss[k] \in Seq(S) /\ g[k - 1] \in Seq(S) /\ g[k] = g[k - 1] \o ss[k] BY RunningStep
<1>4. PICK at \in Nat : at = Len(g[k - 1]) BY <1>3
<1>5. at + j \in 1..Len(g[k]) /\ g[k][at + j] = ss[k][j]
  <2>1. PICK p \in Seq(S) : p = g[k - 1] BY <1>3
  <2>2. PICK q \in Seq(S) : q = ss[k] BY <1>3
  <2>3. PICK r : r = p \o q OBVIOUS
  <2>4. j \in 1..Len(q) /\ at = Len(p) /\ g[k] = r BY <1>3, <1>4, <2>1, <2>2, <2>3
  <2>5. Len(p) + j \in 1..Len(r) /\ r[Len(p) + j] = q[j] BY <2>3, <2>4, TwoLists
  <2> QED BY <2>2, <2>4, <2>5
<1> DEFINE P == {m \in Nat : k + m <= Len(ss) =>
                   at + j \in 1..Len(g[k + m]) /\ g[k + m][at + j] = ss[k][j]}
<1>6. 0 \in P
  <2>1. k + 0 = k OBVIOUS
  <2> QED BY <1>5, <2>1
<1>7. ASSUME NEW m \in P PROVE m + 1 \in P
  <2> SUFFICES ASSUME k + (m + 1) <= Len(ss)
               PROVE  at + j \in 1..Len(g[k + (m + 1)]) /\ g[k + (m + 1)][at + j] = ss[k][j]
    OBVIOUS
  <2>1. PICK i \in Nat : i = k + (m + 1) BY <1>2
  <2>2. i \in 1..Len(ss) /\ i - 1 = k + m /\ k + m <= Len(ss)
    <3>1. m \in Nat /\ k + (m + 1) <= Len(ss) /\ k >= 1 OBVIOUS
    <3> HIDE DEF P
    <3> QED BY <1>2, <2>1, <3>1
  <2>3. ss[i] \in Seq(S) /\ g[i - 1] \in Seq(S) /\ g[i] = g[i - 1] \o ss[i]
    BY <2>2, RunningStep
  <2>4. at + j \in 1..Len(g[i - 1]) /\ g[i - 1][at + j] = ss[k][j] BY <2>2
  <2>5. at + j \in 1..Len(g[i]) /\ g[i][at + j] = ss[k][j]
    <3>1. PICK p \in Seq(S) : p = g[i - 1] BY <2>3
    <3>2. PICK q \in Seq(S) : q = ss[i] BY <2>3
    <3>3. PICK r : r = p \o q OBVIOUS
    <3>4. at + j \in 1..Len(p) /\ g[i] = r /\ p[at + j] = ss[k][j]
      BY <2>3, <2>4, <3>1, <3>2, <3>3
    <3>5. at + j \in 1..Len(r) /\ r[at + j] = p[at + j] BY <3>3, <3>4, TwoLists
    <3> QED BY <3>4, <3>5
  <2> QED BY <2>1, <2>5
<1>8. P \in SUBSET Nat OBVIOUS
<1>9. P = Nat
  <2> HIDE DEF P
  <2> QED BY <1>6, <1>7, <1>8, Inductive
<1>10. n - k \in P /\ k + (n - k) = n /\ n <= Len(ss)
  <2>1. n - k \in Nat /\ k + (n - k) = n /\ n <= Len(ss) BY <1>2
  <2> HIDE DEF P
  <2> QED BY <1>9, <2>1
<1>11. at + j \in 1..Len(g[n]) /\ g[n][at + j] = ss[k][j] BY <1>10
<1> QED BY <1>4, <1>11 DEF Place

(* Lists of equal lengths add up to equal lengths. *)
SameShape(ss, tt) == Len(tt) = Len(ss) /\ \A i \in 1..Len(ss) : Len(tt[i]) = Len(ss[i])

LEMMA SameLengths ==
  ASSUME NEW S, NEW ss \in Seq(Seq(S)), NEW g, Running(g, S, ss),
         NEW T, NEW tt \in Seq(Seq(T)), NEW h, Running(h, T, tt),
         SameShape(ss, tt), NEW n \in 0..Len(ss)
  PROVE  Len(h[n]) = Len(g[n])
<1>0. Len(tt) = Len(ss) /\ \A i \in 1..Len(ss) : Len(tt[i]) = Len(ss[i]) BY DEF SameShape
<1>1. g[0] = <<>> /\ h[0] = <<>> BY DEF Running
<1> DEFINE P == {m \in Nat : m <= Len(ss) => Len(h[m]) = Len(g[m])}
<1>3. 0 \in P BY <1>1
<1>4. ASSUME NEW m \in P PROVE m + 1 \in P
  <2> SUFFICES ASSUME m + 1 <= Len(ss) PROVE Len(h[m + 1]) = Len(g[m + 1])
    OBVIOUS
  <2>1. m \in Nat /\ m <= Len(ss) /\ m + 1 \in 1..Len(ss) OBVIOUS
  <2>2. Len(h[m]) = Len(g[m]) BY <2>1
  <2>3. g[m] \in Seq(S) /\ ss[m + 1] \in Seq(S) /\ g[m + 1] = g[m] \o ss[m + 1]
    <3>1. PICK i \in 1..Len(ss) : i = m + 1 BY <2>1
    <3>2. i - 1 = m BY <3>1
    <3>3. ss[i] \in Seq(S) /\ g[i - 1] \in Seq(S) /\ g[i] = g[i - 1] \o ss[i] BY RunningStep
    <3> QED BY <3>1, <3>2, <3>3
  <2>4. h[m] \in Seq(T) /\ tt[m + 1] \in Seq(T) /\ h[m + 1] = h[m] \o tt[m + 1]
    <3>1. PICK i \in 1..Len(tt) : i = m + 1 BY <1>0, <2>1
    <3>2. i - 1 = m BY <3>1
    <3>3. tt[i] \in Seq(T) /\ h[i - 1] \in Seq(T) /\ h[i] = h[i - 1] \o tt[i] BY RunningStep
    <3> QED BY <3>1, <3>2, <3>3
  <2>5. Len(g[m + 1]) = Len(g[m]) + Len(ss[m + 1]) BY <2>3
  <2>6. Len(h[m + 1]) = Len(h[m]) + Len(tt[m + 1]) BY <2>4
  <2> QED BY <1>0, <2>1, <2>2, <2>5, <2>6
<1>5. P \in SUBSET Nat OBVIOUS
<1>6. P = Nat
  <2> HIDE DEF P
  <2> QED BY <1>3, <1>4, <1>5, Inductive
<1> QED BY <1>6

-----------------------------------------------------------------------------
(* Questions and their answers *)

Pair(k, j) == <<banded[k].subject, banded[k].undecided[j]>>

(* The questions are the pairs left undecided, and the cursor of decision k is
   at the first of its own. *)
LEMMA QuestionsAre ==
  ASSUME SoundDecisions
  PROVE  /\ Questions \in Seq(Entities \X Entities)
         /\ \A k \in DOMAIN banded : \A j \in 1..Len(banded[k].undecided) :
              /\ Before(k) \in Nat /\ Before(k) + j \in 1..Len(Questions)
              /\ Questions[Before(k) + j] = Pair(k, j)
<1>1. PICK n \in Nat : n = Len(banded) /\ DOMAIN banded = 1..n BY DEF SoundDecisions
<1>2. \A k \in 1..n : banded[k].subject \in Entities /\ banded[k].undecided \in Seq(Entities)
  BY <1>1 DEF SoundDecisions, Sound, Decision
<1>3. PICK us : us = [k \in 1..n |-> banded[k].undecided] OBVIOUS
<1>4. us \in Seq(Seq(Entities)) /\ Len(us) = n /\ \A k \in 1..n : us[k] = banded[k].undecided
  BY <1>2, <1>3
<1>5. PICK qs : qs = [k \in DOMAIN banded |->
                       [j \in DOMAIN banded[k].undecided |-> Pair(k, j)]]
  OBVIOUS
<1>6. ASSUME NEW k \in 1..n
      PROVE  /\ qs[k] \in Seq(Entities \X Entities) /\ Len(qs[k]) = Len(us[k])
             /\ \A j \in 1..Len(us[k]) : qs[k][j] = Pair(k, j)
  <2>1. PICK u : u = banded[k].undecided OBVIOUS
  <2>2. PICK m \in Nat : m = Len(u) /\ DOMAIN u = 1..m BY <1>2, <2>1
  <2>3. PICK q : q = qs[k] OBVIOUS
  <2>4. q = [j \in 1..m |-> Pair(k, j)] BY <1>1, <1>5, <2>1, <2>2, <2>3
  <2>5. \A j \in 1..m : Pair(k, j) \in Entities \X Entities
    BY <1>2, <2>1, <2>2 DEF Pair
  <2>6. q \in Seq(Entities \X Entities) /\ Len(q) = m BY <2>4, <2>5
  <2> QED BY <1>4, <2>1, <2>2, <2>3, <2>4, <2>6
<1>7. qs \in Seq(Seq(Entities \X Entities)) /\ Len(qs) = n
  <2>1. qs = [k \in 1..n |-> qs[k]] BY <1>1, <1>5
  <2> QED BY <1>6, <2>1
<1>8. Questions = Ext!FlattenSeq(qs) BY <1>5, Zenon DEF Questions, Pair
<1>9. PICK g : Running(g, Entities \X Entities, qs) BY <1>7, RunningExists
<1>10. PICK h : Running(h, Entities, us) BY <1>4, RunningExists
<1>11. Questions = g[n]
  <2>1. n \in 0..Len(qs) /\ Begins(qs, qs, n) BY <1>7 DEF Begins
  <2> QED BY <1>7, <1>8, <1>9, <2>1, Flattened
<1>12. ASSUME NEW k \in 1..n PROVE Before(k) = Len(g[k - 1])
  <2>1. PICK m \in 0..n : m = k - 1 OBVIOUS
  <2>2. PICK part : part = [j \in 1..m |-> us[j]] OBVIOUS
  <2>3. part = [j \in 1..(k - 1) |-> banded[j].undecided]
    <3>1. \A j \in 1..m : j \in 1..n BY <1>1
    <3>2. \A j \in 1..n : us[j] = banded[j].undecided BY <1>4
    <3>3. \A j \in 1..m : us[j] = banded[j].undecided BY <3>1, <3>2
    <3> QED BY <2>1, <2>2, <3>3
  <2>4. Before(k) = Len(Ext!FlattenSeq(part)) BY <2>3, Zenon DEF Before
  <2>5. part \in Seq(Seq(Entities)) /\ Len(part) = m /\ \A j \in 1..m : part[j] = us[j]
    <3>1. \A j \in 1..m : us[j] \in Seq(Entities) BY <1>4
    <3> QED BY <2>2, <3>1
  <2>6. m \in 0..Len(us) /\ m \in 0..Len(qs) BY <1>4, <1>7
  <2>7. Ext!FlattenSeq(part) = h[m]
    <3>1. Begins(part, us, m) BY <2>5 DEF Begins
    <3>2. us \in Seq(Seq(Entities)) /\ part \in Seq(Seq(Entities)) BY <1>4, <2>5
    <3> QED BY <1>10, <2>6, <3>1, <3>2, Flattened
  <2>8. SameShape(qs, us) BY <1>4, <1>6, <1>7 DEF SameShape
  <2>10. Len(h[m]) = Len(g[m])
    <3>1. us \in Seq(Seq(Entities)) /\ qs \in Seq(Seq(Entities \X Entities)) BY <1>4, <1>7
    <3> QED BY <1>9, <1>10, <2>6, <2>8, <3>1, SameLengths
  <2> QED BY <2>1, <2>4, <2>7, <2>10
<1>13. ASSUME NEW k \in 1..n, NEW j \in 1..Len(us[k])
       PROVE  /\ Before(k) \in Nat /\ Before(k) + j \in 1..Len(Questions)
              /\ Questions[Before(k) + j] = Pair(k, j)
  <2>a. j \in 1..Len(qs[k]) BY <1>6, <1>7
  <2>b. Len(qs) \in Nat /\ n = Len(qs) BY <1>6, <1>7
  <2>1. k \in 1..Len(qs) /\ j \in 1..Len(qs[k]) /\ n \in k..Len(qs) BY <2>a, <2>b
  <2>2. /\ Len(g[k - 1]) \in Nat /\ Len(g[k - 1]) + j \in 1..Len(g[n])
        /\ g[n][Len(g[k - 1]) + j] = qs[k][j]
    <3>1. Place(g, qs, k, j, n) BY <1>7, <1>9, <2>1, Places
    <3> QED BY <3>1 DEF Place
  <2>3. qs[k][j] = Pair(k, j) BY <1>6
  <2> QED BY <1>11, <1>12, <2>2, <2>3
<1>14. Questions \in Seq(Entities \X Entities)
  <2>1. g \in [Nat -> Seq(Entities \X Entities)] BY <1>9 DEF Running
  <2> QED BY <1>11, <2>1
<1> QED BY <1>1, <1>4, <1>13, <1>14

(* Decision k's share of the verdicts is the answers to its own questions. *)
LEMMA OwnVerdicts ==
  ASSUME SoundDecisions, verdicts \in Seq({"same", "different", "none"}),
         Len(verdicts) = Len(Questions),
         NEW k \in DOMAIN banded, NEW j \in DOMAIN banded[k].undecided
  PROVE  \E n \in 1..Len(verdicts) : VerdictsOf(k)[j] = verdicts[n] /\ Questions[n] = Pair(k, j)
<1>1. PICK m \in Nat : m = Len(banded[k].undecided) /\ DOMAIN banded[k].undecided = 1..m
  BY DEF SoundDecisions, Sound, Decision
<1>2. \A i \in 1..m : /\ Before(k) \in Nat /\ Before(k) + i \in 1..Len(Questions)
                      /\ Questions[Before(k) + i] = Pair(k, i)
  BY <1>1, QuestionsAre
<1>3. j \in 1..m /\ m \in 1..m BY <1>1
<1>4. PICK b \in Nat : b = Before(k) BY <1>2, <1>3
<1>5. b + m <= Len(verdicts) /\ Len(verdicts) \in Nat BY <1>2, <1>3, <1>4
<1>6. VerdictsOf(k) = SubSeq(verdicts, b + 1, b + m) BY <1>1, <1>4 DEF VerdictsOf
<1>7. SubSeq(verdicts, b + 1, b + m)[j] = verdicts[b + j] BY <1>3, <1>5
<1>8. b + j \in 1..Len(verdicts) /\ Questions[b + j] = Pair(k, j) BY <1>2, <1>3, <1>4
<1> QED BY <1>6, <1>7, <1>8

LEMMA EvidenceGrows ==
  ASSUME [Next]_vars
  PROVE  evidence \subseteq evidence'
<1>1. ASSUME NEW i \in DOMAIN subjects, ResolveSubject(i) \/ FindCandidates(i)
      PROVE  evidence \subseteq evidence'
  BY <1>1 DEF ResolveSubject, FindCandidates
<1>2. ASSUME NEW x \in Entities, NEW y \in Entities, OutsideMerge(x, y)
      PROVE  evidence \subseteq evidence'
  BY <1>2 DEF OutsideMerge, decided
<1> QED BY <1>1, <1>2
  DEF Next, PassStep, EndWave, Adjudicate, PairVerdicts, Recheck, PlanMerge, AppendMerge,
      RetryResolved, Raise, Finish, Project, Rescore, vars, decided

LEMMA EvidenceStarts == ASSUME Init PROVE EvidenceKept
<1>1. /\ phase = "score" /\ verdicts = <<>> /\ emitted = {}
      /\ \A i \in DOMAIN scoring : scoring[i].confirmed = <<>>
  BY Undecided DEF Init
<1> QED BY <1>1 DEF EvidenceKept, Evident, VerdictsMatchQuestions

(* Each decision's confirmed pairs are in the evidence. *)
LEMMA ScoringEvident ==
  ASSUME PassInv, [Next]_vars
  PROVE  \A i \in DOMAIN scoring' : Evident(scoring[i])'
<1> USE DEF PassInv
<1>1. evidence \subseteq evidence' BY EvidenceGrows
<1>2. \A i \in DOMAIN scoring : Evident(scoring[i]) BY DEF EvidenceKept
<1>3. CASE UNCHANGED scoring BY <1>1, <1>2, <1>3 DEF Evident
<1>4. ASSUME NEW i \in DOMAIN subjects, NEW d, Scored(i, d),
             \A j \in DOMAIN d.confirmed : <<d.subject, d.confirmed[j]>> \in evidence'
      PROVE  \A k \in DOMAIN scoring' : Evident(scoring[k])'
  <2>1. DOMAIN scoring' = DOMAIN scoring
        /\ \A k \in DOMAIN scoring : scoring'[k] = IF k = i THEN d ELSE scoring[k]
    BY <1>4 DEF Scored, SoundDecisions
  <2> QED BY <1>1, <1>2, <1>4, <2>1 DEF Evident
<1>5. ASSUME NEW i \in DOMAIN subjects, ResolveSubject(i)
      PROVE  \A k \in DOMAIN scoring' : Evident(scoring[k])'
  <2>1. PICK d : d = [NoDecision EXCEPT !.step = "resolved", !.subject = Resolve(graph, subjects[i])]
    OBVIOUS
  <2>2. d.confirmed = <<>> BY <2>1 DEF NoDecision
  <2>3. Scored(i, d) BY <1>5, <2>1 DEF ResolveSubject
  <2> QED BY <1>4, <2>2, <2>3
<1>6. ASSUME NEW i \in DOMAIN subjects, FindCandidates(i)
      PROVE  \A k \in DOMAIN scoring' : Evident(scoring[k])'
  <2>1. PICK s : s = scoring[i].subject OBVIOUS
  <2>2. PICK step : step = IF Candidates(s) = {} THEN "none" ELSE "banded" OBVIOUS
  <2>3. PICK confirmed : confirmed = BestFirst(s, {x \in Candidates(s) : Merges(s, x)}) OBVIOUS
  <2>4. PICK d : d = [step |-> step, subject |-> s, confirmed |-> confirmed,
                      undecided |-> Asked(s)]
    OBVIOUS
  <2>5. Scored(i, d) BY <1>6, <2>1, <2>2, <2>3, <2>4 DEF FindCandidates, Asked
  <2>6. evidence' = evidence \union {<<s, confirmed[k]>> : k \in DOMAIN confirmed}
    BY <1>6, <2>1, <2>3 DEF FindCandidates
  <2>7. d.subject = s /\ d.confirmed = confirmed BY <2>4
  <2>8. \A j \in DOMAIN confirmed : <<s, confirmed[j]>> \in evidence' BY <2>6
  <2> QED BY <1>4, <2>5, <2>7, <2>8
<1>7. ASSUME NEW x \in Entities, NEW y \in Entities, OutsideMerge(x, y) PROVE UNCHANGED scoring
  BY <1>7 DEF OutsideMerge, decided
<1>8. CASE PassStep
  <2>1. CASE \E i \in DOMAIN subjects : ResolveSubject(i) \/ FindCandidates(i)
    BY <1>5, <1>6, <2>1
  <2> QED BY <1>3, <1>8, <2>1
    DEF PassStep, EndWave, Adjudicate, PairVerdicts, Recheck, PlanMerge, AppendMerge,
        RetryResolved, Raise, Finish, decided
<1> QED BY <1>3, <1>7, <1>8 DEF Next, Project, Rescore, vars, decided

(* Each answer is to its question. *)
LEMMA AnsweredStays ==
  ASSUME PassInv, Adjudicate
  PROVE  Answered'
<1> USE DEF PassInv
<1>1. Answered /\ Len(verdicts) < Len(Questions) BY DEF Adjudicate, EvidenceKept
<1>2. PICK n \in Nat : n = Len(verdicts) /\ DOMAIN verdicts = 1..n BY <1>1 DEF Answered
<1>3. Questions \in Seq(Entities \X Entities) BY QuestionsAre
<1>4. PICK last : last = BatchEnd(n) OBVIOUS
<1>5. last \in Nat /\ n < last /\ last <= Len(Questions)
  <2>1. BatchSize \in Nat \ {0} BY SizesAssumption
  <2>2. n < Len(Questions) /\ Len(Questions) \in Nat BY <1>1, <1>2, <1>3
  <2> QED BY <1>2, <1>4, <2>1, <2>2 DEF BatchEnd
<1>6. PICK batch : batch = Batch OBVIOUS
<1>7. /\ DOMAIN batch = 1..(last - n)
      /\ \A j \in 1..(last - n) : batch[j] = Questions[n + j]
  <2>1. batch = SubSeq(Questions, n + 1, last) BY <1>2, <1>4, <1>6 DEF Batch
  <2>2. n + 1 \in 1..Len(Questions) /\ last \in 1..Len(Questions) BY <1>5
  <2>3. batch \in Seq(Entities \X Entities) /\ Len(batch) = (last - (n + 1)) + 1
    BY <1>3, <1>5, <2>1, <2>2
  <2>4. (last - (n + 1)) + 1 = last - n BY <1>5
  <2>5. \A j \in 1..(last - n) : batch[j] = Questions[n + j]
    <3>1. \A j \in 1..(last - n) : (n + 1) + (j - 1) = n + j BY <1>5
    <3> QED BY <1>3, <1>5, <2>1, <2>2, <3>1
  <2> QED BY <2>3, <2>4, <2>5
<1> DEFINE Same(b, answers) == {b[j] : j \in {k \in DOMAIN b : answers[k] = "same"}}
           Possible(b) == [DOMAIN b -> {"same", "different"}] \union {[j \in DOMAIN b |-> "none"]}
<1>a. \E answers \in Possible(Batch) :
        verdicts' = verdicts \o answers /\ evidence' = evidence \union Same(Batch, answers)
  BY Zenon DEF Adjudicate
<1>b. PICK answers \in Possible(batch) :
        verdicts' = verdicts \o answers /\ evidence' = evidence \union Same(batch, answers)
  <2> HIDE DEF Same, Possible
  <2> QED BY <1>6, <1>a
<1>8. /\ answers \in [DOMAIN batch -> {"same", "different"}] \union {[j \in DOMAIN batch |-> "none"]}
      /\ verdicts' = verdicts \o answers
      /\ evidence' = evidence
           \union {batch[j] : j \in {k \in DOMAIN batch : answers[k] = "same"}}
  BY <1>b
<1>9. answers \in [1..(last - n) -> {"same", "different", "none"}] BY <1>7, <1>8
<1>10. answers \in Seq({"same", "different", "none"}) /\ Len(answers) = last - n
  BY <1>5, <1>9
<1>11. PICK all : all = verdicts' OBVIOUS
<1>12. all = verdicts \o answers BY <1>8, <1>11
<1>13. all \in Seq({"same", "different", "none"}) /\ Len(all) = last /\ DOMAIN all = 1..last
  BY <1>1, <1>2, <1>5, <1>10, <1>12 DEF Answered
<1>14. Questions' = Questions BY DEF Adjudicate, Questions
<1>15. ASSUME NEW m \in 1..last, all[m] = "same" PROVE Questions[m] \in evidence'
  <2>1. CASE m <= n
    <3>1. m \in 1..n /\ all[m] = verdicts[m] BY <1>1, <1>2, <1>10, <1>12, <2>1 DEF Answered
    <3>2. Questions[m] \in evidence BY <1>1, <1>2, <1>15, <3>1 DEF Answered
    <3> QED BY <1>8, <3>2
  <2>2. CASE m > n
    <3>1. PICK j \in 1..(last - n) : m = n + j
      <4>1. m - n \in 1..(last - n) /\ m = n + (m - n) BY <1>5, <2>2
      <4> QED BY <4>1
    <3>2. all[m] = answers[j]
      <4>1. verdicts \in Seq({"same", "different", "none"}) BY <1>1 DEF Answered
      <4>2. j \in 1..Len(answers) BY <1>10
      <4>3. all[Len(verdicts) + j] = answers[j] BY <1>10, <1>12, <4>1, <4>2, TwoLists
      <4> QED BY <1>2, <3>1, <4>3
    <3>3. batch[j] = Questions[m] /\ answers[j] = "same" BY <1>7, <1>15, <3>1, <3>2
    <3>4. batch[j] \in {batch[i] : i \in {k \in DOMAIN batch : answers[k] = "same"}}
      BY <1>7, <3>3
    <3> QED BY <1>8, <3>3, <3>4
  <2> QED BY <1>5, <2>1, <2>2
<1> QED BY <1>11, <1>13, <1>14, <1>15 DEF Answered

(* What the decisions to be emitted rest on, once all is scored. *)
Rests ==
  /\ \A j, k \in DOMAIN banded : banded[j].subject = banded[k].subject => j = k
  /\ \A k \in DOMAIN banded : Evident(banded[k])

LEMMA BandedRest ==
  ASSUME PassInv, DistinctSubjects, EndWave, banded' = InEmitOrder
  PROVE  Rests'
<1> USE DEF PassInv
<1>1. PICK ds : ds = InEmitOrder OBVIOUS
<1>2. PICK order : /\ \A k \in DOMAIN ds : /\ order[k] \in DOMAIN scoring
                                           /\ ds[k] = scoring[order[k]] /\ ds[k].step = "banded"
                   /\ \A j, k \in DOMAIN ds : order[j] = order[k] => j = k
  BY <1>1, Ordered
<1>3. evidence' = evidence BY DEF EndWave
<1>4. \A k \in DOMAIN ds : Evident(ds[k]) BY <1>2 DEF EvidenceKept
<1>5. ASSUME NEW j \in DOMAIN ds, NEW k \in DOMAIN ds, ds[j].subject = ds[k].subject
      PROVE  j = k
  <2>1. ds[j].subject \in Entities BY <1>2 DEF SoundDecisions, Sound
  <2>2. ds[j].subject # NotAlias BY <2>1, SentinelAssumption
  <2>3. order[j] = order[k] BY <1>2, <1>5, <2>2 DEF DistinctSubjects
  <2> QED BY <1>2, <2>3
<1> QED BY <1>1, <1>3, <1>4, <1>5 DEF Rests, Evident

(* With one decision for each subject, its verdicts are its own. *)
LEMMA PairedRest ==
  ASSUME PassInv, DistinctSubjects, PairVerdicts, banded' = [k \in DOMAIN banded |-> Confirmed(k)]
  PROVE  Rests'
<1> USE DEF PassInv
<1>1. phase = "adjudicate" /\ Len(verdicts) = Len(Questions) /\ evidence' = evidence
  BY DEF PairVerdicts
<1>2. Answered /\ Rests BY <1>1 DEF EvidenceKept, Rests
<1>3. ASSUME NEW k \in DOMAIN banded
      PROVE  Confirmed(k).subject = banded[k].subject /\ Evident(Confirmed(k))
  <2>1. PICK c : c = Confirmed(k) OBVIOUS
  <2>2. PICK d : d = banded[k] OBVIOUS
  <2>3. Settles(d, c) BY <2>1, <2>2, Confirming
  <2>4. c.subject = d.subject BY <2>3 DEF Settles
  <2>5. ASSUME NEW n \in DOMAIN c.confirmed PROVE <<c.subject, c.confirmed[n]>> \in evidence
    <3>1. CASE \E j \in DOMAIN d.confirmed : c.confirmed[n] = d.confirmed[j]
      BY <1>2, <2>2, <2>4, <3>1 DEF Rests, Evident
    <3>2. CASE /\ BySubject(d.subject) # 0
               /\ \E j \in DOMAIN d.undecided : c.confirmed[n] = d.undecided[j] /\ Told(d, j)
      <4>1. PICK j \in DOMAIN d.undecided : c.confirmed[n] = d.undecided[j] /\ Told(d, j)
        BY <3>2
      <4>2. BySubject(d.subject) = k BY <1>2, <2>2, <3>2, AskedLast DEF Rests
      <4>3. VerdictsOf(k)[j] = "same" BY <4>1, <4>2 DEF Told
      <4>4. PICK m \in 1..Len(verdicts) : VerdictsOf(k)[j] = verdicts[m] /\ Questions[m] = Pair(k, j)
        <5>1. verdicts \in Seq({"same", "different", "none"}) BY <1>2 DEF Answered
        <5> QED BY <1>1, <2>2, <5>1, OwnVerdicts
      <4>5. m \in DOMAIN verdicts BY <1>2, <4>4 DEF Answered
      <4>6. Pair(k, j) \in evidence BY <1>2, <4>3, <4>4, <4>5 DEF Answered
      <4> QED BY <2>2, <2>4, <4>1, <4>6 DEF Pair
    <3> QED BY <2>3, <3>1, <3>2 DEF Settles
  <2> QED BY <2>1, <2>2, <2>4, <2>5 DEF Evident
<1>4. PICK ds : ds = banded' OBVIOUS
<1>5. DOMAIN ds = DOMAIN banded
      /\ \A k \in DOMAIN banded : ds[k].subject = banded[k].subject /\ Evident(ds[k])
  BY <1>3, <1>4
<1>6. \A j, k \in DOMAIN ds : ds[j].subject = ds[k].subject => j = k BY <1>2, <1>5 DEF Rests
<1>7. \A k \in DOMAIN ds : \A j \in DOMAIN ds[k].confirmed :
        <<ds[k].subject, ds[k].confirmed[j]>> \in evidence
  BY <1>5 DEF Evident
<1> QED BY <1>1, <1>4, <1>6, <1>7 DEF Rests, Evident

LEMMA RestsStay ==
  ASSUME PassInv, [Next]_vars, phase' # "score", DistinctSubjects'
  PROVE  Rests'
<1> USE DEF PassInv
<1>1. CASE UNCHANGED <<scoring, banded, evidence>> /\ phase # "score"
  <2>1. DistinctSubjects BY <1>1 DEF DistinctSubjects
  <2>2. Rests BY <1>1, <2>1 DEF EvidenceKept, Rests
  <2> QED BY <1>1, <2>2 DEF Rests, Evident
<1>2. CASE EndWave
  <2>1. UNCHANGED scoring /\ banded' = InEmitOrder BY <1>2 DEF EndWave
  <2>2. DistinctSubjects BY <2>1 DEF DistinctSubjects
  <2> QED BY <1>2, <2>1, <2>2, BandedRest
<1>3. CASE Adjudicate
  <2>1. UNCHANGED <<scoring, banded>> /\ phase = "adjudicate" /\ evidence \subseteq evidence'
    BY <1>3 DEF Adjudicate
  <2>2. DistinctSubjects BY <2>1 DEF DistinctSubjects
  <2>3. Rests BY <2>1, <2>2 DEF EvidenceKept, Rests
  <2> QED BY <2>1, <2>3 DEF Rests, Evident
<1>4. CASE PairVerdicts
  <2>1. UNCHANGED <<scoring, evidence>> /\ phase = "adjudicate" BY <1>4 DEF PairVerdicts
  <2>2. DistinctSubjects BY <2>1 DEF DistinctSubjects
  <2>3. CASE UNCHANGED banded BY <1>1, <2>1, <2>3
  <2>4. CASE banded' = [k \in DOMAIN banded |-> Confirmed(k)] BY <1>4, <2>2, <2>4, PairedRest
  <2> QED BY <1>4, <2>3, <2>4 DEF PairVerdicts
<1>5. ASSUME NEW i \in DOMAIN subjects, ResolveSubject(i) \/ FindCandidates(i) PROVE FALSE
  BY <1>5 DEF ResolveSubject, FindCandidates
<1>6. CASE PassStep
  BY <1>1, <1>2, <1>3, <1>4, <1>5, <1>6
  DEF PassStep, Recheck, PlanMerge, AppendMerge, RetryResolved, Raise, Finish, decided
<1>7. ASSUME NEW x \in Entities, NEW y \in Entities, OutsideMerge(x, y) PROVE Rests'
  BY <1>1, <1>7 DEF OutsideMerge, decided
<1>8. CASE Project BY <1>1, <1>8 DEF Project, decided
<1>9. CASE Rescore BY <1>1, <1>9 DEF Rescore, decided
<1>10. CASE UNCHANGED vars BY <1>1, <1>10 DEF vars, decided
<1> QED BY <1>6, <1>7, <1>8, <1>9, <1>10 DEF Next

(* What is merged rests on evidence. *)
LEMMA MatchesStay ==
  ASSUME PassInv, [Next]_vars
  PROVE  VerdictsMatchQuestions'
<1> USE DEF PassInv
<1>1. evidence \subseteq evidence' BY EvidenceGrows
<1>2. CASE UNCHANGED <<scoring, emitted>>
  BY <1>1, <1>2 DEF EvidenceKept, VerdictsMatchQuestions, DistinctSubjects
<1>3. ASSUME NEW i \in DOMAIN subjects, ResolveSubject(i) \/ FindCandidates(i)
      PROVE  VerdictsMatchQuestions'
  <2>1. phase = "score" /\ UNCHANGED emitted BY <1>3 DEF ResolveSubject, FindCandidates, emission
  <2> QED BY <2>1 DEF EvidenceKept, VerdictsMatchQuestions
<1>4. CASE AppendMerge
  <2>1. PICK m : m = [subject |-> banded[next].subject, canonical |-> merging.canonical,
                      merged |-> merging.merged]
    OBVIOUS
  <2>2. /\ phase = "append" /\ UNCHANGED <<scoring, banded, evidence>>
        /\ emitted' = emitted \union {m}
    BY <1>4, <2>1 DEF AppendMerge, decided
  <2>3. m.subject = banded[next].subject /\ m.merged = merging.merged BY <2>1
  <2> SUFFICES ASSUME DistinctSubjects', NEW e \in emitted', NEW x \in e.merged
               PROVE  <<e.subject, x>> \in evidence
    BY <2>2 DEF VerdictsMatchQuestions
  <2>4. DistinctSubjects BY <2>2 DEF DistinctSubjects
  <2>5. CASE e \in emitted BY <2>4, <2>5 DEF EvidenceKept, VerdictsMatchQuestions
  <2>6. CASE e = m
    <3>1. next \in DOMAIN banded
          /\ \E j \in DOMAIN banded[next].confirmed : x = banded[next].confirmed[j]
      BY <2>2, <2>3, <2>6 DEF SoundMerging
    <3>2. Evident(banded[next]) BY <2>2, <2>4, <3>1 DEF EvidenceKept
    <3> QED BY <2>3, <2>6, <3>1, <3>2 DEF Evident
  <2> QED BY <2>2, <2>5, <2>6
<1>5. CASE PassStep
  BY <1>2, <1>3, <1>4, <1>5
  DEF PassStep, EndWave, Adjudicate, PairVerdicts, Recheck, PlanMerge, RetryResolved, Raise,
      Finish, decided, emission
<1>6. ASSUME NEW x \in Entities, NEW y \in Entities, OutsideMerge(x, y)
      PROVE  VerdictsMatchQuestions'
  BY <1>2, <1>6 DEF OutsideMerge, decided, emission
<1> QED BY <1>2, <1>5, <1>6 DEF Next, Project, Rescore, vars, decided, emission

LEMMA EvidenceStays ==
  ASSUME PassInv, [Next]_vars
  PROVE  EvidenceKept'
<1> USE DEF PassInv
<1>1. \A i \in DOMAIN scoring' : Evident(scoring[i])' BY ScoringEvident
<1>2. phase' # "score" /\ DistinctSubjects' => Rests' BY RestsStay
<1>3. VerdictsMatchQuestions' BY MatchesStay
<1>4. /\ phase' = "score" => verdicts' = <<>>
      /\ phase' = "adjudicate" => Answered'
      /\ phase' \in {"score", "adjudicate"} => emitted' = {}
  <2>1. CASE UNCHANGED <<phase, verdicts, evidence, banded, emitted>>
    BY <2>1 DEF EvidenceKept, Answered, Questions
  <2>2. ASSUME NEW i \in DOMAIN subjects, ResolveSubject(i) \/ FindCandidates(i)
        PROVE  phase = "score" /\ UNCHANGED <<phase, verdicts, emitted>>
    BY <2>2 DEF ResolveSubject, FindCandidates, emission
  <2>3. CASE EndWave
    <3>1. phase = "score" /\ verdicts' = verdicts /\ emitted' = emitted BY <2>3 DEF EndWave, emission
    <3>2. verdicts = <<>> /\ emitted = {} BY <3>1 DEF EvidenceKept
    <3> QED BY <3>1, <3>2 DEF Answered
  <2>4. CASE Adjudicate
    <3>1. phase = "adjudicate" /\ phase' = phase /\ emitted' = emitted
      BY <2>4 DEF Adjudicate, emission
    <3>2. Answered' BY <2>4, AnsweredStays
    <3> QED BY <3>1, <3>2 DEF EvidenceKept
  <2>5. CASE PairVerdicts BY <2>5 DEF PairVerdicts
  <2>6. CASE Recheck BY <2>6 DEF Recheck, Skip
  <2>7. CASE PassStep
    <3>1. CASE \E i \in DOMAIN subjects : ResolveSubject(i) \/ FindCandidates(i)
      BY <2>2, <3>1 DEF EvidenceKept
    <3> QED BY <2>3, <2>4, <2>5, <2>6, <2>7, <3>1
      DEF PassStep, PlanMerge, AppendMerge, RetryResolved, Raise, Finish
  <2>8. ASSUME NEW x \in Entities, NEW y \in Entities, OutsideMerge(x, y)
        PROVE  UNCHANGED <<phase, verdicts, evidence, banded, emitted>>
    BY <2>8 DEF OutsideMerge, decided, emission
  <2> QED BY <2>1, <2>7, <2>8 DEF Next, Project, Rescore, vars, decided, emission
<1> QED BY <1>1, <1>2, <1>3, <1>4 DEF EvidenceKept, Rests

LEMMA PassInvariant == Spec => []PassInv
<1>1. Init => PassInv
  BY WorldStarts, PassStarts, EvidenceStarts, UndisturbedStarts DEF PassInv
<1>2. PassInv /\ [Next]_vars => PassInv'
  BY WorldSteps, DecisionsStay, MergingStays, EvidenceStays, UndisturbedStays DEF PassInv
<1> QED BY <1>1, <1>2, PTL DEF Spec

(* Whatever a pass absorbs for a subject scored High against that subject, or
   the model said `same` of that very pair, however the questions were batched,
   whichever batches failed and whatever the others do meanwhile
   (policy.py:264-277, resolve_many.py:106-120). *)
THEOREM AnswersMeetTheirQuestions == Spec => []VerdictsMatchQuestions
<1>1. PassInv => VerdictsMatchQuestions BY DEF PassInv, EvidenceKept
<1> QED BY <1>1, PassInvariant, PTL

(* A pass nobody disturbs never raises, however its merges overlap and however
   late they are projected (resolve_many.py:42-45). *)
THEOREM UndisturbedNeverFails == Spec => []AloneNeverFails
<1>1. PassInv => AloneNeverFails BY DEF PassInv, WorldInv, Undisturbed, AloneNeverFails
<1> QED BY <1>1, PassInvariant, PTL
=============================================================================
