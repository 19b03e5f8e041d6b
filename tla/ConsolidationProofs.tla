------------------------ MODULE ConsolidationProofs ------------------------
(***************************************************************************)
(* Proofs about Consolidation, for every set of entities, claims, callers, *)
(* extractions and merge requests, and every bound.                        *)
(*                                                                         *)
(* The log: a merge is appended only over entities that no merge in effect *)
(* absorbed, an undo only of a merge in effect, because the version a call *)
(* loaded is compared with the stream's.  Hence the alias of an entity is  *)
(* what the last event about it says.                                      *)
(*                                                                         *)
(* The graph: a store call about an alias is made at the beginning of its  *)
(* handler, where nothing is refused; so an alias row can differ from the  *)
(* log's only while an event about it is being handled or still to come.   *)
(*                                                                         *)
(* The fold: what an event means to a graph is stated row by row (Meant).  *)
(* Between two events the graph is the fold of the log so far; while one   *)
(* is being handled every row lies between the fold before and after it    *)
(* (Made), so that the last call of the handler leaves the fold after it.  *)
(*                                                                         *)
(* Undo: when calls do not overlap, a merge is planned on the fold it is   *)
(* made on (Orderly).  Then an undo gives back the graph its merge found,  *)
(* and merges undone last first leave every edge between canonicals.       *)
(***************************************************************************)
EXTENDS Consolidation, Iteration, FiniteSetTheorems, TLAPS

-----------------------------------------------------------------------------
(* The log, as a value *)

(* Merges not yet undone among the first n events of a log. *)
EffectiveIn(es, n) ==
  {i \in 1..n : /\ es[i].type = "merged"
                /\ ~ \E j \in 1..n : es[j].type = "undone" /\ es[j].merge = i}

AbsorbedIn(es, n, x) == \E i \in EffectiveIn(es, n) : x \in es[i].merged

AliasAt(es, n, x) ==
  IF AbsorbedIn(es, n, x)
  THEN es[CHOOSE i \in EffectiveIn(es, n) : x \in es[i].merged].canonical
  ELSE NotAlias

VersionAt(es, n) == Cardinality({i \in 1..n : es[i].type \in {"merged", "undone"}})

(* An event about the alias of x, and what it says. *)
Binds(e, x) ==
  \/ e.type = "merged" /\ x \in e.merged
  \/ e.type = "undone" /\ x \in e.unmerged

BoundTo(e) == IF e.type = "merged" THEN e.canonical ELSE NotAlias

(* What the aggregate's guards say of an event appended after the first n. *)
MergeFits(es, n, e) ==
  \A x \in e.merged \union {e.canonical} : ~ AbsorbedIn(es, n, x)

UndoFits(es, n, e) ==
  /\ e.merge \in EffectiveIn(es, n)
  /\ e.unmerged = es[e.merge].merged

EventFits(es, n, e) ==
  /\ e.type = "merged" => MergeFits(es, n, e)
  /\ e.type = "undone" => UndoFits(es, n, e)

RedirectionsFit(rs) ==
  \A d \in rs : /\ d.before.source # d.before.target
                /\ d.after # NoEdge => d.after.source # d.after.target

LogFits(es) ==
  /\ es \in Seq(Event)
  /\ \A n \in 1..Len(es) : EventFits(es, n - 1, es[n])
  /\ \A n \in 1..Len(es) :
       /\ es[n].type \in {"merged", "undone"} => RedirectionsFit(es[n].redirections)
       /\ es[n].type = "merged" => es[n].merged # {} /\ es[n].canonical \notin es[n].merged

LEMMA LogIsTheLog ==
  /\ \A n : EffectiveMerges(n) = EffectiveIn(log, n)
  /\ \A x : AliasOf(x) = AliasAt(log, Len(log), x)
  /\ Version = VersionAt(log, Len(log))
BY DEF EffectiveMerges, EffectiveIn, AliasOf, AliasAt, AbsorbedIn, Version, VersionAt,
       IsConsolidation

LEMMA EventTypes ==
  /\ \A e \in Event : e.type \in {"extracted", "merged", "undone"}
  /\ \A e \in Event : e.type = "extracted" => e \in ExtractedEvent
  /\ \A e \in Event : e.type = "merged" => e \in MergedEvent
  /\ \A e \in Event : e.type = "undone" => e \in UndoneEvent
BY DEF Event, ExtractedEvent, MergedEvent, UndoneEvent

(* A merge in effect after n events was in effect since it was made. *)
LEMMA EffectiveBefore ==
  ASSUME NEW es, NEW n \in Nat, NEW m \in Nat, m <= n, NEW i \in EffectiveIn(es, n), i <= m
  PROVE  i \in EffectiveIn(es, m)
BY DEF EffectiveIn

(* No entity is absorbed twice. *)
LEMMA OneAbsorber ==
  ASSUME NEW es, LogFits(es), NEW n \in 0..Len(es),
         NEW i \in EffectiveIn(es, n), NEW j \in EffectiveIn(es, n), NEW x,
         x \in es[i].merged, x \in es[j].merged
  PROVE  i = j
<1>0. /\ Len(es) \in Nat /\ n \in Nat /\ n <= Len(es) /\ i \in 1..n /\ j \in 1..n
      /\ es[i].type = "merged" /\ es[j].type = "merged"
  BY DEF EffectiveIn, LogFits
<1>1. ASSUME NEW k \in EffectiveIn(es, n), NEW l \in EffectiveIn(es, n),
             x \in es[k].merged, x \in es[l].merged, k < l
      PROVE  FALSE
  <2>1. k \in 1..n /\ l \in 1..n /\ es[l].type = "merged" BY DEF EffectiveIn
  <2>2. l - 1 \in Nat /\ l - 1 <= n /\ k <= l - 1 /\ l \in 1..Len(es)
    BY <1>0, <1>1, <2>1
  <2>3. k \in EffectiveIn(es, l - 1) BY <1>0, <2>2, EffectiveBefore
  <2>4. MergeFits(es, l - 1, es[l]) BY <2>1, <2>2 DEF LogFits, EventFits
  <2> QED BY <1>1, <2>3, <2>4 DEF MergeFits, AbsorbedIn
<1>2. ~ (i < j) /\ ~ (j < i) BY <1>1
<1> QED BY <1>0, <1>2

(* The last event about an entity says what its alias is. *)
LEMMA LastBinds ==
  ASSUME NEW es, LogFits(es), NEW n \in 0..Len(es), NEW x, NEW i \in 1..n,
         Binds(es[i], x), \A j \in (i + 1)..n : ~ Binds(es[j], x)
  PROVE  AliasAt(es, n, x) = BoundTo(es[i])
<1>0. /\ Len(es) \in Nat /\ n \in Nat /\ n <= Len(es) /\ i \in Nat /\ 1 <= i /\ i <= n
      /\ i - 1 \in Nat /\ i \in 1..Len(es)
  BY DEF LogFits
<1>1. CASE es[i].type = "merged" /\ x \in es[i].merged
  <2>1. i \in EffectiveIn(es, n)
    <3> SUFFICES ASSUME NEW j \in 1..n, es[j].type = "undone", es[j].merge = i PROVE FALSE
      BY <1>0, <1>1 DEF EffectiveIn
    <3>1. j \in 1..Len(es) /\ UndoFits(es, j - 1, es[j]) BY <1>0 DEF LogFits, EventFits
    <3>2. i \in 1..(j - 1) /\ es[j].unmerged = es[i].merged BY <3>1 DEF UndoFits, EffectiveIn
    <3>3. j \in (i + 1)..n BY <1>0, <3>2
    <3>4. Binds(es[j], x) BY <1>1, <3>2 DEF Binds
    <3> QED BY <3>3, <3>4
  <2>2. \A j \in EffectiveIn(es, n) : x \in es[j].merged => j = i BY <1>1, <2>1, OneAbsorber
  <2>3. (CHOOSE j \in EffectiveIn(es, n) : x \in es[j].merged) = i BY <1>1, <2>1, <2>2
  <2> QED BY <1>1, <2>1, <2>3 DEF AliasAt, AbsorbedIn, BoundTo
<1>2. CASE es[i].type = "undone" /\ x \in es[i].unmerged
  <2>1. UndoFits(es, i - 1, es[i]) BY <1>0, <1>2 DEF LogFits, EventFits
  <2>2. ~ AbsorbedIn(es, n, x)
    <3> SUFFICES ASSUME NEW m \in EffectiveIn(es, n), x \in es[m].merged PROVE FALSE
      BY DEF AbsorbedIn
    <3>1. m \in 1..n /\ es[m].type = "merged" BY DEF EffectiveIn
    <3>2. Binds(es[m], x) BY <3>1 DEF Binds
    <3>3. m <= i - 1 /\ i - 1 <= n /\ i - 1 \in 0..Len(es) /\ m \in Nat
      BY <1>0, <1>2, <3>1, <3>2
    <3>4. m \in EffectiveIn(es, i - 1) BY <1>0, <3>3, EffectiveBefore
    <3>5. es[i].merge \in EffectiveIn(es, i - 1) /\ x \in es[es[i].merge].merged
      BY <1>2, <2>1 DEF UndoFits
    <3>6. m = es[i].merge BY <3>3, <3>4, <3>5, OneAbsorber
    <3> QED BY <1>0, <1>2, <3>6 DEF EffectiveIn
  <2> QED BY <1>2, <2>2 DEF AliasAt, BoundTo
<1> QED BY <1>1, <1>2 DEF Binds

LEMMA NeverBound ==
  ASSUME NEW es, NEW n \in Nat, NEW x, \A j \in 1..n : ~ Binds(es[j], x)
  PROVE  AliasAt(es, n, x) = NotAlias
BY DEF AliasAt, AbsorbedIn, EffectiveIn, Binds

(* One event more. *)
LEMMA AliasStep ==
  ASSUME NEW es, LogFits(es), NEW n \in 1..Len(es), NEW x
  PROVE  AliasAt(es, n, x) = IF Binds(es[n], x) THEN BoundTo(es[n]) ELSE AliasAt(es, n - 1, x)
<1>0. /\ Len(es) \in Nat /\ n \in Nat /\ n - 1 \in Nat /\ n \in 0..Len(es) /\ n - 1 \in 0..Len(es)
      /\ n \in 1..n /\ (n + 1)..n = {} /\ 1..n = 1..(n - 1) \union {n}
  BY DEF LogFits
<1>1. CASE Binds(es[n], x) BY <1>0, <1>1, LastBinds
<1>2. CASE ~ Binds(es[n], x)
  <2> DEFINE S == {i \in 1..(n - 1) : Binds(es[i], x)}
  <2>1. CASE S = {}
    <3>1. \A j \in 1..(n - 1) : ~ Binds(es[j], x) BY <2>1
    <3>2. \A j \in 1..n : ~ Binds(es[j], x) BY <1>0, <1>2, <3>1
    <3>3. AliasAt(es, n, x) = NotAlias /\ AliasAt(es, n - 1, x) = NotAlias
      BY <1>0, <3>1, <3>2, NeverBound
    <3> QED BY <1>2, <3>3
  <2>2. CASE S # {}
    <3>1. S \in SUBSET Nat /\ \A i \in S : i <= n - 1 BY <1>0
    <3>2. PICK i \in S : \A j \in S : j <= i
      <4> HIDE DEF S
      <4> QED BY <1>0, <2>2, <3>1, GreatestNatural
    <3>3. i \in 1..(n - 1) /\ i \in 1..n /\ Binds(es[i], x) BY <1>0, <3>2
    <3>4. \A j \in (i + 1)..(n - 1) : ~ Binds(es[j], x) BY <1>0, <3>2, <3>3
    <3>5. \A j \in (i + 1)..n : ~ Binds(es[j], x) BY <1>0, <1>2, <3>3, <3>4
    <3>6. AliasAt(es, n, x) = BoundTo(es[i]) BY <1>0, <3>3, <3>5, LastBinds
    <3>7. AliasAt(es, n - 1, x) = BoundTo(es[i]) BY <1>0, <3>3, <3>4, LastBinds
    <3> QED BY <1>2, <3>6, <3>7
  <2> QED BY <2>1, <2>2
<1> QED BY <1>1, <1>2

(* Appending an event that fits. *)
LEMMA AppendKeeps ==
  ASSUME NEW es \in Seq(Event), NEW e \in Event
  PROVE  /\ Append(es, e) \in Seq(Event) /\ Len(Append(es, e)) = Len(es) + 1
         /\ Append(es, e)[Len(es) + 1] = e
         /\ \A n \in 1..Len(es) : Append(es, e)[n] = es[n]
         /\ \A n \in 0..Len(es) : EffectiveIn(Append(es, e), n) = EffectiveIn(es, n)
         /\ \A n \in 0..Len(es) : \A x :
              AbsorbedIn(Append(es, e), n, x) <=> AbsorbedIn(es, n, x)
         /\ \A n \in 0..Len(es) : \A x :
              AliasAt(Append(es, e), n, x) = AliasAt(es, n, x)
<1> DEFINE fs == Append(es, e)
<1>1. /\ fs \in Seq(Event) /\ Len(fs) = Len(es) + 1 /\ fs[Len(es) + 1] = e
      /\ \A n \in 1..Len(es) : fs[n] = es[n]
  OBVIOUS
<1> HIDE DEF fs
<1>2. Len(es) \in Nat OBVIOUS
<1>3. ASSUME NEW n \in 0..Len(es) PROVE EffectiveIn(fs, n) = EffectiveIn(es, n)
  <2>1. \A i \in 1..n : fs[i] = es[i] BY <1>1, <1>2
  <2> QED BY <2>1 DEF EffectiveIn
<1>4. ASSUME NEW n \in 0..Len(es), NEW i \in EffectiveIn(es, n) PROVE fs[i] = es[i]
  <2>1. i \in 1..Len(es) BY <1>2 DEF EffectiveIn
  <2> QED BY <1>1, <2>1
<1>5. ASSUME NEW n \in 0..Len(es), NEW x
      PROVE  /\ AbsorbedIn(fs, n, x) <=> AbsorbedIn(es, n, x)
             /\ AliasAt(fs, n, x) = AliasAt(es, n, x)
  <2>1. AbsorbedIn(fs, n, x) <=> AbsorbedIn(es, n, x) BY <1>3, <1>4 DEF AbsorbedIn
  <2>2. CASE ~ AbsorbedIn(es, n, x) BY <2>1, <2>2 DEF AliasAt
  <2>3. CASE AbsorbedIn(es, n, x)
    <3> DEFINE i == CHOOSE j \in EffectiveIn(es, n) : x \in es[j].merged
    <3>1. i \in EffectiveIn(es, n) BY <2>3 DEF AbsorbedIn
    <3>2. (CHOOSE j \in EffectiveIn(fs, n) : x \in fs[j].merged) = i
      <4>1. \A j : j \in EffectiveIn(fs, n) /\ x \in fs[j].merged <=>
                     j \in EffectiveIn(es, n) /\ x \in es[j].merged BY <1>3, <1>4
      <4> QED BY <4>1, Zenon
    <3>3. AliasAt(es, n, x) = es[i].canonical BY <2>3 DEF AliasAt
    <3>4. AliasAt(fs, n, x) = fs[i].canonical BY <2>1, <2>3, <3>2 DEF AliasAt
    <3> HIDE DEF i
    <3>5. fs[i] = es[i] BY <1>4, <3>1
    <3> QED BY <2>1, <3>3, <3>4, <3>5
  <2> QED BY <2>1, <2>2, <2>3
<1> QED BY <1>1, <1>3, <1>5 DEF fs

-----------------------------------------------------------------------------
(* The consolidation stream's version *)

LEMMA VersionCounts ==
  ASSUME NEW es, NEW n \in Nat
  PROVE  /\ VersionAt(es, n) \in Nat
         /\ VersionAt(es, n + 1) = IF es[n + 1].type \in {"merged", "undone"}
                                   THEN VersionAt(es, n) + 1 ELSE VersionAt(es, n)
<1> DEFINE V(m) == {i \in 1..m : es[i].type \in {"merged", "undone"}}
<1>1. IsFiniteSet(1..n) BY FS_Interval
<1>2. IsFiniteSet(V(n)) /\ Cardinality(V(n)) \in Nat
  BY <1>1, FS_Subset, FS_CardinalityType
<1>3. 1..(n + 1) = 1..n \union {n + 1} /\ n + 1 \notin 1..n OBVIOUS
<1>4. CASE es[n + 1].type \in {"merged", "undone"}
  <2>1. V(n + 1) = V(n) \union {n + 1} /\ n + 1 \notin V(n) BY <1>3, <1>4
  <2> HIDE DEF V
  <2>2. Cardinality(V(n + 1)) = Cardinality(V(n)) + 1 BY <1>2, <2>1, FS_AddElement
  <2> QED BY <1>2, <1>4, <2>2 DEF V, VersionAt
<1>5. CASE es[n + 1].type \notin {"merged", "undone"}
  <2>1. V(n + 1) = V(n) BY <1>3, <1>5
  <2> QED BY <1>2, <1>5, <2>1 DEF VersionAt
<1> QED BY <1>4, <1>5

LEMMA SameVersion ==
  ASSUME NEW es \in Seq(Event), NEW e \in Event
  PROVE  VersionAt(Append(es, e), Len(es)) = VersionAt(es, Len(es))
<1>1. \A n \in 1..Len(es) : Append(es, e)[n] = es[n] BY AppendKeeps
<1> QED BY <1>1, Zenon DEF VersionAt

-----------------------------------------------------------------------------
(* What a service call knows *)

(* Whatever else happened, the stream a call loaded had this version, and what
   it checked still holds if the stream has not moved on. *)
CallFits(es, c) ==
  /\ c \in CallerState
  /\ c.phase \in {"edges", "planned"} => c.undo = 0
  /\ c.undo = 0 /\ c.phase # "idle" =>
       /\ c.canonical \in Entities /\ c.merged # {} /\ c.canonical \notin c.merged
       /\ RedirectionsFit(c.plan)
  /\ c.undo = 0 /\ c.phase \in {"planned", "loaded"} => c.before \in Row /\ c.after \in Row
  /\ c.phase = "loaded" =>
       /\ c.version <= VersionAt(es, Len(es))
       /\ c.undo # 0 => c.undo \in 1..Len(es) /\ es[c.undo].type = "merged"
  /\ c.phase = "loaded" /\ c.version = VersionAt(es, Len(es)) =>
       /\ c.undo = 0 =>
            \A x \in c.merged \union {c.canonical} : ~ AbsorbedIn(es, Len(es), x)
       /\ c.undo # 0 => c.undo \in EffectiveIn(es, Len(es))

LEMMA IdleFits == ASSUME NEW es PROVE CallFits(es, Idle)
BY DEF CallFits, Idle, CallerState, Phases

(* An event more leaves what the calls know true. *)
LEMMA CallKeeps ==
  ASSUME NEW es \in Seq(Event), NEW e \in Event, NEW c, CallFits(es, c)
  PROVE  CallFits(Append(es, e), c)
<1> DEFINE fs == Append(es, e)
           l == Len(es)
<1>1. /\ fs \in Seq(Event) /\ Len(fs) = l + 1 /\ fs[l + 1] = e /\ l \in Nat
      /\ \A n \in 1..l : fs[n] = es[n]
      /\ \A n \in 0..l : EffectiveIn(fs, n) = EffectiveIn(es, n)
  BY AppendKeeps
<1>2. /\ VersionAt(es, l) \in Nat
      /\ VersionAt(fs, l + 1) = IF e.type \in {"merged", "undone"}
                                THEN VersionAt(es, l) + 1 ELSE VersionAt(es, l)
  <2>1. VersionAt(fs, l) = VersionAt(es, l) BY SameVersion
  <2> HIDE DEF fs
  <2> QED BY <1>1, <2>1, VersionCounts
<1>3. c.version \in Nat BY DEF CallFits, CallerState
<1>4. \A n \in 1..l : n \in 1..(l + 1) BY <1>1
<1> HIDE DEF fs, l
<1>5. CASE e.type \in {"merged", "undone"}
  <2>1. c.phase = "loaded" => c.version <= VersionAt(fs, l + 1) /\ c.version # VersionAt(fs, l + 1)
    BY <1>2, <1>3, <1>5 DEF CallFits, l
  <2>2. c.phase = "loaded" /\ c.undo # 0 =>
          c.undo \in 1..(l + 1) /\ fs[c.undo].type = "merged"
    BY <1>1, <1>4 DEF CallFits, l
  <2>3. CallFits(fs, c) BY <1>1, <2>1, <2>2 DEF CallFits
  <2> QED BY <2>3 DEF fs
<1>6. CASE e.type \notin {"merged", "undone"}
  <2>1. EffectiveIn(fs, l + 1) = EffectiveIn(es, l)
    <3>1. EffectiveIn(fs, l) = EffectiveIn(es, l) BY <1>1
    <3>2. 1..(l + 1) = 1..l \union {l + 1} BY <1>1
    <3>3. fs[l + 1].type # "merged" /\ fs[l + 1].type # "undone" BY <1>1, <1>6
    <3>4. EffectiveIn(fs, l + 1) = EffectiveIn(fs, l) BY <3>2, <3>3 DEF EffectiveIn
    <3> QED BY <3>1, <3>4
  <2>2. \A i \in EffectiveIn(es, l) : fs[i] = es[i] BY <1>1 DEF EffectiveIn
  <2>3. \A x : AbsorbedIn(fs, l + 1, x) <=> AbsorbedIn(es, l, x)
    BY <2>1, <2>2 DEF AbsorbedIn
  <2>4. VersionAt(fs, l + 1) = VersionAt(es, l) BY <1>2, <1>6
  <2>5. c.phase = "loaded" /\ c.undo # 0 =>
          c.undo \in 1..(l + 1) /\ fs[c.undo].type = "merged"
    BY <1>1, <1>4 DEF CallFits, l
  <2>6. CallFits(fs, c) BY <1>1, <2>1, <2>3, <2>4, <2>5 DEF CallFits, l
  <2> QED BY <2>6 DEF fs
<1> QED BY <1>5, <1>6

-----------------------------------------------------------------------------
(* What calls append *)

LEMMA LogGrows ==
  ASSUME NEW es, LogFits(es), NEW e \in Event, EventFits(es, Len(es), e),
         e.type \in {"merged", "undone"} => RedirectionsFit(e.redirections),
         e.type = "merged" => e.merged # {} /\ e.canonical \notin e.merged
  PROVE  LogFits(Append(es, e))
<1> DEFINE fs == Append(es, e)
           l == Len(es)
<1>1. /\ fs \in Seq(Event) /\ Len(fs) = l + 1 /\ fs[l + 1] = e
      /\ \A n \in 1..l : fs[n] = es[n]
      /\ \A n \in 0..l : EffectiveIn(fs, n) = EffectiveIn(es, n)
      /\ \A n \in 0..l : \A x : AbsorbedIn(fs, n, x) <=> AbsorbedIn(es, n, x)
  BY AppendKeeps DEF LogFits
<1>2. l \in Nat BY DEF LogFits
<1> HIDE DEF fs
<1>3. ASSUME NEW n \in 0..l, NEW f, EventFits(es, n, f) PROVE EventFits(fs, n, f)
  <2>1. f.type = "merged" => MergeFits(fs, n, f) BY <1>1, <1>3 DEF EventFits, MergeFits
  <2>2. f.type = "undone" => UndoFits(fs, n, f)
    <3> SUFFICES ASSUME f.type = "undone" PROVE UndoFits(fs, n, f) OBVIOUS
    <3>1. UndoFits(es, n, f) BY <1>3 DEF EventFits
    <3>2. f.merge \in 1..l /\ f.merge \in EffectiveIn(fs, n)
      BY <1>1, <1>2, <3>1 DEF UndoFits, EffectiveIn
    <3>3. fs[f.merge] = es[f.merge] BY <1>1, <3>2
    <3> QED BY <3>1, <3>2, <3>3 DEF UndoFits
  <2> QED BY <2>1, <2>2 DEF EventFits
<1>4. ASSUME NEW n \in 1..(l + 1)
      PROVE  /\ EventFits(fs, n - 1, fs[n])
             /\ fs[n].type \in {"merged", "undone"} => RedirectionsFit(fs[n].redirections)
             /\ fs[n].type = "merged" => fs[n].merged # {} /\ fs[n].canonical \notin fs[n].merged
  <2>1. CASE n = l + 1
    <3>1. n - 1 = l /\ l \in 0..l /\ fs[n] = e BY <1>1, <1>2, <2>1
    <3>2. EventFits(fs, l, e) BY <1>3, <3>1
    <3> QED BY <3>1, <3>2
  <2>2. CASE n # l + 1
    <3>1. n \in 1..l /\ n - 1 \in 0..l BY <1>2, <2>2
    <3>2. EventFits(es, n - 1, es[n]) /\ fs[n] = es[n] BY <1>1, <3>1 DEF LogFits
    <3>3. EventFits(fs, n - 1, fs[n]) BY <1>3, <3>1, <3>2
    <3> QED BY <3>1, <3>2, <3>3 DEF LogFits
  <2> QED BY <2>1, <2>2
<1>5. LogFits(fs) BY <1>1, <1>4 DEF LogFits
<1> QED BY <1>5 DEF fs

LEMMA EventOfFits ==
  ASSUME LogFits(log), NEW c, CallFits(log, c), c.phase = "loaded",
         c.version = VersionAt(log, Len(log))
  PROVE  /\ EventOf(c) \in Event /\ EventFits(log, Len(log), EventOf(c))
         /\ EventOf(c).type \in {"merged", "undone"}
         /\ RedirectionsFit(EventOf(c).redirections)
         /\ EventOf(c).type = "merged" =>
              EventOf(c).merged # {} /\ EventOf(c).canonical \notin EventOf(c).merged
<1>1. CASE c.undo = 0
  <2> DEFINE e == [type |-> "merged", canonical |-> c.canonical, merged |-> c.merged,
                   redirections |-> c.plan, before |-> c.before, after |-> c.after]
  <2>1. EventOf(c) = e BY <1>1 DEF EventOf
  <2>2. /\ c.canonical \in Entities /\ c.merged \in SUBSET Entities
        /\ c.plan \in SUBSET Redirection /\ c.before \in Row /\ c.after \in Row
    BY <1>1 DEF CallFits, CallerState
  <2>3. e \in MergedEvent BY <2>2 DEF MergedEvent
  <2>4. /\ e.type = "merged" /\ e.merged = c.merged /\ e.canonical = c.canonical
        /\ e.redirections = c.plan
    OBVIOUS
  <2> HIDE DEF e
  <2>5. MergeFits(log, Len(log), e) BY <1>1, <2>4 DEF MergeFits, CallFits
  <2>6. RedirectionsFit(c.plan) /\ c.merged # {} /\ c.canonical \notin c.merged
    BY <1>1 DEF CallFits
  <2> QED BY <2>1, <2>3, <2>4, <2>5, <2>6 DEF EventFits, Event
<1>2. CASE c.undo # 0
  <2>1. PICK m : m = log[c.undo] OBVIOUS
  <2> DEFINE e == [type |-> "undone", merge |-> c.undo, canonical |-> m.canonical,
                   unmerged |-> m.merged, redirections |-> m.redirections,
                   before |-> m.before]
  <2>2. EventOf(c) = e BY <1>2, <2>1 DEF EventOf
  <2>3. /\ c.undo \in Nat /\ c.undo \in 1..Len(log) /\ m.type = "merged"
        /\ c.undo \in EffectiveIn(log, Len(log))
    BY <1>2, <2>1 DEF CallFits, CallerState
  <2>4. m \in MergedEvent BY <2>1, <2>3, EventTypes DEF LogFits
  <2>5. e \in UndoneEvent BY <2>3, <2>4 DEF UndoneEvent, MergedEvent
  <2>6. /\ e.type = "undone" /\ e.merge = c.undo /\ e.unmerged = m.merged
        /\ e.redirections = m.redirections
    OBVIOUS
  <2> HIDE DEF e
  <2>7. UndoFits(log, Len(log), e) BY <2>1, <2>3, <2>6 DEF UndoFits
  <2>8. RedirectionsFit(m.redirections) BY <2>1, <2>3 DEF LogFits
  <2> QED BY <2>2, <2>5, <2>6, <2>7, <2>8 DEF EventFits, Event
<1> QED BY <1>1, <1>2

-----------------------------------------------------------------------------
(* The graph *)

GraphFits(g) == g \in Graph /\ NoDanglingIn(g) /\ NoSelfLoopIn(g)

LEMMA GraphParts ==
  ASSUME NEW g \in Graph
  PROVE  /\ g.rows \in [Entities -> SUBSET Keys]
         /\ g.rels \in [Claims -> Edge \union {NoEdge}]
         /\ g.aliases \in [Entities -> Entities \union {NotAlias}]
         /\ g = [rows |-> g.rows, rels |-> g.rels, aliases |-> g.aliases]
<1>1. PICK r \in [Entities -> SUBSET Keys], l \in [Claims -> Edge \union {NoEdge}],
           a \in [Entities -> Entities \union {NotAlias}] :
        g = [rows |-> r, rels |-> l, aliases |-> a]
  BY DEF Graph
<1> QED BY <1>1

LEMMA GraphMade ==
  ASSUME NEW r \in [Entities -> SUBSET Keys], NEW l \in [Claims -> Edge \union {NoEdge}],
         NEW a \in [Entities -> Entities \union {NotAlias}]
  PROVE  [rows |-> r, rels |-> l, aliases |-> a] \in Graph
BY DEF Graph

LEMMA Updated ==
  ASSUME NEW g \in Graph, NEW n
  PROVE  /\ [g EXCEPT !.rows = n] = [rows |-> n, rels |-> g.rels, aliases |-> g.aliases]
         /\ [g EXCEPT !.rels = n] = [rows |-> g.rows, rels |-> n, aliases |-> g.aliases]
         /\ [g EXCEPT !.aliases = n] = [rows |-> g.rows, rels |-> g.rels, aliases |-> n]
<1>1. PICK r, l, a : g = [rows |-> r, rels |-> l, aliases |-> a] BY GraphParts
<1>2. /\ [[rows |-> r, rels |-> l, aliases |-> a] EXCEPT !.rows = n]
           = [rows |-> n, rels |-> l, aliases |-> a]
      /\ [[rows |-> r, rels |-> l, aliases |-> a] EXCEPT !.rels = n]
           = [rows |-> r, rels |-> n, aliases |-> a]
      /\ [[rows |-> r, rels |-> l, aliases |-> a] EXCEPT !.aliases = n]
           = [rows |-> r, rels |-> l, aliases |-> n]
  OBVIOUS
<1> QED BY <1>1, <1>2

LEMMA UpdatedAt ==
  ASSUME NEW g, NEW x, NEW n
  PROVE  /\ [g EXCEPT !.rows[x] = n] = [g EXCEPT !.rows = [g.rows EXCEPT ![x] = n]]
         /\ [g EXCEPT !.rels[x] = n] = [g EXCEPT !.rels = [g.rels EXCEPT ![x] = n]]
         /\ [g EXCEPT !.aliases[x] = n] = [g EXCEPT !.aliases = [g.aliases EXCEPT ![x] = n]]
OBVIOUS

(* A walk along the alias rows stays among the entities. *)
LEMMA WalkSteps ==
  ASSUME NEW g \in Graph, NEW x \in Entities
  PROVE  /\ Walk(g, x) \in [Nat -> Entities] /\ Walk(g, x)[0] = x
         /\ \A n \in Nat : Walk(g, x)[n + 1] = Hop(g, Walk(g, x)[n])
<1> DEFINE Steps(w) == w = [n \in Nat |-> IF n = 0 THEN x ELSE Hop(g, w[n - 1])]
           hop == [n \in Nat |-> [y \in Entities |-> Hop(g, y)]]
<1>1. \A y \in Entities : Hop(g, y) \in Entities BY GraphParts DEF Hop
<1>2. hop \in [Nat -> [Entities -> Entities]] BY <1>1
<1>3. PICK f : Iterating(f, Entities, x, hop)
  <2> HIDE DEF hop
  <2> QED BY <1>2, Iterates
<1>4. f \in [Nat -> Entities] /\ f[0] = x /\ \A n \in Nat : f[n + 1] = Hop(g, f[n])
  BY <1>3 DEF Iterating
<1>5. Steps(f)
  <2>1. ASSUME NEW n \in Nat, n # 0 PROVE f[n] = Hop(g, f[n - 1])
    <3>1. n - 1 \in Nat /\ (n - 1) + 1 = n BY <2>1
    <3> QED BY <1>4, <3>1
  <2>2. f = [n \in Nat |-> f[n]] BY <1>4
  <2> QED BY <1>4, <2>1, <2>2
<1>6. Walk(g, x) = CHOOSE w : Steps(w) BY Zenon DEF Walk
<1>7. PICK w : w = Walk(g, x) OBVIOUS
<1>8. Steps(w)
  <2> HIDE DEF Steps
  <2> QED BY <1>5, <1>6, <1>7
<1>9. w[0] = x BY <1>8
<1>10. \A n \in Nat : w[n + 1] = Hop(g, w[n])
  <2> SUFFICES ASSUME NEW n \in Nat PROVE w[n + 1] = Hop(g, w[n]) OBVIOUS
  <2>1. n + 1 \in Nat /\ n + 1 # 0 /\ (n + 1) - 1 = n OBVIOUS
  <2> QED BY <1>8, <2>1
<1>11. \A n \in Nat : w[n] \in Entities
  <2> DEFINE P == {n \in Nat : w[n] \in Entities}
  <2>1. P \in SUBSET Nat /\ 0 \in P BY <1>9
  <2>2. \A n \in P : n + 1 \in P BY <1>1, <1>10
  <2>3. P = Nat
    <3> HIDE DEF P
    <3> QED BY <2>1, <2>2, Inductive
  <2> QED BY <2>3
<1>12. w \in [Nat -> Entities]
  <2> DEFINE h == [n \in Nat |-> IF n = 0 THEN x ELSE Hop(g, w[n - 1])]
  <2>1. h = [n \in Nat |-> h[n]] OBVIOUS
  <2>2. w = h BY <1>8
  <2> HIDE DEF h
  <2> QED BY <1>11, <2>1, <2>2
<1> QED BY <1>7, <1>9, <1>10, <1>12

LEMMA ResolveType ==
  ASSUME NEW g \in Graph, NEW x \in Entities
  PROVE  Resolve(g, x) \in Entities
<1>1. Cardinality({y \in Entities : g.aliases[y] # NotAlias}) \in Nat
  BY EntitiesAssumption, FS_Subset, FS_CardinalityType
<1> QED BY <1>1, WalkSteps DEF Resolve

-----------------------------------------------------------------------------
(* The store calls *)

IsBinding(k) == k.call \in {"alias", "unalias"}

Target(k) == IF k.call = "alias" THEN k.canonical ELSE NotAlias

(* No event makes a batch with an edge from an entity to itself. *)
LegalCall == {k \in Call : k.call = "edges" =>
                             \A u \in k.batch : u.edge.source # u.edge.target}

PlainCall == {k \in LegalCall : ~ IsBinding(k)}

LEMMA CallTypes ==
  /\ \A k \in Call : k.call \in {"rows", "retract", "delete", "resolve", "edges",
                                  "alias", "unalias", "fields"}
  /\ \A k \in Call : k.call = "rows" => k \in [call : {"rows"}, entities : SUBSET Entities]
  /\ \A k \in Call : k.call = "retract" => k \in [call : {"retract"}, entity : Entities]
  /\ \A k \in Call : k.call = "delete" => k \in [call : {"delete"}, id : Claims]
  /\ \A k \in Call : k.call = "resolve" => k \in [call : {"resolve"}, claims : SUBSET Claims]
  /\ \A k \in Call : k.call = "edges" => k \in [call : {"edges"}, batch : SUBSET EdgeUpdate]
  /\ \A k \in Call : k.call = "alias" =>
       k \in [call : {"alias"}, alias : Entities, canonical : Entities]
  /\ \A k \in Call : k.call = "unalias" => k \in [call : {"unalias"}, alias : Entities]
  /\ \A k \in Call : k.call = "fields" => k \in [call : {"fields"}, entity : Entities, row : Row]
BY DEF Call

(* What a batch makes of the edges. *)
LEMMA BatchWrites ==
  ASSUME NEW l \in [Claims -> Edge \union {NoEdge}], NEW batch \in SUBSET EdgeUpdate
  PROVE  [c \in Claims |-> IF \E u \in batch : u.id = c
                           THEN (CHOOSE u \in batch : u.id = c).edge
                           ELSE l[c]] \in [Claims -> Edge \union {NoEdge}]
<1> SUFFICES ASSUME NEW c \in Claims, NEW u \in batch, u.id = c
             PROVE  (CHOOSE v \in batch : v.id = c).edge \in Edge
  OBVIOUS
<1>1. (CHOOSE v \in batch : v.id = c) \in batch OBVIOUS
<1> QED BY <1>1 DEF EdgeUpdate

(* A call the store accepts leaves its edges between entities with rows, and
   only a binding call touches an alias row. *)
LEMMA WriteKeeps ==
  ASSUME NEW g, GraphFits(g), NEW k \in LegalCall, ~ Poisons(g, k)
  PROVE  /\ GraphFits(Write(g, k))
         /\ Write(g, k).aliases = IF IsBinding(k) THEN [g.aliases EXCEPT ![k.alias] = Target(k)]
                                  ELSE g.aliases
<1>1. /\ g \in Graph /\ g.rows \in [Entities -> SUBSET Keys]
      /\ g.rels \in [Claims -> Edge \union {NoEdge}]
      /\ g.aliases \in [Entities -> Entities \union {NotAlias}]
      /\ NoDanglingIn(g) /\ NoSelfLoopIn(g) /\ k \in Call
  BY GraphParts DEF GraphFits, LegalCall
<1>2. ASSUME NEW r \in [Entities -> SUBSET Keys], NEW h, h = [g EXCEPT !.rows = r],
             \A x \in Entities : g.rows[x] # {} => r[x] # {}
      PROVE  GraphFits(h) /\ h.aliases = g.aliases
  <2>1. h = [rows |-> r, rels |-> g.rels, aliases |-> g.aliases] BY <1>1, <1>2, Updated
  <2>2. h.rows = r /\ h.rels = g.rels /\ h.aliases = g.aliases BY <2>1
  <2>3. h \in Graph BY <1>1, <2>1, GraphMade
  <2>4. \A c \in Claims : g.rels[c] # NoEdge =>
                              g.rels[c].source \in Entities /\ g.rels[c].target \in Entities
    BY <1>1 DEF Edge
  <2>5. NoDanglingIn(h) BY <1>1, <1>2, <2>2, <2>4 DEF NoDanglingIn, HasRow
  <2>6. NoSelfLoopIn(h) BY <1>1, <2>2 DEF NoSelfLoopIn
  <2> QED BY <2>2, <2>3, <2>5, <2>6 DEF GraphFits
<1>3. ASSUME NEW l \in [Claims -> Edge \union {NoEdge}], NEW h, h = [g EXCEPT !.rels = l],
             \A c \in Claims : l[c] = NoEdge \/ l[c] = g.rels[c] \/
               /\ HasRow(g, l[c].source) /\ HasRow(g, l[c].target)
               /\ l[c].source # l[c].target
      PROVE  GraphFits(h) /\ h.aliases = g.aliases
  <2>1. h = [rows |-> g.rows, rels |-> l, aliases |-> g.aliases] BY <1>1, <1>3, Updated
  <2>2. h.rows = g.rows /\ h.rels = l /\ h.aliases = g.aliases BY <2>1
  <2>3. h \in Graph BY <1>1, <2>1, GraphMade
  <2>5. NoDanglingIn(h) BY <1>1, <1>3, <2>2 DEF NoDanglingIn, HasRow
  <2>6. NoSelfLoopIn(h) BY <1>1, <1>3, <2>2 DEF NoSelfLoopIn
  <2> QED BY <2>2, <2>3, <2>5, <2>6 DEF GraphFits
<1>4. ASSUME NEW a \in [Entities -> Entities \union {NotAlias}], NEW h, h = [g EXCEPT !.aliases = a]
      PROVE  GraphFits(h) /\ h.aliases = a
  <2>1. h = [rows |-> g.rows, rels |-> g.rels, aliases |-> a] BY <1>1, <1>4, Updated
  <2>2. h.rows = g.rows /\ h.rels = g.rels /\ h.aliases = a BY <2>1
  <2>3. h \in Graph BY <1>1, <2>1, GraphMade
  <2>5. NoDanglingIn(h) BY <1>1, <2>2 DEF NoDanglingIn, HasRow
  <2>6. NoSelfLoopIn(h) BY <1>1, <2>2 DEF NoSelfLoopIn
  <2> QED BY <2>2, <2>3, <2>5, <2>6 DEF GraphFits
<1>5. CASE k.call = "rows"
  <2> DEFINE r == [x \in Entities |-> IF x \in k.entities THEN {x} ELSE g.rows[x]]
  <2>1. Write(g, k) = UpsertExtracted(g, k.entities) /\ ~ IsBinding(k)
    BY <1>5, Zenon DEF Write, IsBinding
  <2>2. UpsertExtracted(g, k.entities) = [g EXCEPT !.rows = r] BY DEF UpsertExtracted
  <2>3. r \in [Entities -> SUBSET Keys] BY <1>1 DEF Keys
  <2>4. \A x \in Entities : g.rows[x] # {} => r[x] # {} OBVIOUS
  <2> HIDE DEF r
  <2> QED BY <1>2, <2>1, <2>2, <2>3, <2>4
<1>6. CASE k.call = "retract"
  <2>1. k.entity \in Entities /\ ~ IsBinding(k) BY <1>1, <1>6, CallTypes DEF IsBinding
  <2>2. CASE HasRow(g, k.entity)
    <3> DEFINE row == g.rows[k.entity] \union {Retracted}
               r == [g.rows EXCEPT ![k.entity] = row]
    <3>1. Write(g, k) = UpsertEntity(g, k.entity, row) BY <1>6, <2>2, Zenon DEF Write
    <3>2. UpsertEntity(g, k.entity, row) = [g EXCEPT !.rows = r] BY UpdatedAt DEF UpsertEntity
    <3>3. r \in [Entities -> SUBSET Keys] /\ \A x \in Entities : g.rows[x] # {} => r[x] # {}
      BY <1>1, <2>1 DEF Keys
    <3> HIDE DEF row, r
    <3> QED BY <1>2, <2>1, <3>1, <3>2, <3>3
  <2>3. CASE ~ HasRow(g, k.entity)
    <3>1. Write(g, k) = g BY <1>6, <2>3, Zenon DEF Write
    <3> QED BY <2>1, <3>1
  <2> QED BY <2>2, <2>3
<1>7. CASE k.call = "delete"
  <2>1. k.id \in Claims /\ ~ IsBinding(k) BY <1>1, <1>7, CallTypes DEF IsBinding
  <2> DEFINE l == [g.rels EXCEPT ![k.id] = NoEdge]
  <2>2. Write(g, k) = DeleteRelationship(g, k.id) BY <1>7, Zenon DEF Write
  <2>3. DeleteRelationship(g, k.id) = [g EXCEPT !.rels = l] BY UpdatedAt DEF DeleteRelationship
  <2>4. /\ l \in [Claims -> Edge \union {NoEdge}]
        /\ \A c \in Claims : l[c] = NoEdge \/ l[c] = g.rels[c]
    BY <1>1, <2>1
  <2> HIDE DEF l
  <2> QED BY <1>3, <2>1, <2>2, <2>3, <2>4
<1>8. CASE k.call = "resolve"
  <2>1. Write(g, k) = g BY <1>8, Zenon DEF Write
  <2> QED BY <1>8, <2>1 DEF IsBinding
<1>9. CASE k.call = "edges"
  <2> DEFINE l == [c \in Claims |-> IF \E u \in k.batch : u.id = c
                                    THEN (CHOOSE u \in k.batch : u.id = c).edge
                                    ELSE g.rels[c]]
  <2>1. k.batch \in SUBSET EdgeUpdate /\ ~ IsBinding(k) BY <1>1, <1>9, CallTypes DEF IsBinding
  <2>2. Write(g, k) = UpsertRelationships(g, k.batch) BY <1>9, Zenon DEF Write
  <2>3. UpsertRelationships(g, k.batch) = [g EXCEPT !.rels = l] BY DEF UpsertRelationships
  <2>4. l \in [Claims -> Edge \union {NoEdge}] BY <1>1, <2>1, BatchWrites
  <2>5. ASSUME NEW c \in Claims
        PROVE  l[c] = g.rels[c] \/ (/\ HasRow(g, l[c].source) /\ HasRow(g, l[c].target)
                                    /\ l[c].source # l[c].target)
    <3>1. CASE ~ \E u \in k.batch : u.id = c BY <3>1
    <3>2. CASE \E u \in k.batch : u.id = c
      <4>1. PICK u : u = CHOOSE v \in k.batch : v.id = c OBVIOUS
      <4>2. u \in k.batch BY <3>2, <4>1
      <4>3. l[c] = u.edge BY <3>2, <4>1
      <4>4. EndpointsExist(g, k.batch) BY <1>9 DEF Poisons
      <4>5. u.edge.source # u.edge.target BY <1>9, <4>2 DEF LegalCall
      <4> HIDE DEF l
      <4> QED BY <4>2, <4>3, <4>4, <4>5 DEF EndpointsExist
    <3> QED BY <3>1, <3>2
  <2> HIDE DEF l
  <2> QED BY <1>3, <2>1, <2>2, <2>3, <2>4, <2>5
<1>10. CASE k.call = "alias"
  <2> DEFINE a == [g.aliases EXCEPT ![k.alias] = k.canonical]
  <2>1. /\ k.alias \in Entities /\ k.canonical \in Entities /\ IsBinding(k)
        /\ Target(k) = k.canonical
    BY <1>1, <1>10, CallTypes DEF IsBinding, Target
  <2>2. Write(g, k) = UpsertAlias(g, k.alias, k.canonical) BY <1>10, Zenon DEF Write
  <2>3. UpsertAlias(g, k.alias, k.canonical) = [g EXCEPT !.aliases = a] BY UpdatedAt DEF UpsertAlias
  <2>4. a \in [Entities -> Entities \union {NotAlias}] BY <1>1, <2>1
  <2>5. a = [g.aliases EXCEPT ![k.alias] = Target(k)] BY <2>1
  <2> HIDE DEF a
  <2> QED BY <1>4, <2>1, <2>2, <2>3, <2>4, <2>5
<1>11. CASE k.call = "unalias"
  <2> DEFINE a == [g.aliases EXCEPT ![k.alias] = NotAlias]
  <2>1. k.alias \in Entities /\ IsBinding(k) /\ Target(k) = NotAlias
    BY <1>1, <1>11, CallTypes DEF IsBinding, Target
  <2>2. Write(g, k) = RemoveAlias(g, k.alias) BY <1>11, Zenon DEF Write
  <2>3. RemoveAlias(g, k.alias) = [g EXCEPT !.aliases = a] BY UpdatedAt DEF RemoveAlias
  <2>4. a \in [Entities -> Entities \union {NotAlias}] BY <1>1, <2>1
  <2>5. a = [g.aliases EXCEPT ![k.alias] = Target(k)] BY <2>1
  <2> HIDE DEF a
  <2> QED BY <1>4, <2>1, <2>2, <2>3, <2>4, <2>5
<1>12. CASE k.call = "fields"
  <2> DEFINE r == [g.rows EXCEPT ![k.entity] = k.row]
  <2>1. k.entity \in Entities /\ k.row \in Row /\ ~ IsBinding(k)
    BY <1>1, <1>12, CallTypes DEF IsBinding
  <2>2. Write(g, k) = UpsertEntity(g, k.entity, k.row) BY <1>12, Zenon DEF Write
  <2>3. UpsertEntity(g, k.entity, k.row) = [g EXCEPT !.rows = r] BY UpdatedAt DEF UpsertEntity
  <2>4. k.row \in SUBSET Keys /\ k.row # {} BY <2>1 DEF Row
  <2>5. r \in [Entities -> SUBSET Keys] /\ \A x \in Entities : g.rows[x] # {} => r[x] # {}
    BY <1>1, <2>4
  <2> HIDE DEF r
  <2> QED BY <1>2, <2>1, <2>2, <2>3, <2>5
<1> QED BY <1>1, <1>5, <1>6, <1>7, <1>8, <1>9, <1>10, <1>11, <1>12, CallTypes

-----------------------------------------------------------------------------
(* The calls of a handler *)

(* The calls left for an event: those about an alias come first. *)
WorkFits(e, w) ==
  \/ w \in Seq(SUBSET PlainCall)
  \/ /\ w \in Seq(SUBSET LegalCall) /\ w # <<>> /\ Tail(w) \in Seq(SUBSET PlainCall)
     /\ Head(w) # {}
     /\ \A k \in Head(w) : IsBinding(k) /\ Binds(e, k.alias) /\ Target(k) = BoundTo(e)

(* The alias of x is among the next calls. *)
Pending(w, x) == w # <<>> /\ \E k \in Head(w) : IsBinding(k) /\ k.alias = x

LEMMA OneStage ==
  ASSUME NEW P, NEW calls \in SUBSET P
  PROVE  Stage(calls) \in Seq(SUBSET P)
<1> DEFINE S == SUBSET P
<1>1. calls \in S OBVIOUS
<1> HIDE DEF S
<1>2. Stage(calls) \in Seq(S) BY <1>1 DEF Stage
<1> QED BY <1>2 DEF S

LEMMA Widened ==
  ASSUME NEW P, NEW Q, P \in SUBSET Q, NEW w \in Seq(SUBSET P)
  PROVE  w \in Seq(SUBSET Q)
<1> DEFINE S == SUBSET P
           T == SUBSET Q
<1>1. \A x \in S : x \in T OBVIOUS
<1> HIDE DEF S, T
<1>2. ASSUME NEW v \in Seq(S) PROVE v \in Seq(T) BY <1>1
<1> QED BY <1>2 DEF S, T

LEMMA Joined ==
  ASSUME NEW S, NEW a \in Seq(S), NEW b \in Seq(S), NEW c \in Seq(S)
  PROVE  a \o b \o c = a \o (b \o c) /\ a \o b \in Seq(S) /\ a \o b \o c \in Seq(S)
OBVIOUS

LEMMA CallsMade ==
  /\ \A xs \in SUBSET Entities : [call |-> "rows", entities |-> xs] \in PlainCall
  /\ \A x \in Entities : [call |-> "retract", entity |-> x] \in PlainCall
  /\ \A c \in Claims : [call |-> "delete", id |-> c] \in PlainCall
  /\ \A cs \in SUBSET Claims : [call |-> "resolve", claims |-> cs] \in PlainCall
  /\ \A us \in SUBSET EdgeUpdate :
       (\A u \in us : u.edge.source # u.edge.target) => [call |-> "edges", batch |-> us] \in PlainCall
  /\ \A x \in Entities, r \in Row : [call |-> "fields", entity |-> x, row |-> r] \in PlainCall
  /\ \A x, c \in Entities : [call |-> "alias", alias |-> x, canonical |-> c] \in LegalCall
  /\ \A x \in Entities : [call |-> "unalias", alias |-> x] \in LegalCall
<1> USE DEF PlainCall, LegalCall, IsBinding
<1>1. \A xs \in SUBSET Entities : [call |-> "rows", entities |-> xs] \in PlainCall BY DEF Call
<1>2. \A x \in Entities : [call |-> "retract", entity |-> x] \in PlainCall BY DEF Call
<1>3. \A c \in Claims : [call |-> "delete", id |-> c] \in PlainCall BY DEF Call
<1>4. \A cs \in SUBSET Claims : [call |-> "resolve", claims |-> cs] \in PlainCall BY DEF Call
<1>5. ASSUME NEW us \in SUBSET EdgeUpdate, \A u \in us : u.edge.source # u.edge.target
      PROVE  [call |-> "edges", batch |-> us] \in PlainCall
  BY <1>5 DEF Call
<1>6. \A x \in Entities, r \in Row : [call |-> "fields", entity |-> x, row |-> r] \in PlainCall
  BY DEF Call
<1>7. \A x, c \in Entities : [call |-> "alias", alias |-> x, canonical |-> c] \in LegalCall
  BY DEF Call
<1>8. \A x \in Entities : [call |-> "unalias", alias |-> x] \in LegalCall BY DEF Call
<1> HIDE DEF PlainCall, LegalCall, IsBinding
<1> QED BY <1>1, <1>2, <1>3, <1>4, <1>5, <1>6, <1>7, <1>8

(* Binding calls first, then plain ones. *)
LEMMA BindingFirst ==
  ASSUME NEW e, NEW calls \in SUBSET LegalCall, NEW rest \in Seq(SUBSET PlainCall),
         \A k \in calls : IsBinding(k) /\ Binds(e, k.alias) /\ Target(k) = BoundTo(e)
  PROVE  /\ WorkFits(e, Stage(calls) \o rest)
         /\ \A k \in calls : Pending(Stage(calls) \o rest, k.alias)
<1>1. CASE calls = {}
  <2>1. Stage(calls) \o rest = rest BY <1>1 DEF Stage
  <2> QED BY <1>1, <2>1 DEF WorkFits
<1>2. CASE calls # {}
  <2> DEFINE w == <<calls>> \o rest
  <2>1. Stage(calls) \o rest = w BY <1>2 DEF Stage
  <2>2. PlainCall \in SUBSET LegalCall BY DEF PlainCall
  <2>3. rest \in Seq(SUBSET LegalCall) BY <2>2
  <2>4. w \in Seq(SUBSET LegalCall) /\ w # <<>> /\ Head(w) = calls /\ Tail(w) = rest BY <2>3
  <2> HIDE DEF w
  <2> QED BY <1>2, <2>1, <2>4 DEF WorkFits, Pending
<1> QED BY <1>1, <1>2

LEMMA RestoredFit ==
  ASSUME NEW rs \in SUBSET Redirection, RedirectionsFit(rs)
  PROVE  Restored(rs) \in SUBSET EdgeUpdate /\ \A u \in Restored(rs) : u.edge.source # u.edge.target
<1> SUFFICES ASSUME NEW d \in rs
             PROVE  /\ [id |-> d.id, edge |-> d.before] \in EdgeUpdate
                    /\ d.before.source # d.before.target
  BY DEF Restored
<1> QED BY DEF Redirection, EdgeUpdate, RedirectionsFit

LEMMA HandlerWork ==
  ASSUME NEW e \in Event,
         e.type \in {"merged", "undone"} => RedirectionsFit(e.redirections)
  PROVE  /\ WorkFits(e, HandlerCalls(e))
         /\ \A x \in Entities : Binds(e, x) => Pending(HandlerCalls(e), x)
<1>1. CASE e.type = "extracted"
  <2>1. /\ e.entities \in SUBSET Entities /\ e.claims \in SUBSET Claims
        /\ e.retracted \in SUBSET Entities
    BY <1>1, EventTypes DEF ExtractedEvent
  <2> DEFINE r == [call |-> "rows", entities |-> e.entities]
             s == {[call |-> "retract", entity |-> x] : x \in e.retracted}
             q == [call |-> "resolve", claims |-> e.claims]
  <2>2. r \in PlainCall /\ s \in SUBSET PlainCall /\ q \in PlainCall BY <2>1, CallsMade
  <2>3. HandlerCalls(e) = Stage({r}) \o Stage(s) \o Stage({q})
    BY <1>1, Zenon DEF HandlerCalls, ExtractionCalls
  <2> HIDE DEF r, s, q
  <2>4. /\ Stage({r}) \in Seq(SUBSET PlainCall) /\ Stage(s) \in Seq(SUBSET PlainCall)
        /\ Stage({q}) \in Seq(SUBSET PlainCall)
    BY <2>2, OneStage
  <2>5. HandlerCalls(e) \in Seq(SUBSET PlainCall) BY <2>3, <2>4, Joined
  <2>6. \A x : ~ Binds(e, x) BY <1>1 DEF Binds
  <2> QED BY <2>5, <2>6 DEF WorkFits
<1>2. CASE e.type = "merged"
  <2>1. /\ e.canonical \in Entities /\ e.merged \in SUBSET Entities
        /\ e.redirections \in SUBSET Redirection /\ e.after \in Row
    BY <1>2, EventTypes DEF MergedEvent
  <2> DEFINE as == {[call |-> "alias", alias |-> x, canonical |-> e.canonical] : x \in e.merged}
             Moves(d) == IF d.after = NoEdge
                         THEN [call |-> "delete", id |-> d.id]
                         ELSE [call |-> "edges", batch |-> {[id |-> d.id, edge |-> d.after]}]
             ms == {Moves(d) : d \in e.redirections}
             f == [call |-> "fields", entity |-> e.canonical, row |-> e.after]
  <2>2. as \in SUBSET LegalCall /\ f \in PlainCall BY <2>1, CallsMade
  <2>3. ASSUME NEW d \in e.redirections PROVE Moves(d) \in PlainCall
    <3>1. d.id \in Claims /\ d.after \in Edge \union {NoEdge} BY <2>1 DEF Redirection
    <3>2. CASE d.after = NoEdge
      <4>1. Moves(d) = [call |-> "delete", id |-> d.id] BY <3>2
      <4> QED BY <3>1, <4>1, CallsMade
    <3>3. CASE d.after # NoEdge
      <4> DEFINE us == {[id |-> d.id, edge |-> d.after]}
      <4>1. us \in SUBSET EdgeUpdate BY <3>1, <3>3 DEF EdgeUpdate
      <4>2. d.after.source # d.after.target BY <1>2, <3>3 DEF RedirectionsFit
      <4>3. \A u \in us : u.edge.source # u.edge.target BY <4>2
      <4>4. Moves(d) = [call |-> "edges", batch |-> us] BY <3>3
      <4> HIDE DEF us, Moves
      <4> QED BY <4>1, <4>3, <4>4, CallsMade
    <3> QED BY <3>2, <3>3
  <2>4. ms \in SUBSET PlainCall BY <2>3
  <2>5. \A k \in as : /\ IsBinding(k) /\ Binds(e, k.alias) /\ Target(k) = BoundTo(e)
    BY <1>2 DEF IsBinding, Binds, Target, BoundTo
  <2>6. ASSUME NEW x \in e.merged PROVE \E k \in as : k.alias = x
    <3>1. PICK k : k = [call |-> "alias", alias |-> x, canonical |-> e.canonical] OBVIOUS
    <3>2. k \in as /\ k.alias = x BY <3>1
    <3> QED BY <3>2
  <2>7. HandlerCalls(e) = Stage(as) \o Stage(ms) \o Stage({f})
    BY <1>2, Zenon DEF HandlerCalls, MergeCalls
  <2> HIDE DEF as, Moves, ms, f
  <2>8. Stage(ms) \in Seq(SUBSET PlainCall) /\ Stage({f}) \in Seq(SUBSET PlainCall)
    BY <2>2, <2>4, OneStage
  <2>9. Stage(as) \in Seq(SUBSET LegalCall) BY <2>2, OneStage
  <2>10. PICK rest : rest = Stage(ms) \o Stage({f}) OBVIOUS
  <2>11. rest \in Seq(SUBSET PlainCall) BY <2>8, <2>10
  <2>12. HandlerCalls(e) = Stage(as) \o rest
    <3>1. PlainCall \in SUBSET LegalCall BY DEF PlainCall
    <3>2. Stage(ms) \in Seq(SUBSET LegalCall) /\ Stage({f}) \in Seq(SUBSET LegalCall)
      BY <2>8, <3>1, Widened
    <3>3. PICK a, b, c : a = Stage(as) /\ b = Stage(ms) /\ c = Stage({f}) OBVIOUS
    <3>4. a \in Seq(SUBSET LegalCall) /\ b \in Seq(SUBSET LegalCall) /\ c \in Seq(SUBSET LegalCall)
      BY <2>9, <3>2, <3>3
    <3>5. a \o b \o c = a \o (b \o c) BY <3>4, Joined
    <3> QED BY <2>7, <2>10, <3>3, <3>5
  <2>13. /\ WorkFits(e, Stage(as) \o rest)
         /\ \A k \in as : Pending(Stage(as) \o rest, k.alias)
    BY <2>2, <2>5, <2>11, BindingFirst
  <2>14. \A x : Binds(e, x) => x \in e.merged BY <1>2 DEF Binds
  <2> QED BY <2>6, <2>12, <2>13, <2>14
<1>3. CASE e.type = "undone"
  <2>1. /\ e.canonical \in Entities /\ e.unmerged \in SUBSET Entities
        /\ e.redirections \in SUBSET Redirection /\ e.before \in Row
    BY <1>3, EventTypes DEF UndoneEvent
  <2> DEFINE as == {[call |-> "unalias", alias |-> x] : x \in e.unmerged}
             m == [call |-> "edges", batch |-> Restored(e.redirections)]
             f == [call |-> "fields", entity |-> e.canonical, row |-> e.before]
  <2>2. as \in SUBSET LegalCall /\ f \in PlainCall BY <2>1, CallsMade
  <2>3. m \in PlainCall BY <1>3, <2>1, RestoredFit, CallsMade
  <2>5. \A k \in as : IsBinding(k) /\ Binds(e, k.alias) /\ Target(k) = BoundTo(e)
    BY <1>3 DEF IsBinding, Binds, Target, BoundTo
  <2>6. ASSUME NEW x \in e.unmerged PROVE \E k \in as : k.alias = x
    <3>1. PICK k : k = [call |-> "unalias", alias |-> x] OBVIOUS
    <3>2. k \in as /\ k.alias = x BY <3>1
    <3> QED BY <3>2
  <2>7. HandlerCalls(e) = Stage(as) \o Stage({m}) \o Stage({f})
    BY <1>3, Zenon DEF HandlerCalls, UndoCalls
  <2> HIDE DEF as, m, f
  <2>8. Stage({m}) \in Seq(SUBSET PlainCall) /\ Stage({f}) \in Seq(SUBSET PlainCall)
    BY <2>2, <2>3, OneStage
  <2>9. Stage(as) \in Seq(SUBSET LegalCall) BY <2>2, OneStage
  <2>10. PICK rest : rest = Stage({m}) \o Stage({f}) OBVIOUS
  <2>11. rest \in Seq(SUBSET PlainCall) BY <2>8, <2>10
  <2>12. HandlerCalls(e) = Stage(as) \o rest
    <3>1. PlainCall \in SUBSET LegalCall BY DEF PlainCall
    <3>2. Stage({m}) \in Seq(SUBSET LegalCall) /\ Stage({f}) \in Seq(SUBSET LegalCall)
      BY <2>8, <3>1, Widened
    <3>3. PICK a, b, c : a = Stage(as) /\ b = Stage({m}) /\ c = Stage({f}) OBVIOUS
    <3>4. a \in Seq(SUBSET LegalCall) /\ b \in Seq(SUBSET LegalCall) /\ c \in Seq(SUBSET LegalCall)
      BY <2>9, <3>2, <3>3
    <3>5. a \o b \o c = a \o (b \o c) BY <3>4, Joined
    <3> QED BY <2>7, <2>10, <3>3, <3>5
  <2>13. /\ WorkFits(e, Stage(as) \o rest)
         /\ \A k \in as : Pending(Stage(as) \o rest, k.alias)
    BY <2>2, <2>5, <2>11, BindingFirst
  <2>14. \A x : Binds(e, x) => x \in e.unmerged BY <1>3 DEF Binds
  <2> QED BY <2>6, <2>12, <2>13, <2>14
<1> QED BY <1>1, <1>2, <1>3, EventTypes

(* What the answers of plain calls lead to is plain. *)
LEMMA PlainFollowUps ==
  ASSUME NEW g \in Graph, NEW k \in PlainCall
  PROVE  FollowUps(g, k) \in Seq(SUBSET PlainCall)
<1>0. k \in Call BY DEF PlainCall, LegalCall
<1>a. ASSUME NEW ids \in SUBSET Claims PROVE Deletes(ids) \in Seq(SUBSET PlainCall)
  <2>1. {[call |-> "delete", id |-> c] : c \in ids} \in SUBSET PlainCall BY CallsMade
  <2> QED BY <2>1, OneStage DEF Deletes
<1>1. CASE k.call = "retract"
  <2>1. FollowUps(g, k) = Deletes(RelationshipsFor(g, {k.entity}))
    BY <1>1, Zenon DEF FollowUps
  <2> QED BY <1>a, <2>1 DEF RelationshipsFor
<1>2. CASE k.call = "resolve"
  <2>1. k.claims \in SUBSET Claims BY <1>0, <1>2, CallTypes
  <2>2. FollowUps(g, k) = Deletes(Collapsed(g, k.claims))
                            \o Stage({[call |-> "edges", batch |-> ResolvedBatch(g, k.claims)]})
    BY <1>2, Zenon DEF FollowUps
  <2>3. Deletes(Collapsed(g, k.claims)) \in Seq(SUBSET PlainCall)
    <3>1. Collapsed(g, k.claims) \in SUBSET Claims BY <2>1 DEF Collapsed
    <3> QED BY <1>a, <3>1
  <2>4. ASSUME NEW c \in k.claims, c \notin Collapsed(g, k.claims)
        PROVE  /\ [id |-> c, edge |-> ResolvedEdge(g, c)] \in EdgeUpdate
               /\ ResolvedEdge(g, c).source # ResolvedEdge(g, c).target
    <3>1. c[1] \in Entities /\ c[2] \in Entities BY <2>1, ClaimsAssumption
    <3>2. ResolvedEdge(g, c) \in Edge BY <3>1, ResolveType DEF ResolvedEdge, Edge
    <3>3. ~ IsSelfLoop(ResolvedEdge(g, c)) BY <2>4 DEF Collapsed
    <3> QED BY <2>1, <3>2, <3>3 DEF EdgeUpdate, IsSelfLoop
  <2>5. /\ ResolvedBatch(g, k.claims) \in SUBSET EdgeUpdate
        /\ \A u \in ResolvedBatch(g, k.claims) : u.edge.source # u.edge.target
    <3> SUFFICES ASSUME NEW u \in ResolvedBatch(g, k.claims)
                 PROVE  u \in EdgeUpdate /\ u.edge.source # u.edge.target
      OBVIOUS
    <3>1. PICK c \in k.claims : /\ c \notin Collapsed(g, k.claims)
                                /\ u = [id |-> c, edge |-> ResolvedEdge(g, c)]
      BY DEF ResolvedBatch
    <3>2. u.edge = ResolvedEdge(g, c) BY <3>1
    <3> QED BY <2>4, <3>1, <3>2
  <2>6. [call |-> "edges", batch |-> ResolvedBatch(g, k.claims)] \in PlainCall
    BY <2>5, CallsMade
  <2>7. Stage({[call |-> "edges", batch |-> ResolvedBatch(g, k.claims)]}) \in Seq(SUBSET PlainCall)
    BY <2>6, OneStage
  <2> QED BY <2>2, <2>3, <2>7
<1>3. CASE k.call \notin {"retract", "resolve"}
  <2>1. FollowUps(g, k) = <<>> BY <1>3, Zenon DEF FollowUps
  <2> QED BY <2>1
<1> QED BY <1>1, <1>2, <1>3

LEMMA RemainingWork ==
  ASSUME NEW e, NEW w, WorkFits(e, w), w # <<>>, NEW g \in Graph, NEW k \in Head(w)
  PROVE  /\ k \in LegalCall
         /\ WorkFits(e, Remaining(g, w, k))
         /\ IsBinding(k) => Binds(e, k.alias) /\ Target(k) = BoundTo(e)
         /\ ~ IsBinding(k) => \A x : ~ Pending(w, x)
         /\ \A x : Pending(w, x) => x = k.alias \/ Pending(Remaining(g, w, k), x)
<1>1. CASE w \in Seq(SUBSET PlainCall)
  <2>1. Head(w) \in SUBSET PlainCall /\ Tail(w) \in Seq(SUBSET PlainCall) BY <1>1
  <2>2. k \in PlainCall /\ ~ IsBinding(k) /\ k \in LegalCall BY <2>1 DEF PlainCall
  <2>3. \A x : ~ Pending(w, x) BY <2>1 DEF Pending, PlainCall
  <2>4. Stage(Head(w) \ {k}) \in Seq(SUBSET PlainCall) BY <2>1, OneStage
  <2>5. FollowUps(g, k) \in Seq(SUBSET PlainCall) BY <2>2, PlainFollowUps
  <2>6. Remaining(g, w, k) \in Seq(SUBSET PlainCall) BY <2>1, <2>4, <2>5 DEF Remaining
  <2> QED BY <2>2, <2>3, <2>6 DEF WorkFits
<1>2. CASE w \notin Seq(SUBSET PlainCall)
  <2>1. /\ w \in Seq(SUBSET LegalCall) /\ Tail(w) \in Seq(SUBSET PlainCall)
        /\ \A j \in Head(w) : IsBinding(j) /\ Binds(e, j.alias) /\ Target(j) = BoundTo(e)
    BY <1>2 DEF WorkFits
  <2>2. Head(w) \in SUBSET LegalCall /\ k \in LegalCall BY <2>1
  <2> DEFINE calls == Head(w) \ {k}
  <2>3. calls \in SUBSET LegalCall BY <2>2
  <2>4. FollowUps(g, k) = <<>> BY <2>1, Zenon DEF FollowUps, IsBinding
  <2>5. Stage(calls) \in Seq(SUBSET LegalCall) BY <2>3, OneStage
  <2>6. Remaining(g, w, k) = Stage(calls) \o Tail(w)
    <3>1. Remaining(g, w, k) = <<>> \o Stage(calls) \o Tail(w) BY <2>4 DEF Remaining
    <3>2. <<>> \o Stage(calls) = Stage(calls) BY <2>5
    <3> QED BY <3>1, <3>2
  <2>7. /\ WorkFits(e, Stage(calls) \o Tail(w))
        /\ \A j \in calls : Pending(Stage(calls) \o Tail(w), j.alias)
    BY <2>1, <2>3, BindingFirst
  <2>8. \A x : Pending(w, x) => x = k.alias \/ \E j \in calls : j.alias = x BY DEF Pending
  <2> HIDE DEF calls
  <2> QED BY <2>1, <2>2, <2>6, <2>7, <2>8
<1> QED BY <1>1, <1>2

-----------------------------------------------------------------------------
(* What calls plan *)

LEMMA PlanFits ==
  ASSUME NEW g, GraphFits(g), NEW canonical \in Entities, NEW merged \in SUBSET Entities
  PROVE  /\ PlanRedirections(g, canonical, merged) \in SUBSET Redirection
         /\ RedirectionsFit(PlanRedirections(g, canonical, merged))
<1> DEFINE Final(k) == Moved(g.rels[k], canonical, merged)
           relevant == RelationshipsFor(g, {canonical} \union merged)
<1>1. /\ g.rels \in [Claims -> Edge \union {NoEdge}] /\ NoSelfLoopIn(g)
  BY GraphParts DEF GraphFits
<1>2. ASSUME NEW c \in relevant
      PROVE  /\ c \in Claims /\ g.rels[c] \in Edge /\ Final(c) \in Edge
             /\ g.rels[c].source # g.rels[c].target
  <2>1. c \in Claims /\ g.rels[c] # NoEdge BY DEF RelationshipsFor
  <2>2. g.rels[c] \in Edge BY <1>1, <2>1
  <2>3. Final(c) \in Edge BY <2>2 DEF Moved, Redirect, Edge
  <2> QED BY <1>1, <2>1, <2>2, <2>3 DEF NoSelfLoopIn
<1>3. \A c : Survives(g, canonical, merged, c) => Final(c).source # Final(c).target
  BY DEF Survives, IsSelfLoop
<1>4. ASSUME NEW d \in PlanRedirections(g, canonical, merged)
      PROVE  \E c \in relevant :
               \/ d = [id |-> c, before |-> g.rels[c], after |-> NoEdge]
               \/ /\ d = [id |-> c, before |-> g.rels[c], after |-> Final(c)]
                  /\ Survives(g, canonical, merged, c)
  BY DEF PlanRedirections
<1>5. NoEdge \notin Edge BY NoEdgeAssumption
<1> HIDE DEF Final, relevant
<1>6. ASSUME NEW d \in PlanRedirections(g, canonical, merged)
      PROVE  /\ d \in Redirection /\ d.before.source # d.before.target
             /\ d.after # NoEdge => d.after.source # d.after.target
  <2>1. PICK c \in relevant :
               \/ d = [id |-> c, before |-> g.rels[c], after |-> NoEdge]
               \/ /\ d = [id |-> c, before |-> g.rels[c], after |-> Final(c)]
                  /\ Survives(g, canonical, merged, c)
    BY <1>4
  <2>2. CASE d = [id |-> c, before |-> g.rels[c], after |-> NoEdge]
    <3>1. d.before = g.rels[c] /\ d.after = NoEdge BY <2>2
    <3>2. d \in Redirection BY <1>2, <2>2 DEF Redirection
    <3> QED BY <1>2, <3>1, <3>2
  <2>3. CASE d = [id |-> c, before |-> g.rels[c], after |-> Final(c)]
             /\ Survives(g, canonical, merged, c)
    <3>1. d.before = g.rels[c] /\ d.after = Final(c) BY <2>3
    <3>2. d \in Redirection BY <1>2, <2>3 DEF Redirection
    <3> QED BY <1>2, <1>3, <2>3, <3>1, <3>2
  <2> QED BY <2>1, <2>2, <2>3
<1> QED BY <1>6 DEF RedirectionsFit

(* The canonical's resolved row is not empty. *)
LEMMA RowFits ==
  ASSUME NEW g \in Graph, NEW canonical \in Entities, NEW merged \in SUBSET Entities,
         HasRow(g, canonical)
  PROVE  g.rows[canonical] \in Row /\ PlanRow(g, canonical, merged) \in Row
<1>1. g.rows \in [Entities -> SUBSET Keys] BY GraphParts
<1>2. g.rows[canonical] \in Row BY <1>1 DEF HasRow, Row
<1>3. PlanRow(g, canonical, merged) \in SUBSET Keys BY <1>1 DEF PlanRow
<1>4. PlanRow(g, canonical, merged) # {}
  <2>1. PICK key : key \in g.rows[canonical] BY DEF HasRow
  <2>2. key \in PlanRow(g, canonical, merged) BY <2>1 DEF PlanRow
  <2> QED BY <2>2
<1> QED BY <1>2, <1>3, <1>4 DEF Row

-----------------------------------------------------------------------------
(* The inductive invariant *)

ServiceInv ==
  /\ LogFits(log)
  /\ found \in [Documents -> SUBSET Entities]
  /\ caller \in [Callers -> CallerState]
  /\ \A s \in Callers : CallFits(log, caller[s])

StoreInv ==
  /\ GraphFits(graph)
  /\ cursor \in 0..Len(log) /\ checkpoint \in 0..cursor
  /\ work # <<>> => cursor # 0
  /\ WorkFits(log[cursor], work)
  /\ restarts \in 0..MaxRestarts

(* An alias row is the log's, unless an event about it is being handled or
   still to come. *)
AliasInv ==
  \A x \in Entities :
    (\A j \in (cursor + 1)..Len(log) : ~ Binds(log[j], x)) =>
      Pending(work, x) \/ graph.aliases[x] = AliasAt(log, Len(log), x)

IInv == ServiceInv /\ StoreInv /\ AliasInv

LEMMA EmptyFits ==
  /\ GraphFits(EmptyGraph) /\ \A x \in Entities : EmptyGraph.aliases[x] = NotAlias
  /\ \A e : WorkFits(e, <<>>)
  /\ \A x : ~ Pending(<<>>, x)
<1>1. EmptyGraph \in Graph BY DEF EmptyGraph, Graph
<1>2. NoDanglingIn(EmptyGraph) /\ NoSelfLoopIn(EmptyGraph)
  BY DEF EmptyGraph, NoDanglingIn, NoSelfLoopIn
<1>3. \A x \in Entities : EmptyGraph.aliases[x] = NotAlias BY DEF EmptyGraph
<1> QED BY <1>1, <1>2, <1>3 DEF GraphFits, WorkFits, Pending

LEMMA InitFits == Init => IInv
<1> SUFFICES ASSUME Init PROVE IInv OBVIOUS
<1>0. log = <<>> /\ Len(log) = 0 BY DEF Init
<1>1. ServiceInv
  <2>1. LogFits(log) BY <1>0 DEF LogFits
  <2>2. \A s \in Callers : caller[s] = Idle BY DEF Init
  <2>3. Idle \in CallerState BY IdleFits DEF CallFits
  <2>4. caller \in [Callers -> CallerState] BY <2>3 DEF Init
  <2>5. \A s \in Callers : CallFits(log, caller[s]) BY <2>2, IdleFits
  <2> QED BY <2>1, <2>4, <2>5 DEF ServiceInv, Init
<1>2. StoreInv BY <1>0, EmptyFits, BoundsAssumption DEF StoreInv, Init
<1>3. AliasInv
  <2>1. ASSUME NEW x \in Entities PROVE graph.aliases[x] = AliasAt(log, Len(log), x)
    <3>1. \A j \in 1..0 : ~ Binds(log[j], x) OBVIOUS
    <3>2. AliasAt(log, 0, x) = NotAlias BY <3>1, NeverBound
    <3> QED BY <1>0, <3>2, EmptyFits DEF Init
  <2> QED BY <2>1 DEF AliasInv
<1> QED BY <1>1, <1>2, <1>3 DEF IInv

(* Steps that append an event. *)
LEMMA AppendFits ==
  ASSUME IInv, NEW e \in Event, log' = Append(log, e), EventFits(log, Len(log), e),
         e.type \in {"merged", "undone"} => RedirectionsFit(e.redirections),
         e.type = "merged" => e.merged # {} /\ e.canonical \notin e.merged,
         UNCHANGED <<graph, cursor, checkpoint, work, restarts>>
  PROVE  /\ LogFits(log') /\ \A c : CallFits(log, c) => CallFits(log', c)
         /\ StoreInv' /\ AliasInv'
<1>1. LogFits(log) /\ log \in Seq(Event) /\ Len(log) \in Nat BY DEF IInv, ServiceInv, LogFits
<1>2. LogFits(log') BY <1>1, LogGrows
<1>3. \A c : CallFits(log, c) => CallFits(log', c) BY <1>1, CallKeeps
<1>4. /\ Len(log') = Len(log) + 1 /\ log'[Len(log) + 1] = e
      /\ \A n \in 1..Len(log) : log'[n] = log[n]
      /\ \A x : AliasAt(log', Len(log), x) = AliasAt(log, Len(log), x)
  BY <1>1, AppendKeeps
<1>5. /\ cursor \in 0..Len(log) /\ checkpoint \in 0..cursor /\ WorkFits(log[cursor], work)
      /\ work # <<>> => cursor # 0
  BY DEF IInv, StoreInv
<1>6. StoreInv'
  <2>1. WorkFits(log'[cursor], work)
    <3>1. CASE work = <<>> BY <3>1, EmptyFits
    <3>2. CASE work # <<>>
      <4>1. cursor \in 1..Len(log) BY <1>1, <1>5, <3>2
      <4> QED BY <1>4, <1>5, <4>1
    <3> QED BY <3>1, <3>2
  <2>2. cursor \in 0..Len(log') BY <1>1, <1>4, <1>5
  <2> QED BY <1>5, <2>1, <2>2 DEF IInv, StoreInv
<1>7. AliasInv'
  <2> SUFFICES ASSUME NEW x \in Entities, \A j \in (cursor + 1)..Len(log') : ~ Binds(log'[j], x)
               PROVE  Pending(work, x) \/ graph.aliases[x] = AliasAt(log', Len(log'), x)
    BY DEF AliasInv
  <2>1. ~ Binds(e, x)
    <3>1. Len(log) + 1 \in (cursor + 1)..Len(log') BY <1>1, <1>4, <1>5
    <3> QED BY <1>4, <3>1
  <2>2. ASSUME NEW j \in (cursor + 1)..Len(log) PROVE ~ Binds(log[j], x)
    <3>1. j \in 1..Len(log) /\ j \in (cursor + 1)..Len(log') BY <1>1, <1>4, <1>5
    <3> QED BY <1>4, <3>1
  <2>3. Pending(work, x) \/ graph.aliases[x] = AliasAt(log, Len(log), x)
    BY <2>2 DEF IInv, AliasInv
  <2>4. AliasAt(log', Len(log'), x) = AliasAt(log', Len(log') - 1, x)
    <3>1. PICK es, n : es = log' /\ n = Len(log) + 1 OBVIOUS
    <3>2. LogFits(es) /\ n \in 1..Len(es) /\ es[n] = e BY <1>1, <1>2, <1>4, <3>1
    <3>3. AliasAt(es, n, x) = AliasAt(es, n - 1, x) BY <2>1, <3>2, AliasStep
    <3> QED BY <1>4, <3>1, <3>3
  <2>5. Len(log') - 1 = Len(log) BY <1>1, <1>4
  <2> QED BY <1>4, <2>3, <2>4, <2>5
<1> QED BY <1>2, <1>3, <1>6, <1>7

(* Steps of a call that append nothing. *)
LEMMA CallerFits ==
  ASSUME IInv, NEW s \in Callers, NEW n, CallFits(log, n),
         caller' = [caller EXCEPT ![s] = n],
         UNCHANGED <<log, found, graph, cursor, checkpoint, work, restarts>>
  PROVE  IInv'
<1>1. n \in CallerState BY DEF CallFits
<1>2. caller \in [Callers -> CallerState] BY DEF IInv, ServiceInv
<1>3. caller' \in [Callers -> CallerState] BY <1>1, <1>2
<1>4. \A t \in Callers : caller'[t] = IF t = s THEN n ELSE caller[t] BY <1>2
<1>5. \A t \in Callers : CallFits(log', caller'[t]) BY <1>4 DEF IInv, ServiceInv
<1>6. ServiceInv' BY <1>3, <1>5 DEF IInv, ServiceInv
<1>7. StoreInv' BY DEF IInv, StoreInv
<1>8. AliasInv' BY DEF IInv, AliasInv
<1> QED BY <1>6, <1>7, <1>8 DEF IInv

LEMMA PlanStep ==
  ASSUME IInv, NEW s \in Callers, NEW canonical \in Entities, NEW merged \in SUBSET Entities,
         NEW attempt \in Nat, merged # {}, canonical \notin merged,
         Plan(s, canonical, merged, attempt),
         UNCHANGED <<log, found, graph, cursor, checkpoint, work, restarts>>
  PROVE  IInv'
<1>1. PICK p : p = PlanRedirections(graph, canonical, merged) OBVIOUS
<1>2. PICK n : n = [Idle EXCEPT !.phase = "edges", !.canonical = canonical,
                                !.merged = merged, !.plan = p, !.attempt = attempt]
  OBVIOUS
<1>3. Idle \in CallerState /\ Idle.undo = 0 BY DEF Idle, CallerState, Phases
<1>4. caller' = [caller EXCEPT ![s] = n] BY <1>1, <1>2 DEF Plan
<1>5. p \in SUBSET Redirection /\ RedirectionsFit(p)
  BY <1>1, PlanFits DEF IInv, StoreInv
<1>6. n \in CallerState BY <1>2, <1>3, <1>5, Zenon DEF CallerState, Phases
<1>7. /\ n.phase = "edges" /\ n.canonical = canonical /\ n.merged = merged /\ n.plan = p
      /\ n.undo = 0
  BY <1>2, <1>3, Zenon DEF CallerState
<1>8. CallFits(log, n) BY <1>5, <1>6, <1>7 DEF CallFits
<1> QED BY <1>4, <1>8, CallerFits

LEMMA ExtractFits ==
  ASSUME IInv, NEW r \in Extractions, Extract(r)
  PROVE  IInv'
<1> DEFINE e == [type |-> "extracted", entities |-> r.entities, claims |-> r.claims,
                 retracted |-> found[r.doc] \ r.entities]
<1>1. r.doc \in Documents /\ r.entities \in SUBSET Entities /\ r.claims \in SUBSET Claims
  BY ExtractionsAssumption
<1>2. found \in [Documents -> SUBSET Entities] BY DEF IInv, ServiceInv
<1>3. e \in Event BY <1>1, <1>2 DEF Event, ExtractedEvent
<1>4. e.type = "extracted" OBVIOUS
<1>5. log' = Append(log, e) BY DEF Extract
<1> HIDE DEF e
<1>6. EventFits(log, Len(log), e) BY <1>4 DEF EventFits
<1>7. /\ LogFits(log') /\ \A c : CallFits(log, c) => CallFits(log', c)
      /\ StoreInv' /\ AliasInv'
  BY <1>3, <1>4, <1>5, <1>6, AppendFits DEF Extract
<1>8. found' \in [Documents -> SUBSET Entities] BY <1>1, <1>2 DEF Extract
<1>9. ServiceInv' BY <1>7, <1>8 DEF IInv, ServiceInv, Extract
<1> QED BY <1>7, <1>9 DEF IInv

LEMMA SaveFits ==
  ASSUME IInv, NEW s \in Callers, Save(s)
  PROVE  IInv'
<1>1. PICK c : c = caller[s] OBVIOUS
<1>2. /\ LogFits(log) /\ CallFits(log, c) /\ c.phase = "loaded"
      /\ c.version = VersionAt(log, Len(log))
  BY <1>1, LogIsTheLog DEF IInv, ServiceInv, Save
<1>3. PICK e : e = EventOf(c) OBVIOUS
<1>4. /\ e \in Event /\ EventFits(log, Len(log), e) /\ RedirectionsFit(e.redirections)
      /\ e.type = "merged" => e.merged # {} /\ e.canonical \notin e.merged
  BY <1>2, <1>3, EventOfFits
<1>5. log' = Append(log, e) BY <1>1, <1>3 DEF Save
<1>6. /\ LogFits(log') /\ \A d : CallFits(log, d) => CallFits(log', d)
      /\ StoreInv' /\ AliasInv'
  BY <1>4, <1>5, AppendFits DEF Save
<1>7. caller \in [Callers -> CallerState] /\ caller' = [caller EXCEPT ![s] = Idle]
  BY DEF IInv, ServiceInv, Save
<1>8. Idle \in CallerState BY IdleFits DEF CallFits
<1>9. caller' \in [Callers -> CallerState]
      /\ \A t \in Callers : caller'[t] = IF t = s THEN Idle ELSE caller[t]
  BY <1>7, <1>8
<1>10. \A t \in Callers : CallFits(log', caller'[t])
  BY <1>6, <1>9, IdleFits DEF IInv, ServiceInv
<1>11. ServiceInv' BY <1>6, <1>9, <1>10 DEF IInv, ServiceInv, Save
<1> QED BY <1>6, <1>11 DEF IInv

LEMMA ReadEntitiesFits ==
  ASSUME IInv, NEW s \in Callers, ReadEntities(s)
  PROVE  IInv'
<1>1. PICK c : c = caller[s] OBVIOUS
<1>2. c.phase = "edges" /\ CallFits(log, c) BY <1>1 DEF ReadEntities, IInv, ServiceInv
<1>3. c \in CallerState /\ c.undo = 0 /\ c.canonical \in Entities /\ c.merged \in SUBSET Entities
  BY <1>2 DEF CallFits, CallerState
<1>4. UNCHANGED <<log, found, graph, cursor, checkpoint, work, restarts>> BY DEF ReadEntities
<1>5. CASE ~ HasRow(graph, c.canonical)
  <2>1. caller' = [caller EXCEPT ![s] = Idle] BY <1>1, <1>5 DEF ReadEntities
  <2> QED BY <1>4, <2>1, IdleFits, CallerFits
<1>6. CASE HasRow(graph, c.canonical)
  <2>1. PICK b, a : /\ b = graph.rows[c.canonical]
                    /\ a = PlanRow(graph, c.canonical, c.merged)
    OBVIOUS
  <2>2. b \in Row /\ a \in Row BY <1>3, <1>6, <2>1, RowFits DEF IInv, StoreInv, GraphFits
  <2>3. PICK n : n = [c EXCEPT !.phase = "planned", !.before = b, !.after = a] OBVIOUS
  <2>4. /\ n.phase = "planned" /\ n.canonical = c.canonical /\ n.merged = c.merged
        /\ n.plan = c.plan /\ n.before = b /\ n.after = a /\ n.undo = c.undo
    BY <1>3, <2>3, Zenon DEF CallerState
  <2>5. caller' = [caller EXCEPT ![s] = n] BY <1>1, <1>6, <2>1, <2>3 DEF ReadEntities
  <2>6. n \in CallerState
    <3>1. b \in SUBSET Keys /\ a \in SUBSET Keys BY <2>2 DEF Row
    <3> QED BY <1>3, <2>3, <3>1, Zenon DEF CallerState, Phases
  <2>7. c.merged # {} /\ c.canonical \notin c.merged /\ RedirectionsFit(c.plan)
    BY <1>2, <1>3 DEF CallFits
  <2>8. CallFits(log, n) BY <1>3, <2>2, <2>4, <2>6, <2>7 DEF CallFits
  <2> QED BY <1>4, <2>5, <2>8, CallerFits
<1> QED BY <1>5, <1>6

LEMMA LoadAndMergeFits ==
  ASSUME IInv, NEW s \in Callers, LoadAndMerge(s)
  PROVE  IInv'
<1>1. PICK c : c = caller[s] OBVIOUS
<1>2. c.phase = "planned" /\ CallFits(log, c) BY <1>1 DEF LoadAndMerge, IInv, ServiceInv
<1>3. c \in CallerState /\ c.undo = 0 BY <1>2 DEF CallFits
<1>4. UNCHANGED <<log, found, graph, cursor, checkpoint, work, restarts>> BY DEF LoadAndMerge
<1>5. CASE MergeRefused(c.canonical, c.merged)
  <2>1. caller' = [caller EXCEPT ![s] = Idle] BY <1>1, <1>5 DEF LoadAndMerge
  <2> QED BY <1>4, <2>1, IdleFits, CallerFits
<1>6. CASE ~ MergeRefused(c.canonical, c.merged)
  <2>1. PICK v : v = Version OBVIOUS
  <2>2. v = VersionAt(log, Len(log)) /\ v \in Nat
    BY <2>1, LogIsTheLog, VersionCounts DEF IInv, ServiceInv, LogFits
  <2>3. PICK n : n = [c EXCEPT !.phase = "loaded", !.version = v] OBVIOUS
  <2>4. /\ n.phase = "loaded" /\ n.canonical = c.canonical /\ n.merged = c.merged
        /\ n.plan = c.plan /\ n.before = c.before /\ n.after = c.after /\ n.undo = c.undo
        /\ n.version = v
    BY <1>3, <2>3, Zenon DEF CallerState
  <2>5. caller' = [caller EXCEPT ![s] = n] BY <1>1, <1>6, <2>1, <2>3 DEF LoadAndMerge
  <2>6. n \in CallerState BY <1>3, <2>2, <2>3, Zenon DEF CallerState, Phases
  <2>7. \A x \in c.merged \union {c.canonical} : ~ AbsorbedIn(log, Len(log), x)
    <3> SUFFICES ASSUME NEW x \in c.merged \union {c.canonical}, AbsorbedIn(log, Len(log), x)
                 PROVE  FALSE
      OBVIOUS
    <3>1. AliasOf(x) = NotAlias BY <1>6 DEF MergeRefused
    <3>2. PICK j : j = CHOOSE i \in EffectiveIn(log, Len(log)) : x \in log[i].merged OBVIOUS
    <3>3. j \in EffectiveIn(log, Len(log)) BY <3>2 DEF AbsorbedIn
    <3>4. AliasOf(x) = log[j].canonical BY <3>2, LogIsTheLog DEF AliasAt
    <3>5. log[j] \in MergedEvent BY <3>3, EventTypes DEF EffectiveIn, IInv, ServiceInv, LogFits
    <3> QED BY <3>1, <3>4, <3>5, SentinelAssumption DEF MergedEvent
  <2>8. /\ c.canonical \in Entities /\ c.merged # {} /\ c.canonical \notin c.merged
        /\ RedirectionsFit(c.plan) /\ c.before \in Row /\ c.after \in Row
    BY <1>2, <1>3 DEF CallFits
  <2>9. CallFits(log, n) BY <1>3, <2>2, <2>4, <2>6, <2>7, <2>8 DEF CallFits
  <2> QED BY <1>4, <2>5, <2>9, CallerFits
<1> QED BY <1>5, <1>6

LEMMA LoadAndUndoFits ==
  ASSUME IInv, NEW s \in Callers, NEW i \in EffectiveMerges(Len(log)), LoadAndUndo(s, i)
  PROVE  IInv'
<1>1. UNCHANGED <<log, found, graph, cursor, checkpoint, work, restarts>> BY DEF LoadAndUndo
<1>2. PICK v : v = Version OBVIOUS
<1>3. v = VersionAt(log, Len(log)) /\ v \in Nat
  BY <1>2, LogIsTheLog, VersionCounts DEF IInv, ServiceInv, LogFits
<1>4. PICK n : n = [Idle EXCEPT !.phase = "loaded", !.undo = i, !.version = v] OBVIOUS
<1>5. Idle \in CallerState BY DEF Idle, CallerState, Phases
<1>6. caller' = [caller EXCEPT ![s] = n] BY <1>2, <1>4 DEF LoadAndUndo
<1>7. i \in EffectiveIn(log, Len(log)) /\ i \in 1..Len(log) /\ log[i].type = "merged"
  BY LogIsTheLog DEF EffectiveIn
<1>8. i \in Nat /\ i # 0 /\ v <= VersionAt(log, Len(log)) BY <1>3, <1>7
<1>9. n \in CallerState BY <1>3, <1>4, <1>5, <1>8, Zenon DEF CallerState, Phases
<1>10. n.phase = "loaded" /\ n.undo = i /\ n.version = v
  BY <1>4, <1>5, Zenon DEF CallerState
<1>11. CallFits(log, n) BY <1>3, <1>7, <1>8, <1>9, <1>10 DEF CallFits
<1> QED BY <1>1, <1>6, <1>11, CallerFits

LEMMA SaveConflictFits ==
  ASSUME IInv, NEW s \in Callers, SaveConflict(s)
  PROVE  IInv'
<1>1. PICK c : c = caller[s] OBVIOUS
<1>2. c.phase = "loaded" /\ CallFits(log, c) BY <1>1 DEF SaveConflict, IInv, ServiceInv
<1>3. UNCHANGED <<log, found, graph, cursor, checkpoint, work, restarts>> BY DEF SaveConflict
<1>4. CASE c.undo = 0 /\ c.attempt < MaxAttempts
  <2>1. Plan(s, c.canonical, c.merged, c.attempt + 1) BY <1>1, <1>4 DEF SaveConflict
  <2>2. /\ c.canonical \in Entities /\ c.merged \in SUBSET Entities /\ c.attempt + 1 \in Nat
        /\ c.merged # {} /\ c.canonical \notin c.merged
    BY <1>2, <1>4 DEF CallFits, CallerState
  <2> QED BY <1>3, <2>1, <2>2, PlanStep
<1>5. CASE ~ (c.undo = 0 /\ c.attempt < MaxAttempts)
  <2>1. caller' = [caller EXCEPT ![s] = Idle] BY <1>1, <1>5 DEF SaveConflict
  <2> QED BY <1>3, <2>1, IdleFits, CallerFits
<1> QED BY <1>4, <1>5

(* Steps of the projection leave the log and the calls alone. *)
LEMMA ServiceKept ==
  ASSUME IInv, UNCHANGED <<log, found, caller>>
  PROVE  ServiceInv'
BY DEF IInv, ServiceInv

LEMMA StoreFacts ==
  ASSUME IInv
  PROVE  /\ LogFits(log) /\ log \in Seq(Event) /\ Len(log) \in Nat
         /\ GraphFits(graph) /\ graph \in Graph
         /\ graph.aliases \in [Entities -> Entities \union {NotAlias}]
         /\ cursor \in Nat /\ cursor <= Len(log) /\ checkpoint \in Nat /\ checkpoint <= cursor
         /\ work # <<>> => cursor \in 1..Len(log)
         /\ WorkFits(log[cursor], work) /\ restarts \in 0..MaxRestarts
         /\ \A n \in 1..Len(log) : log[n] \in Event
<1>1. LogFits(log) /\ log \in Seq(Event) /\ Len(log) \in Nat BY DEF IInv, ServiceInv, LogFits
<1>2. GraphFits(graph) /\ graph \in Graph BY DEF IInv, StoreInv, GraphFits
<1>3. graph.aliases \in [Entities -> Entities \union {NotAlias}] BY <1>2, GraphParts
<1> QED BY <1>1, <1>2, <1>3 DEF IInv, StoreInv

LEMMA DeliverFits == ASSUME IInv, Deliver PROVE IInv'
<1>1. ServiceInv' BY ServiceKept DEF Deliver
<1>2. /\ work = <<>> /\ cursor < Len(log) /\ cursor' = cursor + 1
      /\ log' = log /\ graph' = graph /\ restarts' = restarts
      /\ work' = HandlerCalls(log[cursor + 1])
      /\ checkpoint' = IF checkpoint + Lag < cursor' THEN cursor' - Lag ELSE checkpoint
  BY DEF Deliver
<1>3. PICK e : e = log[cursor + 1] OBVIOUS
<1>4. cursor' \in 1..Len(log) /\ cursor' \in Nat BY <1>2, StoreFacts
<1>5. e \in Event /\ (e.type \in {"merged", "undone"} => RedirectionsFit(e.redirections))
  BY <1>2, <1>3, <1>4, StoreFacts DEF LogFits
<1>6. /\ WorkFits(e, work') /\ \A x \in Entities : Binds(e, x) => Pending(work', x)
  BY <1>2, <1>3, <1>5, HandlerWork
<1>7. checkpoint' \in 0..cursor'
  BY <1>2, <1>4, StoreFacts, BoundsAssumption
<1>8. StoreInv' BY <1>2, <1>3, <1>4, <1>6, <1>7, StoreFacts DEF StoreInv
<1>9. AliasInv'
  <2> SUFFICES ASSUME NEW x \in Entities, \A j \in (cursor' + 1)..Len(log) : ~ Binds(log[j], x)
               PROVE  Pending(work', x) \/ graph.aliases[x] = AliasAt(log, Len(log), x)
    BY <1>2 DEF AliasInv
  <2>1. CASE Binds(e, x) BY <1>6, <2>1
  <2>2. CASE ~ Binds(e, x)
    <3>1. \A j \in (cursor + 1)..Len(log) : j = cursor + 1 \/ j \in (cursor' + 1)..Len(log)
      BY <1>2, StoreFacts
    <3>2. \A j \in (cursor + 1)..Len(log) : ~ Binds(log[j], x) BY <1>3, <2>2, <3>1
    <3>3. ~ Pending(work, x) BY <1>2, EmptyFits
    <3> QED BY <3>2, <3>3 DEF IInv, AliasInv
  <2> QED BY <2>1, <2>2
<1> QED BY <1>1, <1>8, <1>9 DEF IInv

(* What a store call does to the alias rows and to the calls left. *)
LEMMA StoreCallDoes ==
  ASSUME IInv, StoreCall
  PROVE  /\ work # <<>> /\ UNCHANGED <<log, found, cursor, checkpoint, restarts, caller>>
         /\ GraphFits(graph') /\ WorkFits(log[cursor], work')
         /\ \A x \in Entities :
              \/ graph'.aliases[x] = graph.aliases[x] /\ (Pending(work, x) => Pending(work', x))
              \/ graph'.aliases[x] = BoundTo(log[cursor]) /\ Binds(log[cursor], x)
<1>1. work # <<>> /\ UNCHANGED <<log, found, cursor, checkpoint, restarts, caller>>
  BY DEF StoreCall
<1>2. PICK k \in Head(work) : /\ ~ Poisons(graph, k) /\ graph' = Write(graph, k)
                              /\ work' = Remaining(graph, work, k)
  BY DEF StoreCall
<1>3. /\ k \in LegalCall /\ WorkFits(log[cursor], work')
      /\ IsBinding(k) => Binds(log[cursor], k.alias) /\ Target(k) = BoundTo(log[cursor])
      /\ ~ IsBinding(k) => \A x : ~ Pending(work, x)
      /\ \A x : Pending(work, x) => x = k.alias \/ Pending(work', x)
  BY <1>1, <1>2, StoreFacts, RemainingWork
<1>4. PICK h : h = Write(graph, k) OBVIOUS
<1>5. /\ GraphFits(h)
      /\ h.aliases = IF IsBinding(k) THEN [graph.aliases EXCEPT ![k.alias] = Target(k)]
                     ELSE graph.aliases
  BY <1>2, <1>3, <1>4, StoreFacts, WriteKeeps
<1>6. ASSUME NEW x \in Entities
      PROVE  \/ h.aliases[x] = graph.aliases[x] /\ (Pending(work, x) => Pending(work', x))
             \/ h.aliases[x] = BoundTo(log[cursor]) /\ Binds(log[cursor], x)
  <2>1. CASE ~ IsBinding(k) BY <1>3, <1>5, <2>1
  <2>2. CASE IsBinding(k) /\ x = k.alias
    <3>1. h.aliases[x] = Target(k) BY <1>5, <2>2, StoreFacts
    <3> QED BY <1>3, <2>2, <3>1
  <2>3. CASE IsBinding(k) /\ x # k.alias
    <3>1. h.aliases[x] = graph.aliases[x] BY <1>5, <2>3, StoreFacts
    <3> QED BY <1>3, <2>3, <3>1
  <2> QED BY <2>1, <2>2, <2>3
<1>7. graph' = h BY <1>2, <1>4
<1> QED BY <1>1, <1>3, <1>5, <1>6, <1>7

LEMMA StoreCallFits == ASSUME IInv, StoreCall PROVE IInv'
<1>1. /\ work # <<>> /\ UNCHANGED <<log, found, cursor, checkpoint, restarts, caller>>
      /\ GraphFits(graph') /\ WorkFits(log[cursor], work')
      /\ \A x \in Entities :
           \/ graph'.aliases[x] = graph.aliases[x] /\ (Pending(work, x) => Pending(work', x))
           \/ graph'.aliases[x] = BoundTo(log[cursor]) /\ Binds(log[cursor], x)
  BY StoreCallDoes
<1>2. ServiceInv' BY <1>1, ServiceKept
<1>3. cursor \in 1..Len(log) BY <1>1, StoreFacts
<1>4. StoreInv' BY <1>1, <1>3 DEF StoreInv, IInv
<1>5. AliasInv'
  <2> SUFFICES ASSUME NEW x \in Entities, \A j \in (cursor + 1)..Len(log) : ~ Binds(log[j], x)
               PROVE  Pending(work', x) \/ graph'.aliases[x] = AliasAt(log, Len(log), x)
    BY <1>1 DEF AliasInv
  <2>1. Pending(work, x) \/ graph.aliases[x] = AliasAt(log, Len(log), x)
    BY DEF IInv, AliasInv
  <2>2. CASE graph'.aliases[x] = BoundTo(log[cursor]) /\ Binds(log[cursor], x)
    <3>1. Len(log) \in 0..Len(log) BY StoreFacts
    <3>2. AliasAt(log, Len(log), x) = BoundTo(log[cursor])
      BY <1>3, <2>2, <3>1, StoreFacts, LastBinds
    <3> QED BY <2>2, <3>2
  <2>3. CASE graph'.aliases[x] = graph.aliases[x] /\ (Pending(work, x) => Pending(work', x))
    BY <2>1, <2>3
  <2> QED BY <1>1, <2>2, <2>3
<1> QED BY <1>2, <1>4, <1>5 DEF IInv

(* A call that is refused is not about an alias, and none of those is left. *)
LEMMA NonePending ==
  ASSUME IInv, DeadLetter
  PROVE  \A x : ~ Pending(work, x)
<1>1. work # <<>> BY DEF DeadLetter
<1>2. PICK k \in Head(work) : Poisons(graph, k) BY DEF DeadLetter
<1>3. ~ IsBinding(k) BY <1>2 DEF Poisons, IsBinding
<1> QED BY <1>1, <1>3, StoreFacts, RemainingWork

LEMMA DeadLetterFits == ASSUME IInv, DeadLetter PROVE IInv'
<1>1. /\ work' = <<>>
      /\ UNCHANGED <<log, found, graph, cursor, checkpoint, restarts, caller>>
  BY DEF DeadLetter
<1>2. ServiceInv' BY <1>1, ServiceKept
<1>3. StoreInv' BY <1>1, EmptyFits DEF StoreInv, IInv
<1>4. AliasInv'
  <2>1. \A x : ~ Pending(work, x) BY NonePending
  <2> QED BY <1>1, <2>1 DEF IInv, AliasInv
<1> QED BY <1>2, <1>3, <1>4 DEF IInv

LEMMA RestartFits == ASSUME IInv, Restart PROVE IInv'
<1>1. /\ work' = <<>> /\ UNCHANGED <<log, found, graph, caller>>
      /\ restarts < MaxRestarts /\ restarts' = restarts + 1
  BY DEF Restart
<1>2. PICK k \in checkpoint..Handled : cursor' = k /\ checkpoint' = k BY DEF Restart
<1>3. /\ k \in Nat /\ k <= cursor /\ (work # <<>> => k < cursor)
  BY <1>2, StoreFacts DEF Handled
<1>4. ServiceInv' BY <1>1, ServiceKept
<1>5. k \in 0..Len(log) /\ k \in 0..k BY <1>3, StoreFacts
<1>6. restarts' \in 0..MaxRestarts BY <1>1, StoreFacts, BoundsAssumption
<1>7. StoreInv' BY <1>1, <1>2, <1>5, <1>6, EmptyFits, StoreFacts DEF StoreInv
<1>8. AliasInv'
  <2> SUFFICES ASSUME NEW x \in Entities, \A j \in (k + 1)..Len(log) : ~ Binds(log[j], x)
               PROVE  graph.aliases[x] = AliasAt(log, Len(log), x)
    BY <1>1, <1>2 DEF AliasInv
  <2>1. \A j \in (cursor + 1)..Len(log) : j \in (k + 1)..Len(log) BY <1>3, StoreFacts
  <2>2. \A j \in (cursor + 1)..Len(log) : ~ Binds(log[j], x) BY <2>1
  <2>3. ~ Pending(work, x)
    <3> SUFFICES ASSUME Pending(work, x) PROVE FALSE OBVIOUS
    <3>1. work # <<>> BY DEF Pending
    <3>2. PICK c \in Head(work) : IsBinding(c) /\ c.alias = x BY DEF Pending
    <3>3. Binds(log[cursor], x) BY <3>1, <3>2, StoreFacts, RemainingWork
    <3>4. cursor \in (k + 1)..Len(log) BY <1>3, <3>1, StoreFacts
    <3> QED BY <3>3, <3>4
  <2> QED BY <2>2, <2>3 DEF IInv, AliasInv
<1> QED BY <1>4, <1>7, <1>8 DEF IInv

LEMMA RebuildFits == ASSUME IInv, Rebuild PROVE IInv'
<1>1. /\ work' = <<>> /\ UNCHANGED <<log, found, caller>>
      /\ restarts < MaxRestarts /\ restarts' = restarts + 1
      /\ graph' = EmptyGraph /\ cursor' = 0 /\ checkpoint' = 0
  BY DEF Rebuild
<1>2. ServiceInv' BY <1>1, ServiceKept
<1>3. restarts' \in 0..MaxRestarts /\ 0 \in 0..Len(log) /\ 0 \in 0..0
  BY <1>1, StoreFacts, BoundsAssumption
<1>4. StoreInv' BY <1>1, <1>3, EmptyFits DEF StoreInv
<1>5. AliasInv'
  <2> SUFFICES ASSUME NEW x \in Entities, \A j \in (0 + 1)..Len(log) : ~ Binds(log[j], x)
               PROVE  EmptyGraph.aliases[x] = AliasAt(log, Len(log), x)
    BY <1>1 DEF AliasInv
  <2>1. \A j \in 1..Len(log) : ~ Binds(log[j], x) OBVIOUS
  <2> QED BY <2>1, NeverBound, EmptyFits, StoreFacts
<1> QED BY <1>2, <1>4, <1>5 DEF IInv

LEMMA NextFits == ASSUME IInv, [Next]_vars PROVE IInv'
<1>1. CASE UNCHANGED vars
  <2>1. UNCHANGED <<log, found, graph, cursor, checkpoint, work, restarts, caller>>
    BY <1>1 DEF vars
  <2> QED BY <2>1 DEF IInv, ServiceInv, StoreInv, AliasInv
<1>2. ASSUME NEW r \in Extractions, Extract(r) PROVE IInv' BY <1>2, ExtractFits
<1>3. CASE Deliver BY <1>3, DeliverFits
<1>4. CASE StoreCall BY <1>4, StoreCallFits
<1>5. CASE DeadLetter BY <1>5, DeadLetterFits
<1>6. CASE Restart BY <1>6, RestartFits
<1>7. CASE Rebuild BY <1>7, RebuildFits
<1>8. ASSUME NEW s \in Callers, NEW q \in Requests, ReadEdges(s, q) PROVE IInv'
  <2>1. /\ q.canonical \in Entities /\ q.merged \in SUBSET Entities
        /\ q.merged # {} /\ q.canonical \notin q.merged
    BY RequestsAssumption
  <2> QED BY <1>8, <2>1, PlanStep DEF ReadEdges
<1>9. ASSUME NEW s \in Callers, ReadEntities(s) PROVE IInv' BY <1>9, ReadEntitiesFits
<1>10. ASSUME NEW s \in Callers, LoadAndMerge(s) PROVE IInv' BY <1>10, LoadAndMergeFits
<1>11. ASSUME NEW s \in Callers, NEW i \in EffectiveMerges(Len(log)), LoadAndUndo(s, i)
       PROVE  IInv'
  BY <1>11, LoadAndUndoFits
<1>12. ASSUME NEW s \in Callers, Save(s) PROVE IInv' BY <1>12, SaveFits
<1>13. ASSUME NEW s \in Callers, SaveConflict(s) PROVE IInv' BY <1>13, SaveConflictFits
<1>14. ASSUME NEW s \in Callers, Abandon(s) PROVE IInv'
  BY <1>14, IdleFits, CallerFits DEF Abandon
<1> QED BY <1>1, <1>2, <1>3, <1>4, <1>5, <1>6, <1>7, <1>8, <1>9, <1>10, <1>11, <1>12,
           <1>13, <1>14 DEF Next

THEOREM Invariant == Spec => []IInv
<1>1. Init => IInv BY InitFits
<1>2. IInv /\ [Next]_vars => IInv' BY NextFits
<1> QED BY <1>1, <1>2, PTL DEF Spec

-----------------------------------------------------------------------------
(* What follows from it *)

LEMMA TypesHold == IInv => TypeOK
<1> SUFFICES ASSUME IInv PROVE TypeOK OBVIOUS
<1>1. work \in Seq(SUBSET Call)
  <2>1. work \in Seq(SUBSET LegalCall) \/ work \in Seq(SUBSET PlainCall)
    BY StoreFacts DEF WorkFits
  <2>2. LegalCall \in SUBSET Call /\ PlainCall \in SUBSET Call BY DEF LegalCall, PlainCall
  <2> QED BY <2>1, <2>2, Widened
<1> QED BY <1>1, StoreFacts DEF TypeOK, IInv, ServiceInv, StoreInv

LEMMA AliasesHold == IInv => AliasesMatchLog
<1> SUFFICES ASSUME IInv, Settled, NEW x \in Entities PROVE graph.aliases[x] = AliasOf(x)
  BY DEF AliasesMatchLog
<1>1. work = <<>> /\ cursor = Len(log) BY DEF Settled
<1>2. (cursor + 1)..Len(log) = {} BY <1>1, StoreFacts
<1>3. graph.aliases[x] = AliasAt(log, Len(log), x) BY <1>1, <1>2, EmptyFits DEF IInv, AliasInv
<1> QED BY <1>3, LogIsTheLog

LEMMA EdgesHold == IInv => EdgesWellFormed /\ LogEdgesWellFormed
<1> SUFFICES ASSUME IInv PROVE EdgesWellFormed /\ LogEdgesWellFormed OBVIOUS
<1>1. EdgesWellFormed BY StoreFacts DEF EdgesWellFormed, GraphFits
<1>2. LogEdgesWellFormed
  BY StoreFacts DEF LogEdgesWellFormed, LogFits, RedirectionsFit, IsConsolidation
<1> QED BY <1>1, <1>2

(* Type correctness, whatever is extracted, merged, undone, redelivered or
   rebuilt (projections/graph.py, consolidation/service.py). *)
THEOREM WellTyped == Spec => []TypeOK
BY Invariant, TypesHold, PTL

(* Once every event is projected, the alias rows are those of the merges in
   effect: for any number of concurrent merges and undos, any stale plan, any
   suffix of the log redelivered and any dead-lettered event
   (projections/graph.py, _apply_merge and _apply_undo). *)
THEOREM AliasesFollowTheLog == Spec => []AliasesMatchLog
BY Invariant, AliasesHold, PTL

-----------------------------------------------------------------------------
(* Alias rows never lead in a circle, at any moment *)

(* Rows that rise along with some number lead nowhere twice. *)
LEMMA RisingEnds ==
  ASSUME NEW g \in Graph, NEW rank \in [Entities -> Nat],
         \A x \in Entities : g.aliases[x] # NotAlias /\ g.aliases[g.aliases[x]] # NotAlias
                               => rank[x] < rank[g.aliases[x]]
  PROVE  NoAliasCycleIn(g)
<1> DEFINE A == {y \in Entities : g.aliases[y] # NotAlias}
           N == Cardinality(A)
<1> SUFFICES ASSUME NEW x \in Entities, g.aliases[Resolve(g, x)] # NotAlias PROVE FALSE
  BY DEF NoAliasCycleIn, CyclicFrom
<1>1. PICK w : w = Walk(g, x) OBVIOUS
<1>2. w \in [Nat -> Entities] /\ \A n \in Nat : w[n + 1] = Hop(g, w[n]) BY <1>1, WalkSteps
<1>3. IsFiniteSet(A) /\ N \in Nat
  <2>1. IsFiniteSet(A) BY EntitiesAssumption, FS_Subset
  <2> HIDE DEF A
  <2> QED BY <2>1, FS_CardinalityType
<1>4. g.aliases[w[N]] # NotAlias BY <1>1, Zenon DEF Resolve
<1>a. g.aliases \in [Entities -> Entities \union {NotAlias}] BY GraphParts
<1> HIDE DEF N
<1>5. ASSUME NEW n \in 0..N PROVE g.aliases[w[n]] # NotAlias
  <2> SUFFICES ASSUME g.aliases[w[n]] = NotAlias PROVE FALSE OBVIOUS
  <2> DEFINE P == {m \in Nat : w[n + m] = w[n]}
  <2>1. n \in Nat BY <1>3
  <2>2. 0 \in P BY <2>1
  <2>3. ASSUME NEW m \in P PROVE m + 1 \in P
    <3>1. n + m \in Nat /\ n + (m + 1) = (n + m) + 1 /\ m + 1 \in Nat BY <2>1
    <3>2. w[(n + m) + 1] = Hop(g, w[n + m]) BY <1>2, <3>1
    <3>3. w[n + m] = w[n] OBVIOUS
    <3>4. Hop(g, w[n]) = w[n] BY DEF Hop
    <3>5. w[n + (m + 1)] = w[n] BY <3>1, <3>2, <3>3, <3>4
    <3> QED BY <3>1, <3>5
  <2>4. P \in SUBSET Nat OBVIOUS
  <2>5. P = Nat
    <3> HIDE DEF P
    <3> QED BY <2>2, <2>3, <2>4, Inductive
  <2>6. N - n \in Nat /\ n + (N - n) = N BY <1>3, <2>1
  <2>7. w[N] = w[n] BY <2>5, <2>6
  <2> QED BY <1>4, <2>7
<1>6. ASSUME NEW n \in 0..N, n + 1 \in 0..N PROVE rank[w[n]] < rank[w[n + 1]]
  <2>1. n \in Nat /\ w[n] \in Entities BY <1>2, <1>3
  <2>2. w[n + 1] = g.aliases[w[n]] BY <1>2, <1>5, <2>1 DEF Hop
  <2>3. g.aliases[w[n + 1]] # NotAlias BY <1>5, <1>6
  <2> QED BY <1>5, <2>1, <2>2, <2>3
<1>7. ASSUME NEW n \in 0..N, NEW m \in 0..N, n < m PROVE rank[w[n]] < rank[w[m]]
  <2> DEFINE P == {d \in Nat : (n + 1) + d <= N => rank[w[n]] < rank[w[(n + 1) + d]]}
  <2>1. 0 \in P BY <1>3, <1>6
  <2>2. ASSUME NEW d \in P PROVE d + 1 \in P
    <3> SUFFICES ASSUME (n + 1) + (d + 1) <= N
                 PROVE  rank[w[n]] < rank[w[(n + 1) + (d + 1)]]
      OBVIOUS
    <3>1. PICK i : i = (n + 1) + d OBVIOUS
    <3>2. i \in 0..N /\ i + 1 \in 0..N /\ (n + 1) + (d + 1) = i + 1 BY <1>3, <3>1
    <3>3. rank[w[n]] < rank[w[i]] BY <3>1, <3>2
    <3>4. rank[w[i]] < rank[w[i + 1]] BY <1>6, <3>2
    <3>5. rank[w[n]] \in Nat /\ rank[w[i]] \in Nat /\ rank[w[i + 1]] \in Nat
      BY <1>2, <1>3, <3>2
    <3>6. rank[w[n]] < rank[w[i + 1]] BY <3>3, <3>4, <3>5
    <3> QED BY <3>2, <3>6
  <2>3. P \in SUBSET Nat OBVIOUS
  <2>4. P = Nat
    <3> HIDE DEF P
    <3> QED BY <2>1, <2>2, <2>3, Inductive
  <2>5. m - (n + 1) \in Nat /\ (n + 1) + (m - (n + 1)) = m /\ m <= N BY <1>3, <1>7
  <2> QED BY <2>4, <2>5
<1>8. ASSUME NEW n \in 0..N, NEW m \in 0..N, w[n] = w[m] PROVE n = m
  <2>1. n \in Nat /\ m \in Nat /\ rank[w[n]] \in Nat BY <1>2, <1>3
  <2>2. ~ (n < m) BY <1>7, <1>8, <2>1
  <2>3. ~ (m < n) BY <1>7, <1>8, <2>1
  <2> QED BY <2>1, <2>2, <2>3
<1>9. PICK f : f = [n \in 0..N |-> w[n]] OBVIOUS
<1>10. f \in Injection(0..N, A)
  <2>1. \A n \in 0..N : w[n] \in A BY <1>2, <1>3, <1>5
  <2> HIDE DEF A
  <2>2. f \in [0..N -> A] BY <1>9, <2>1
  <2>3. \A n, m \in 0..N : f[n] = f[m] => n = m
    <3>1. \A n \in 0..N : f[n] = w[n] BY <1>9
    <3> QED BY <1>8, <3>1
  <2> QED BY <2>2, <2>3 DEF Injection, IsInjective
<1>11. Cardinality(0..N) <= N
  <2> HIDE DEF A
  <2> QED BY <1>3, <1>10, FS_Injection DEF N
<1>12. Cardinality(0..N) = N + 1 BY <1>3, FS_Interval
<1> QED BY <1>3, <1>11, <1>12

(* The merge that absorbed an entity after n events. *)
AbsorberAt(es, n, x) == CHOOSE i \in EffectiveIn(es, n) : x \in es[i].merged

(* Alias rows a log has, all of them or some, rise with the absorbing merge:
   a canonical that is itself absorbed was absorbed later. *)
LEMMA LogRises ==
  ASSUME NEW es, LogFits(es), NEW n \in 0..Len(es), NEW x, NEW y,
         y = AliasAt(es, n, x), AbsorbedIn(es, n, x), AbsorbedIn(es, n, y)
  PROVE  AbsorberAt(es, n, x) < AbsorberAt(es, n, y)
<1>1. PICK i : i = AbsorberAt(es, n, x) OBVIOUS
<1>2. PICK j : j = AbsorberAt(es, n, y) OBVIOUS
<1>3. i \in EffectiveIn(es, n) /\ x \in es[i].merged BY <1>1 DEF AbsorberAt, AbsorbedIn
<1>4. j \in EffectiveIn(es, n) /\ y \in es[j].merged BY <1>2 DEF AbsorberAt, AbsorbedIn
<1>5. y = es[i].canonical BY <1>1 DEF AliasAt, AbsorberAt
<1>6. /\ i \in 1..n /\ j \in 1..n /\ es[i].type = "merged" /\ es[j].type = "merged"
      /\ i \in 1..Len(es) /\ Len(es) \in Nat /\ n \in Nat /\ n <= Len(es)
  BY <1>3, <1>4 DEF EffectiveIn, LogFits
<1>7. es[i].canonical \notin es[i].merged BY <1>6 DEF LogFits
<1>8. i # j BY <1>4, <1>5, <1>7
<1>9. ~ (j < i)
  <2> SUFFICES ASSUME j < i PROVE FALSE OBVIOUS
  <2>1. i - 1 \in Nat /\ i - 1 <= n /\ j <= i - 1 BY <1>6
  <2>2. j \in EffectiveIn(es, i - 1) BY <1>4, <1>6, <2>1, EffectiveBefore
  <2>3. MergeFits(es, i - 1, es[i]) BY <1>6 DEF LogFits, EventFits
  <2>4. ~ AbsorbedIn(es, i - 1, y) BY <1>5, <2>3 DEF MergeFits
  <2> QED BY <1>4, <2>2, <2>4 DEF AbsorbedIn
<1> QED BY <1>1, <1>2, <1>6, <1>8, <1>9

LEMMA LogRowsEnd ==
  ASSUME NEW es, LogFits(es), NEW n \in 0..Len(es), NEW g \in Graph,
         \A x \in Entities : g.aliases[x] # NotAlias => g.aliases[x] = AliasAt(es, n, x)
  PROVE  NoAliasCycleIn(g)
<1>1. PICK rank : rank = [x \in Entities |-> IF AbsorbedIn(es, n, x) THEN AbsorberAt(es, n, x) ELSE 0]
  OBVIOUS
<1>2. rank \in [Entities -> Nat]
  <2> SUFFICES ASSUME NEW x \in Entities, AbsorbedIn(es, n, x) PROVE AbsorberAt(es, n, x) \in Nat
    BY <1>1
  <2>1. AbsorberAt(es, n, x) \in EffectiveIn(es, n) BY DEF AbsorberAt, AbsorbedIn
  <2>2. n \in Nat BY DEF LogFits
  <2> QED BY <2>1, <2>2 DEF EffectiveIn
<1>3. ASSUME NEW x \in Entities, g.aliases[x] # NotAlias, g.aliases[g.aliases[x]] # NotAlias
      PROVE  rank[x] < rank[g.aliases[x]]
  <2>1. PICK y : y = g.aliases[x] OBVIOUS
  <2>2. y \in Entities BY <1>3, <2>1, GraphParts
  <2>3. y = AliasAt(es, n, x) /\ AliasAt(es, n, x) # NotAlias /\ AliasAt(es, n, y) # NotAlias
    BY <1>3, <2>1, <2>2
  <2>4. AbsorbedIn(es, n, x) /\ AbsorbedIn(es, n, y) BY <2>3 DEF AliasAt
  <2>5. AbsorberAt(es, n, x) < AbsorberAt(es, n, y) BY <2>3, <2>4, LogRises
  <2> QED BY <1>1, <2>1, <2>2, <2>4, <2>5
<1> QED BY <1>2, <1>3, RisingEnds

(* So do rows of which some say what the log said one event earlier. *)
LEMMA MixedRowsEnd ==
  ASSUME NEW es, LogFits(es), NEW n \in 1..Len(es), NEW g \in Graph,
         \A x \in Entities : \/ g.aliases[x] = AliasAt(es, n - 1, x)
                             \/ g.aliases[x] = AliasAt(es, n, x)
  PROVE  NoAliasCycleIn(g)
<1>1. Len(es) \in Nat /\ n \in 0..Len(es) /\ n - 1 \in 0..Len(es) BY DEF LogFits
<1>2. \A x : AliasAt(es, n, x) = IF Binds(es[n], x) THEN BoundTo(es[n])
                                 ELSE AliasAt(es, n - 1, x)
  BY AliasStep
<1>3. CASE es[n].type = "merged"
  <2>1. ASSUME NEW x, Binds(es[n], x) PROVE AliasAt(es, n - 1, x) = NotAlias
    <3>1. x \in es[n].merged BY <1>3, <2>1 DEF Binds
    <3>2. MergeFits(es, n - 1, es[n]) BY <1>3 DEF LogFits, EventFits
    <3> QED BY <3>1, <3>2 DEF MergeFits, AliasAt
  <2>2. \A x \in Entities : g.aliases[x] # NotAlias => g.aliases[x] = AliasAt(es, n, x)
    BY <1>2, <2>1
  <2> QED BY <1>1, <2>2, LogRowsEnd
<1>4. CASE es[n].type # "merged"
  <2>1. \A x : Binds(es[n], x) => AliasAt(es, n, x) = NotAlias BY <1>2, <1>4 DEF BoundTo
  <2>2. \A x \in Entities : g.aliases[x] # NotAlias => g.aliases[x] = AliasAt(es, n - 1, x)
    BY <1>2, <2>1
  <2> QED BY <1>1, <2>2, LogRowsEnd
<1> QED BY <1>3, <1>4

(* With a checkpoint at most one event behind, an alias row says what the log
   says after the event given last; or before it, while that event is still to
   change the row; or, when the event is to be given again, after it. *)
Near(x) ==
  \/ graph.aliases[x] = AliasAt(log, cursor, x)
  \/ Pending(work, x) /\ graph.aliases[x] = AliasAt(log, cursor - 1, x)
  \/ /\ work = <<>> /\ checkpoint = cursor /\ cursor < Len(log)
     /\ graph.aliases[x] = AliasAt(log, cursor + 1, x)

NearInv == cursor <= checkpoint + 1 /\ \A x \in Entities : Near(x)

LEMMA NearHolds == IInv /\ NearInv => NoAliasCycle
<1> SUFFICES ASSUME IInv, NearInv PROVE NoAliasCycleIn(graph) BY DEF NoAliasCycle
<1>1. CASE work # <<>>
  <2>1. cursor \in 1..Len(log) BY <1>1, StoreFacts
  <2>2. \A x \in Entities : \/ graph.aliases[x] = AliasAt(log, cursor - 1, x)
                            \/ graph.aliases[x] = AliasAt(log, cursor, x)
    BY <1>1 DEF NearInv, Near
  <2> QED BY <2>1, <2>2, StoreFacts, MixedRowsEnd
<1>2. CASE work = <<>> /\ cursor < Len(log)
  <2>1. PICK n : n = cursor + 1 OBVIOUS
  <2>2. n \in 1..Len(log) /\ n - 1 = cursor BY <1>2, <2>1, StoreFacts
  <2>3. \A x \in Entities : \/ graph.aliases[x] = AliasAt(log, n - 1, x)
                            \/ graph.aliases[x] = AliasAt(log, n, x)
    BY <1>2, <2>1, <2>2, EmptyFits DEF NearInv, Near
  <2> QED BY <2>2, <2>3, StoreFacts, MixedRowsEnd
<1>3. CASE work = <<>> /\ ~ (cursor < Len(log))
  <2>1. \A x \in Entities : graph.aliases[x] = AliasAt(log, cursor, x)
    BY <1>3, EmptyFits DEF NearInv, Near
  <2>2. cursor \in 0..Len(log) BY StoreFacts
  <2> QED BY <2>1, <2>2, StoreFacts, LogRowsEnd
<1> QED BY <1>1, <1>2, <1>3

LEMMA InitNear == Init => NearInv
<1> SUFFICES ASSUME Init PROVE NearInv OBVIOUS
<1>1. log = <<>> /\ Len(log) = 0 /\ cursor = 0 /\ checkpoint = 0 BY DEF Init
<1>2. ASSUME NEW x \in Entities PROVE graph.aliases[x] = AliasAt(log, cursor, x)
  <2>1. \A j \in 1..0 : ~ Binds(log[j], x) OBVIOUS
  <2>2. AliasAt(log, 0, x) = NotAlias BY <2>1, NeverBound
  <2> QED BY <1>1, <2>2, EmptyFits DEF Init
<1> QED BY <1>1, <1>2 DEF NearInv, Near

LEMMA AppendNear ==
  ASSUME IInv, NearInv, NEW e \in Event, log' = Append(log, e),
         UNCHANGED <<graph, cursor, checkpoint, work>>
  PROVE  NearInv'
<1>1. /\ Len(log') = Len(log) + 1
      /\ \A n \in 0..Len(log) : \A x : AliasAt(log', n, x) = AliasAt(log, n, x)
  BY StoreFacts, AppendKeeps
<1>2. /\ cursor \in 0..Len(log)
      /\ cursor < Len(log) => cursor + 1 \in 0..Len(log) /\ cursor < Len(log')
  BY <1>1, StoreFacts
<1>3. ASSUME NEW x \in Entities PROVE Near(x)'
  <2>1. CASE graph.aliases[x] = AliasAt(log, cursor, x) BY <1>1, <1>2, <2>1 DEF Near
  <2>2. CASE Pending(work, x) /\ graph.aliases[x] = AliasAt(log, cursor - 1, x)
    <3>1. cursor - 1 \in 0..Len(log) BY <2>2, StoreFacts DEF Pending
    <3> QED BY <1>1, <2>2, <3>1 DEF Near
  <2>3. CASE /\ work = <<>> /\ checkpoint = cursor /\ cursor < Len(log)
             /\ graph.aliases[x] = AliasAt(log, cursor + 1, x)
    BY <1>1, <1>2, <2>3 DEF Near
  <2> QED BY <2>1, <2>2, <2>3 DEF NearInv, Near
<1> QED BY <1>3 DEF NearInv

LEMMA DeliverNear ==
  ASSUME Lag <= 1, IInv, NearInv, Deliver
  PROVE  NearInv'
<1>1. /\ work = <<>> /\ cursor < Len(log) /\ cursor' = cursor + 1
      /\ log' = log /\ graph' = graph /\ work' = HandlerCalls(log[cursor + 1])
      /\ checkpoint' = IF checkpoint + Lag < cursor' THEN cursor' - Lag ELSE checkpoint
  BY DEF Deliver
<1>2. PICK e : e = log[cursor + 1] OBVIOUS
<1>3. cursor + 1 \in 1..Len(log) /\ (cursor + 1) - 1 = cursor BY <1>1, StoreFacts
<1>4. e \in Event /\ (e.type \in {"merged", "undone"} => RedirectionsFit(e.redirections))
  BY <1>2, <1>3, StoreFacts DEF LogFits
<1>5. \A x \in Entities : Binds(e, x) => Pending(work', x) BY <1>1, <1>2, <1>4, HandlerWork
<1>6. \A x : AliasAt(log, cursor + 1, x) = IF Binds(e, x) THEN BoundTo(e)
                                           ELSE AliasAt(log, cursor, x)
  BY <1>2, <1>3, StoreFacts, AliasStep
<1>7. cursor' <= checkpoint' + 1 BY <1>1, StoreFacts, BoundsAssumption
<1>8. ASSUME NEW x \in Entities
      PROVE  \/ graph.aliases[x] = AliasAt(log, cursor + 1, x)
             \/ Pending(work', x) /\ graph.aliases[x] = AliasAt(log, cursor, x)
  <2>1. \/ graph.aliases[x] = AliasAt(log, cursor, x)
        \/ graph.aliases[x] = AliasAt(log, cursor + 1, x)
    BY <1>1, EmptyFits DEF NearInv, Near
  <2> QED BY <1>5, <1>6, <2>1
<1>9. ASSUME NEW x \in Entities PROVE Near(x)'
  <2>1. cursor' - 1 = cursor BY <1>1, <1>3
  <2> QED BY <1>1, <1>8, <2>1 DEF Near
<1> QED BY <1>7, <1>9 DEF NearInv

LEMMA StoreCallNear ==
  ASSUME IInv, NearInv, StoreCall
  PROVE  NearInv'
<1>1. /\ work # <<>> /\ UNCHANGED <<log, found, cursor, checkpoint, restarts, caller>>
      /\ \A x \in Entities :
           \/ graph'.aliases[x] = graph.aliases[x] /\ (Pending(work, x) => Pending(work', x))
           \/ graph'.aliases[x] = BoundTo(log[cursor]) /\ Binds(log[cursor], x)
  BY StoreCallDoes
<1>2. cursor \in 1..Len(log) BY <1>1, StoreFacts
<1>3. ASSUME NEW x \in Entities PROVE Near(x)'
  <2>1. CASE graph'.aliases[x] = BoundTo(log[cursor]) /\ Binds(log[cursor], x)
    <3>1. AliasAt(log, cursor, x) = BoundTo(log[cursor]) BY <1>2, <2>1, StoreFacts, AliasStep
    <3> QED BY <1>1, <2>1, <3>1 DEF Near
  <2>2. CASE graph'.aliases[x] = graph.aliases[x] /\ (Pending(work, x) => Pending(work', x))
    BY <1>1, <2>2 DEF NearInv, Near
  <2> QED BY <1>1, <2>1, <2>2
<1> QED BY <1>1, <1>3 DEF NearInv

LEMMA DeadLetterNear ==
  ASSUME IInv, NearInv, DeadLetter
  PROVE  NearInv'
<1>1. work # <<>> /\ UNCHANGED <<log, graph, cursor, checkpoint>> BY DEF DeadLetter
<1>2. \A x \in Entities : graph.aliases[x] = AliasAt(log, cursor, x)
  BY <1>1, NonePending DEF NearInv, Near
<1> QED BY <1>1, <1>2 DEF NearInv, Near

LEMMA RestartNear ==
  ASSUME IInv, NearInv, Restart
  PROVE  NearInv'
<1>1. work' = <<>> /\ UNCHANGED <<log, graph>> BY DEF Restart
<1>2. PICK k \in checkpoint..Handled : cursor' = k /\ checkpoint' = k BY DEF Restart
<1>3. /\ k \in Nat /\ checkpoint <= k /\ k <= cursor /\ (work # <<>> => k < cursor)
      /\ cursor <= checkpoint + 1
  BY <1>2, StoreFacts DEF Handled, NearInv
<1>4. k = cursor \/ k = cursor - 1 BY <1>3, StoreFacts
<1>5. ASSUME NEW x \in Entities PROVE Near(x)'
  <2>1. CASE k = cursor
    <3>1. work = <<>> BY <1>3, <2>1, StoreFacts
    <3>2. ~ Pending(work, x) BY <3>1, EmptyFits
    <3> QED BY <1>1, <1>2, <2>1, <3>1, <3>2 DEF NearInv, Near
  <2>2. CASE k = cursor - 1
    <3>1. k + 1 = cursor /\ k < Len(log) /\ k # cursor /\ checkpoint # cursor
      BY <1>3, <2>2, StoreFacts
    <3>2. \/ graph.aliases[x] = AliasAt(log, k + 1, x)
          \/ graph.aliases[x] = AliasAt(log, k, x)
      BY <2>2, <3>1 DEF NearInv, Near
    <3> QED BY <1>1, <1>2, <3>1, <3>2 DEF Near
  <2> QED BY <1>4, <2>1, <2>2
<1>6. cursor' <= checkpoint' + 1 BY <1>2, <1>3
<1> QED BY <1>5, <1>6 DEF NearInv

LEMMA RebuildNear ==
  ASSUME IInv, NearInv, Rebuild
  PROVE  NearInv'
<1>1. log' = log /\ graph' = EmptyGraph /\ cursor' = 0 /\ checkpoint' = 0 BY DEF Rebuild
<1>2. ASSUME NEW x \in Entities PROVE EmptyGraph.aliases[x] = AliasAt(log, 0, x)
  <2>1. \A j \in 1..0 : ~ Binds(log[j], x) OBVIOUS
  <2> QED BY <2>1, NeverBound, EmptyFits
<1> QED BY <1>1, <1>2 DEF NearInv, Near

LEMMA NextNear ==
  ASSUME Lag <= 1, IInv, NearInv, [Next]_vars
  PROVE  NearInv'
<1>1. CASE UNCHANGED <<log, graph, cursor, checkpoint, work>>
  BY <1>1 DEF NearInv, Near
<1>2. ASSUME NEW r \in Extractions, Extract(r) PROVE NearInv'
  <2> DEFINE e == [type |-> "extracted", entities |-> r.entities, claims |-> r.claims,
                   retracted |-> found[r.doc] \ r.entities]
  <2>1. r.doc \in Documents /\ r.entities \in SUBSET Entities /\ r.claims \in SUBSET Claims
    BY ExtractionsAssumption
  <2>2. found \in [Documents -> SUBSET Entities] BY DEF IInv, ServiceInv
  <2>3. e \in Event BY <2>1, <2>2 DEF Event, ExtractedEvent
  <2>4. log' = Append(log, e) /\ UNCHANGED <<graph, cursor, checkpoint, work>>
    BY <1>2 DEF Extract
  <2> HIDE DEF e
  <2> QED BY <2>3, <2>4, AppendNear
<1>3. ASSUME NEW s \in Callers, Save(s) PROVE NearInv'
  <2>1. PICK c : c = caller[s] OBVIOUS
  <2>2. /\ LogFits(log) /\ CallFits(log, c) /\ c.phase = "loaded"
        /\ c.version = VersionAt(log, Len(log))
    BY <1>3, <2>1, LogIsTheLog DEF IInv, ServiceInv, Save
  <2>3. PICK e : e = EventOf(c) OBVIOUS
  <2>4. e \in Event BY <2>2, <2>3, EventOfFits
  <2>5. log' = Append(log, e) /\ UNCHANGED <<graph, cursor, checkpoint, work>>
    BY <1>3, <2>1, <2>3 DEF Save
  <2> QED BY <2>4, <2>5, AppendNear
<1>4. CASE Deliver BY <1>4, DeliverNear
<1>5. CASE StoreCall BY <1>5, StoreCallNear
<1>6. CASE DeadLetter BY <1>6, DeadLetterNear
<1>7. CASE Restart BY <1>7, RestartNear
<1>8. CASE Rebuild BY <1>8, RebuildNear
<1>9. CASE UNCHANGED vars BY <1>1, <1>9 DEF vars
<1>10. ASSUME NEW s \in Callers,
              \/ \E q \in Requests : ReadEdges(s, q)
              \/ ReadEntities(s) \/ LoadAndMerge(s)
              \/ \E i \in EffectiveMerges(Len(log)) : LoadAndUndo(s, i)
              \/ SaveConflict(s) \/ Abandon(s)
       PROVE  UNCHANGED <<log, graph, cursor, checkpoint, work>>
  BY <1>10 DEF ReadEdges, ReadEntities, LoadAndMerge, LoadAndUndo, SaveConflict, Abandon
<1> QED BY <1>1, <1>2, <1>3, <1>4, <1>5, <1>6, <1>7, <1>8, <1>9, <1>10 DEF Next

(* At every moment, whatever raced and whatever was planned on a stale graph:
   stored edges join two different entities that have rows, what an undo would
   restore did, and alias rows lead somewhere -- if the checkpoint is written
   whenever a handler has succeeded, so that at most one event handled is given
   again (service.py, resolve: "no chain can point back on itself"). *)
THEOREM GraphStaysWellFormed == Lag <= 1 => (Spec => []GraphWellFormed)
<1> SUFFICES ASSUME Lag <= 1 PROVE Spec => []GraphWellFormed OBVIOUS
<1>1. Init => IInv /\ NearInv BY InitFits, InitNear
<1>2. (IInv /\ NearInv) /\ [Next]_vars => (IInv /\ NearInv)' BY NextFits, NextNear
<1>3. IInv /\ NearInv => GraphWellFormed BY EdgesHold, NearHolds DEF GraphWellFormed
<1> QED BY <1>1, <1>2, <1>3, PTL DEF Spec

(* The edges need no bound on what is given again: no stored edge ever points
   at an entity without a row or at itself (projections/graph.py,
   planning.py:150-157). *)
THEOREM EdgesStayWellFormed == Spec => [](EdgesWellFormed /\ LogEdgesWellFormed)
BY Invariant, EdgesHold, PTL

-----------------------------------------------------------------------------
(* What an event means to a graph, row by row, edge by edge, alias by alias *)

ExtractedRow(g, e, x) ==
  IF x \in e.entities THEN {x}
  ELSE IF x \in e.retracted /\ g.rows[x] # {} THEN g.rows[x] \union {Retracted}
  ELSE g.rows[x]

(* The edge once retractions have cleared theirs. *)
ClearedEdge(g, e, c) ==
  IF g.rels[c] # NoEdge /\ Touches(g.rels[c], e.retracted) THEN NoEdge ELSE g.rels[c]

(* The store takes the document's edges: each has both its rows. *)
Applies(g, e) ==
  \A c \in e.claims : ~ IsSelfLoop(ResolvedEdge(g, c)) =>
    /\ ExtractedRow(g, e, ResolvedEdge(g, c).source) # {}
    /\ ExtractedRow(g, e, ResolvedEdge(g, c).target) # {}

(* Edges written, if at all, once the claims are resolved. *)
Written(g, e) == {c \in e.claims : ~ IsSelfLoop(ResolvedEdge(g, c)) /\ Applies(g, e)}

ExtractedEdge(g, e, c) ==
  IF c \in e.claims /\ IsSelfLoop(ResolvedEdge(g, c)) THEN NoEdge
  ELSE IF c \in Written(g, e) THEN ResolvedEdge(g, c)
  ELSE ClearedEdge(g, e, c)

(* A merge and an undo do alike: bind or free aliases, replace edges, replace
   the canonical's row. *)
BoundBy(e) == IF e.type = "merged" THEN e.merged ELSE e.unmerged
EdgeAfter(e, d) == IF e.type = "merged" THEN d.after ELSE d.before
RowAfter(e) == IF e.type = "merged" THEN e.after ELSE e.before

Redirects(e, c) == \E d \in e.redirections : d.id = c
RedirectionOf(e, c) == CHOOSE d \in e.redirections : d.id = c

RowMeant(g, e, x) ==
  IF e.type = "extracted" THEN ExtractedRow(g, e, x)
  ELSE IF x = e.canonical THEN RowAfter(e) ELSE g.rows[x]

EdgeMeant(g, e, c) ==
  IF e.type = "extracted" THEN ExtractedEdge(g, e, c)
  ELSE IF Redirects(e, c) THEN EdgeAfter(e, RedirectionOf(e, c)) ELSE g.rels[c]

AliasMeant(g, e, x) ==
  IF e.type # "extracted" /\ x \in BoundBy(e) THEN BoundTo(e) ELSE g.aliases[x]

Meant(g, e) == [rows |-> [x \in Entities |-> RowMeant(g, e, x)],
                rels |-> [c \in Claims |-> EdgeMeant(g, e, c)],
                aliases |-> [x \in Entities |-> AliasMeant(g, e, x)]]

OneEach(rs) == \A d, k \in rs : d.id = k.id => d = k

(* What every event of the log says of itself. *)
EventTidy(e) ==
  /\ e \in Event
  /\ e.type = "extracted" => e.entities \intersect e.retracted = {}
  /\ e.type \in {"merged", "undone"} => OneEach(e.redirections)

LEMMA TidyParts ==
  ASSUME NEW e, EventTidy(e)
  PROVE  /\ e.type \in {"extracted", "merged", "undone"}
         /\ e.type = "extracted" =>
              /\ e.entities \in SUBSET Entities /\ e.claims \in SUBSET Claims
              /\ e.retracted \in SUBSET Entities /\ e.entities \intersect e.retracted = {}
         /\ e.type # "extracted" =>
              /\ e.canonical \in Entities /\ BoundBy(e) \in SUBSET Entities
              /\ BoundTo(e) \in Entities \union {NotAlias}
              /\ e.redirections \in SUBSET Redirection /\ RowAfter(e) \in Row
              /\ OneEach(e.redirections)
              /\ \A d \in e.redirections : /\ d.id \in Claims
                                           /\ EdgeAfter(e, d) \in Edge \union {NoEdge}
<1>1. /\ e.type \in {"extracted", "merged", "undone"}
      /\ e.type = "extracted" => e \in ExtractedEvent
      /\ e.type = "merged" => e \in MergedEvent
      /\ e.type = "undone" => e \in UndoneEvent
  BY EventTypes DEF EventTidy
<1>2. CASE e.type = "extracted" BY <1>1, <1>2 DEF EventTidy, ExtractedEvent
<1>3. CASE e.type = "merged"
  <2>1. /\ e.canonical \in Entities /\ e.merged \in SUBSET Entities
        /\ e.redirections \in SUBSET Redirection /\ e.after \in Row
    BY <1>1, <1>3 DEF MergedEvent
  <2>2. \A d \in Redirection : d.id \in Claims /\ d.after \in Edge \union {NoEdge}
    BY DEF Redirection
  <2> QED BY <1>3, <2>1, <2>2 DEF EventTidy, BoundBy, BoundTo, EdgeAfter, RowAfter
<1>4. CASE e.type = "undone"
  <2>1. /\ e.canonical \in Entities /\ e.unmerged \in SUBSET Entities
        /\ e.redirections \in SUBSET Redirection /\ e.before \in Row
    BY <1>1, <1>4 DEF UndoneEvent
  <2>2. \A d \in Redirection : d.id \in Claims /\ d.before \in Edge
    BY DEF Redirection
  <2> QED BY <1>4, <2>1, <2>2 DEF EventTidy, BoundBy, BoundTo, EdgeAfter, RowAfter
<1> QED BY <1>1, <1>2, <1>3, <1>4

LEMMA OneRedirection ==
  ASSUME NEW e, NEW d \in e.redirections, OneEach(e.redirections)
  PROVE  Redirects(e, d.id) /\ RedirectionOf(e, d.id) = d
<1>1. RedirectionOf(e, d.id) \in e.redirections /\ RedirectionOf(e, d.id).id = d.id
  BY DEF RedirectionOf
<1> QED BY <1>1 DEF OneEach, Redirects

LEMMA MeantType ==
  ASSUME NEW g \in Graph, NEW e, EventTidy(e)
  PROVE  /\ Meant(g, e) \in Graph
         /\ \A x \in Entities : g.rows[x] # {} => RowMeant(g, e, x) # {}
         /\ \A x \in Entities : e.type = "extracted" /\ x \in e.entities => RowMeant(g, e, x) # {}
<1>1. /\ g.rows \in [Entities -> SUBSET Keys]
      /\ g.rels \in [Claims -> Edge \union {NoEdge}]
      /\ g.aliases \in [Entities -> Entities \union {NotAlias}]
  BY GraphParts
<1>2. ASSUME NEW x \in Entities
      PROVE  /\ RowMeant(g, e, x) \in SUBSET Keys
             /\ g.rows[x] # {} => RowMeant(g, e, x) # {}
             /\ e.type = "extracted" /\ x \in e.entities => RowMeant(g, e, x) # {}
             /\ AliasMeant(g, e, x) \in Entities \union {NotAlias}
  <2>1. g.rows[x] \in SUBSET Keys /\ {x} \in SUBSET Keys /\ {Retracted} \in SUBSET Keys
    BY <1>1 DEF Keys
  <2>2. ExtractedRow(g, e, x) \in SUBSET Keys BY <2>1 DEF ExtractedRow
  <2>3. g.rows[x] # {} => ExtractedRow(g, e, x) # {} BY DEF ExtractedRow
  <2>4. x \in e.entities => ExtractedRow(g, e, x) # {} BY DEF ExtractedRow
  <2>5. \A r \in Row : r \in SUBSET Keys /\ r # {} BY DEF Row
  <2> QED BY <1>1, <2>1, <2>2, <2>3, <2>4, <2>5, TidyParts DEF RowMeant, AliasMeant
<1>3. ASSUME NEW c \in Claims PROVE EdgeMeant(g, e, c) \in Edge \union {NoEdge}
  <2>1. c[1] \in Entities /\ c[2] \in Entities BY ClaimsAssumption
  <2>2. ResolvedEdge(g, c) \in Edge BY <2>1, ResolveType DEF ResolvedEdge, Edge
  <2>3. ExtractedEdge(g, e, c) \in Edge \union {NoEdge}
    BY <1>1, <2>2 DEF ExtractedEdge, ClearedEdge
  <2>4. Redirects(e, c) => RedirectionOf(e, c) \in e.redirections
    BY DEF Redirects, RedirectionOf
  <2> QED BY <1>1, <2>3, <2>4, TidyParts DEF EdgeMeant
<1> QED BY <1>2, <1>3, GraphMade DEF Meant

Batched(l, batch) ==
  [c \in Claims |-> IF \E u \in batch : u.id = c THEN (CHOOSE u \in batch : u.id = c).edge
                    ELSE l[c]]

(* The writes, part by part. *)
LEMMA WritesMake ==
  ASSUME NEW g \in Graph
  PROVE  /\ \A x, row : UpsertEntity(g, x, row)
              = [rows |-> [g.rows EXCEPT ![x] = row], rels |-> g.rels, aliases |-> g.aliases]
         /\ \A xs : UpsertExtracted(g, xs)
              = [rows |-> [x \in Entities |-> IF x \in xs THEN {x} ELSE g.rows[x]],
                 rels |-> g.rels, aliases |-> g.aliases]
         /\ \A c : DeleteRelationship(g, c)
              = [rows |-> g.rows, rels |-> [g.rels EXCEPT ![c] = NoEdge], aliases |-> g.aliases]
         /\ \A batch : UpsertRelationships(g, batch)
              = [rows |-> g.rows, rels |-> Batched(g.rels, batch), aliases |-> g.aliases]
         /\ \A x, y : UpsertAlias(g, x, y)
              = [rows |-> g.rows, rels |-> g.rels, aliases |-> [g.aliases EXCEPT ![x] = y]]
         /\ \A x : RemoveAlias(g, x)
              = [rows |-> g.rows, rels |-> g.rels, aliases |-> [g.aliases EXCEPT ![x] = NotAlias]]
         /\ \A ids : Without(g, ids)
              = [rows |-> g.rows, aliases |-> g.aliases,
                 rels |-> [c \in Claims |-> IF c \in ids THEN NoEdge ELSE g.rels[c]]]
<1>1. \A x, row : UpsertEntity(g, x, row)
         = [rows |-> [g.rows EXCEPT ![x] = row], rels |-> g.rels, aliases |-> g.aliases]
  <2> TAKE x, row
  <2>1. UpsertEntity(g, x, row) = [g EXCEPT !.rows = [g.rows EXCEPT ![x] = row]]
    BY UpdatedAt DEF UpsertEntity
  <2> QED BY <2>1, Updated
<1>2. \A xs : UpsertExtracted(g, xs)
         = [rows |-> [x \in Entities |-> IF x \in xs THEN {x} ELSE g.rows[x]],
            rels |-> g.rels, aliases |-> g.aliases]
  BY Updated DEF UpsertExtracted
<1>3. \A c : DeleteRelationship(g, c)
         = [rows |-> g.rows, rels |-> [g.rels EXCEPT ![c] = NoEdge], aliases |-> g.aliases]
  <2> TAKE c
  <2>1. DeleteRelationship(g, c) = [g EXCEPT !.rels = [g.rels EXCEPT ![c] = NoEdge]]
    BY UpdatedAt DEF DeleteRelationship
  <2> QED BY <2>1, Updated
<1>4. \A batch : UpsertRelationships(g, batch)
         = [rows |-> g.rows, rels |-> Batched(g.rels, batch), aliases |-> g.aliases]
  BY Updated DEF UpsertRelationships, Batched
<1>5. \A x, y : UpsertAlias(g, x, y)
         = [rows |-> g.rows, rels |-> g.rels, aliases |-> [g.aliases EXCEPT ![x] = y]]
  <2> TAKE x, y
  <2>1. UpsertAlias(g, x, y) = [g EXCEPT !.aliases = [g.aliases EXCEPT ![x] = y]]
    BY UpdatedAt DEF UpsertAlias
  <2> QED BY <2>1, Updated
<1>6. \A x : RemoveAlias(g, x)
         = [rows |-> g.rows, rels |-> g.rels, aliases |-> [g.aliases EXCEPT ![x] = NotAlias]]
  <2> TAKE x
  <2>1. RemoveAlias(g, x) = [g EXCEPT !.aliases = [g.aliases EXCEPT ![x] = NotAlias]]
    BY UpdatedAt DEF RemoveAlias
  <2> QED BY <2>1, Updated
<1>7. \A ids : Without(g, ids)
         = [rows |-> g.rows, aliases |-> g.aliases,
            rels |-> [c \in Claims |-> IF c \in ids THEN NoEdge ELSE g.rels[c]]]
  BY Updated DEF Without
<1> QED BY <1>1, <1>2, <1>3, <1>4, <1>5, <1>6, <1>7

(* What a call writes, part by part. *)
CallMakes(g, k, h) ==
  /\ k.call \notin {"rows", "retract", "fields"} => h.rows = g.rows
  /\ k.call \notin {"delete", "edges"} => h.rels = g.rels
  /\ k.call \notin {"alias", "unalias"} => h.aliases = g.aliases
  /\ k.call = "rows" =>
       h.rows = [x \in Entities |-> IF x \in k.entities THEN {x} ELSE g.rows[x]]
  /\ k.call = "retract" =>
       h.rows = IF HasRow(g, k.entity)
                THEN [g.rows EXCEPT ![k.entity] = g.rows[k.entity] \union {Retracted}]
                ELSE g.rows
  /\ k.call = "fields" => h.rows = [g.rows EXCEPT ![k.entity] = k.row]
  /\ k.call = "delete" => h.rels = [g.rels EXCEPT ![k.id] = NoEdge]
  /\ k.call = "edges" => h.rels = Batched(g.rels, k.batch)
  /\ k.call \in {"alias", "unalias"} => h.aliases = [g.aliases EXCEPT ![k.alias] = Target(k)]

LEMMA CallWrites ==
  ASSUME NEW g \in Graph, NEW k \in Call, NEW h, h = Write(g, k)
  PROVE  CallMakes(g, k, h)
<1> USE DEF CallMakes
<1>1. k.call \in {"rows", "retract", "delete", "resolve", "edges", "alias", "unalias", "fields"}
  BY CallTypes
<1>2. CASE k.call = "rows"
  <2>1. h = UpsertExtracted(g, k.entities) BY <1>2, Zenon DEF Write
  <2>2. h = [rows |-> [x \in Entities |-> IF x \in k.entities THEN {x} ELSE g.rows[x]],
             rels |-> g.rels, aliases |-> g.aliases]
    BY <2>1, WritesMake
  <2> QED BY <1>2, <2>2
<1>3. CASE k.call = "retract"
  <2>1. CASE HasRow(g, k.entity)
    <3>1. PICK x, row : x = k.entity /\ row = g.rows[k.entity] \union {Retracted} OBVIOUS
    <3>2. h = UpsertEntity(g, x, row) BY <1>3, <2>1, <3>1, Zenon DEF Write
    <3>3. UpsertEntity(g, x, row)
            = [rows |-> [g.rows EXCEPT ![x] = row], rels |-> g.rels, aliases |-> g.aliases]
      BY WritesMake
    <3> QED BY <1>3, <2>1, <3>1, <3>2, <3>3
  <2>2. CASE ~ HasRow(g, k.entity)
    <3>1. h = g BY <1>3, <2>2, Zenon DEF Write
    <3> QED BY <1>3, <2>2, <3>1
  <2> QED BY <2>1, <2>2
<1>4. CASE k.call = "delete"
  <2>1. h = DeleteRelationship(g, k.id) BY <1>4, Zenon DEF Write
  <2>2. h = [rows |-> g.rows, rels |-> [g.rels EXCEPT ![k.id] = NoEdge], aliases |-> g.aliases]
    BY <2>1, WritesMake
  <2> QED BY <1>4, <2>2
<1>5. CASE k.call = "resolve"
  <2>1. h = g BY <1>5, Zenon DEF Write
  <2> QED BY <1>5, <2>1
<1>6. CASE k.call = "edges"
  <2>1. h = UpsertRelationships(g, k.batch) BY <1>6, Zenon DEF Write
  <2>2. h = [rows |-> g.rows, rels |-> Batched(g.rels, k.batch), aliases |-> g.aliases]
    BY <2>1, WritesMake
  <2> QED BY <1>6, <2>2
<1>7. CASE k.call = "alias"
  <2>1. PICK x, y : x = k.alias /\ y = k.canonical OBVIOUS
  <2>2. h = UpsertAlias(g, x, y) BY <1>7, <2>1, Zenon DEF Write
  <2>3. UpsertAlias(g, x, y)
          = [rows |-> g.rows, rels |-> g.rels, aliases |-> [g.aliases EXCEPT ![x] = y]]
    BY WritesMake
  <2> QED BY <1>7, <2>1, <2>2, <2>3 DEF Target
<1>8. CASE k.call = "unalias"
  <2>1. h = RemoveAlias(g, k.alias) BY <1>8, Zenon DEF Write
  <2>2. h = [rows |-> g.rows, rels |-> g.rels,
             aliases |-> [g.aliases EXCEPT ![k.alias] = NotAlias]]
    BY <2>1, WritesMake
  <2> QED BY <1>8, <2>2 DEF Target
<1>9. CASE k.call = "fields"
  <2>1. h = UpsertEntity(g, k.entity, k.row) BY <1>9, Zenon DEF Write
  <2>2. h = [rows |-> [g.rows EXCEPT ![k.entity] = k.row], rels |-> g.rels,
             aliases |-> g.aliases]
    BY <2>1, WritesMake
  <2> QED BY <1>9, <2>2
<1> QED BY <1>1, <1>2, <1>3, <1>4, <1>5, <1>6, <1>7, <1>8, <1>9

(* Ids resolve by the alias rows alone. *)
LEMMA ResolveAlike ==
  ASSUME NEW g \in Graph, NEW h \in Graph, g.aliases = h.aliases
  PROVE  /\ \A x \in Entities : Resolve(g, x) = Resolve(h, x) /\ (CyclicFrom(g, x) <=> CyclicFrom(h, x))
         /\ \A c \in Claims : ResolvedEdge(g, c) = ResolvedEdge(h, c)
<1>1. ASSUME NEW x \in Entities
      PROVE  Resolve(g, x) = Resolve(h, x)
  <2>1. PICK v, w : v = Walk(g, x) /\ w = Walk(h, x) OBVIOUS
  <2>2. /\ v[0] = x /\ w[0] = x
        /\ \A n \in Nat : v[n + 1] = Hop(g, v[n]) /\ w[n + 1] = Hop(h, w[n])
    BY <2>1, WalkSteps
  <2>3. \A y : Hop(g, y) = Hop(h, y) BY DEF Hop
  <2> DEFINE P == {n \in Nat : v[n] = w[n]}
  <2>4. P \in SUBSET Nat /\ 0 \in P /\ \A n \in P : n + 1 \in P BY <2>2, <2>3
  <2>5. P = Nat
    <3> HIDE DEF P
    <3> QED BY <2>4, Inductive
  <2>6. PICK A : A = {y \in Entities : g.aliases[y] # NotAlias} OBVIOUS
  <2>7. A = {y \in Entities : h.aliases[y] # NotAlias} BY <2>6
  <2>8. Cardinality(A) \in Nat BY <2>6, EntitiesAssumption, FS_Subset, FS_CardinalityType
  <2>9. v[Cardinality(A)] = w[Cardinality(A)] BY <2>5, <2>8
  <2> QED BY <2>1, <2>6, <2>7, <2>9 DEF Resolve
<1>2. ASSUME NEW c \in Claims PROVE ResolvedEdge(g, c) = ResolvedEdge(h, c)
  BY <1>1, ClaimsAssumption DEF ResolvedEdge
<1> QED BY <1>1, <1>2 DEF CyclicFrom

LEMMA FoldExtractedMeans ==
  ASSUME NEW g \in Graph, NEW e, EventTidy(e), e.type = "extracted",
         \A x \in Entities : ~ CyclicFrom(g, x)
  PROVE  FoldEvent(g, e) = Meant(g, e)
<1> DEFINE rows == [x \in Entities |->
                      LET row == IF x \in e.entities THEN {x} ELSE g.rows[x]
                      IN IF x \in e.retracted /\ row # {} THEN row \union {Retracted}
                         ELSE row]
           cleared == Without([g EXCEPT !.rows = rows], RelationshipsFor(g, e.retracted))
           collapsed == Without(cleared, Collapsed(cleared, e.claims))
           batch == ResolvedBatch(cleared, e.claims)
           fold == IF \E c \in e.claims : CyclicFrom(cleared, c[1]) \/ CyclicFrom(cleared, c[2])
                   THEN cleared
                   ELSE IF EndpointsExist(collapsed, batch)
                        THEN UpsertRelationships(collapsed, batch)
                        ELSE collapsed
           R == [x \in Entities |-> ExtractedRow(g, e, x)]
           L == [c \in Claims |-> ClearedEdge(g, e, c)]
<1>1. FoldEvent(g, e) = fold
  <2>1. FoldEvent(g, e) = FoldExtracted(g, e) BY Zenon DEF FoldEvent
  <2> QED BY <2>1, Zenon DEF FoldExtracted
<1>2. /\ e.entities \in SUBSET Entities /\ e.claims \in SUBSET Claims
      /\ e.retracted \in SUBSET Entities /\ e.entities \intersect e.retracted = {}
  BY TidyParts
<1>3. rows = R BY <1>2 DEF ExtractedRow
<1>4. /\ Meant(g, e) = [rows |-> R, aliases |-> g.aliases,
                        rels |-> [c \in Claims |-> ExtractedEdge(g, e, c)]]
      /\ Meant(g, e) \in Graph
  <2>1. \A x \in Entities : RowMeant(g, e, x) = ExtractedRow(g, e, x) BY DEF RowMeant
  <2>2. \A c \in Claims : EdgeMeant(g, e, c) = ExtractedEdge(g, e, c) BY DEF EdgeMeant
  <2>3. \A x \in Entities : AliasMeant(g, e, x) = g.aliases[x] BY DEF AliasMeant
  <2>4. g.aliases = [x \in Entities |-> g.aliases[x]] BY GraphParts
  <2> QED BY <2>1, <2>2, <2>3, <2>4, MeantType DEF Meant
<1>5. R \in [Entities -> SUBSET Keys]
  <2>1. [rows |-> R, aliases |-> g.aliases,
         rels |-> [c \in Claims |-> ExtractedEdge(g, e, c)]].rows = R OBVIOUS
  <2> HIDE DEF R
  <2> QED BY <1>4, <2>1, GraphParts
<1>6. g.rels \in [Claims -> Edge \union {NoEdge}]
      /\ g.aliases \in [Entities -> Entities \union {NotAlias}]
  BY GraphParts
<1>7. L \in [Claims -> Edge \union {NoEdge}] BY <1>6 DEF ClearedEdge
<1>8. cleared = [rows |-> R, rels |-> L, aliases |-> g.aliases]
  <2>1. PICK h : h = [g EXCEPT !.rows = R] OBVIOUS
  <2>2. h = [rows |-> R, rels |-> g.rels, aliases |-> g.aliases]
    <3> HIDE DEF R
    <3> QED BY <2>1, Updated
  <2>3. h \in Graph /\ h.rows = R /\ h.rels = g.rels /\ h.aliases = g.aliases
    <3> HIDE DEF R
    <3> QED BY <1>5, <1>6, <2>2, GraphMade
  <2>4. cleared = Without(h, RelationshipsFor(g, e.retracted)) BY <1>3, <2>1
  <2>5. Without(h, RelationshipsFor(g, e.retracted))
          = [rows |-> R, aliases |-> g.aliases,
             rels |-> [c \in Claims |-> IF c \in RelationshipsFor(g, e.retracted) THEN NoEdge
                                        ELSE g.rels[c]]]
    <3>1. PICK ids : ids = RelationshipsFor(g, e.retracted) OBVIOUS
    <3>2. Without(h, ids) = [rows |-> h.rows, aliases |-> h.aliases,
                             rels |-> [c \in Claims |-> IF c \in ids THEN NoEdge ELSE h.rels[c]]]
      BY <2>3, WritesMake
    <3> HIDE DEF R
    <3> QED BY <2>3, <3>1, <3>2
  <2>6. \A c \in Claims : L[c] = IF c \in RelationshipsFor(g, e.retracted) THEN NoEdge
                                 ELSE g.rels[c]
    BY DEF ClearedEdge, RelationshipsFor
  <2> HIDE DEF R, cleared
  <2> QED BY <1>7, <2>4, <2>5, <2>6
<1> HIDE DEF R, L, rows, cleared
<1>9. /\ cleared \in Graph /\ cleared.rows = R /\ cleared.rels = L /\ cleared.aliases = g.aliases
  BY <1>5, <1>6, <1>7, <1>8, GraphMade
<1>10. /\ \A x \in Entities : ~ CyclicFrom(cleared, x)
       /\ \A c \in Claims : ResolvedEdge(cleared, c) = ResolvedEdge(g, c)
  BY <1>9, ResolveAlike
<1>11. \A c \in Claims : c \in Collapsed(cleared, e.claims)
                           <=> c \in e.claims /\ IsSelfLoop(ResolvedEdge(g, c))
  BY <1>10 DEF Collapsed
<1>12. collapsed = [rows |-> R, aliases |-> g.aliases,
                    rels |-> [c \in Claims |-> IF c \in Collapsed(cleared, e.claims) THEN NoEdge
                                               ELSE L[c]]]
  <2>1. PICK h, ids : h = cleared /\ ids = Collapsed(cleared, e.claims) OBVIOUS
  <2>2. h \in Graph BY <1>9, <2>1
  <2>3. Without(h, ids) = [rows |-> h.rows, aliases |-> h.aliases,
                           rels |-> [c \in Claims |-> IF c \in ids THEN NoEdge ELSE h.rels[c]]]
    BY <2>2, WritesMake
  <2> QED BY <1>9, <2>1, <2>3
<1> HIDE DEF collapsed
<1>13. collapsed \in Graph /\ collapsed.rows = R /\ collapsed.aliases = g.aliases
       /\ \A c \in Claims : collapsed.rels[c] = IF c \in Collapsed(cleared, e.claims) THEN NoEdge
                                                ELSE ClearedEdge(g, e, c)
  <2>1. \A c \in Claims : L[c] = ClearedEdge(g, e, c) BY DEF L
  <2>2. [c \in Claims |-> IF c \in Collapsed(cleared, e.claims) THEN NoEdge ELSE L[c]]
          \in [Claims -> Edge \union {NoEdge}]
    BY <1>7
  <2> QED BY <1>5, <1>6, <1>12, <2>1, <2>2, GraphMade
<1>14. ASSUME NEW u \in batch
       PROVE  \E c \in e.claims : /\ ~ IsSelfLoop(ResolvedEdge(g, c))
                                  /\ u = [id |-> c, edge |-> ResolvedEdge(g, c)]
  BY <1>2, <1>10, <1>11 DEF ResolvedBatch
<1>15. ASSUME NEW c \in e.claims, ~ IsSelfLoop(ResolvedEdge(g, c))
       PROVE  [id |-> c, edge |-> ResolvedEdge(g, c)] \in batch
  BY <1>2, <1>10, <1>11, <1>15 DEF ResolvedBatch
<1> HIDE DEF batch
<1>16. EndpointsExist(collapsed, batch) <=> Applies(g, e)
  <2>1. \A c \in Claims : ResolvedEdge(g, c).source \in Entities /\ ResolvedEdge(g, c).target \in Entities
    BY ClaimsAssumption, ResolveType DEF ResolvedEdge
  <2>2. \A x \in Entities : collapsed.rows[x] = ExtractedRow(g, e, x) BY <1>13 DEF R
  <2>3. ASSUME EndpointsExist(collapsed, batch) PROVE Applies(g, e)
    <3> SUFFICES ASSUME NEW c \in e.claims, ~ IsSelfLoop(ResolvedEdge(g, c))
                 PROVE  /\ ExtractedRow(g, e, ResolvedEdge(g, c).source) # {}
                        /\ ExtractedRow(g, e, ResolvedEdge(g, c).target) # {}
      BY DEF Applies
    <3>1. PICK u : u = [id |-> c, edge |-> ResolvedEdge(g, c)] OBVIOUS
    <3>2. u \in batch /\ u.edge = ResolvedEdge(g, c) BY <1>15, <3>1
    <3> QED BY <1>2, <2>1, <2>2, <2>3, <3>2 DEF EndpointsExist, HasRow
  <2>4. ASSUME Applies(g, e) PROVE EndpointsExist(collapsed, batch)
    <3> SUFFICES ASSUME NEW u \in batch
                 PROVE  HasRow(collapsed, u.edge.source) /\ HasRow(collapsed, u.edge.target)
      BY DEF EndpointsExist
    <3>1. PICK c \in e.claims : /\ ~ IsSelfLoop(ResolvedEdge(g, c))
                                /\ u = [id |-> c, edge |-> ResolvedEdge(g, c)]
      BY <1>14
    <3>2. u.edge = ResolvedEdge(g, c) BY <3>1
    <3> QED BY <1>2, <2>1, <2>2, <2>4, <3>1, <3>2 DEF Applies, HasRow
  <2> QED BY <2>3, <2>4
<1>17. ASSUME NEW c \in Claims
       PROVE  Batched(collapsed.rels, batch)[c]
                = IF c \in e.claims /\ ~ IsSelfLoop(ResolvedEdge(g, c)) THEN ResolvedEdge(g, c)
                  ELSE collapsed.rels[c]
  <2>1. CASE c \in e.claims /\ ~ IsSelfLoop(ResolvedEdge(g, c))
    <3>1. PICK v : v = [id |-> c, edge |-> ResolvedEdge(g, c)] OBVIOUS
    <3>2. v \in batch /\ v.id = c BY <1>15, <2>1, <3>1
    <3>3. PICK u : u = CHOOSE w \in batch : w.id = c OBVIOUS
    <3>4. u \in batch /\ u.id = c BY <3>2, <3>3
    <3>5. u.edge = ResolvedEdge(g, c) BY <1>14, <3>4
    <3>6. Batched(collapsed.rels, batch)[c] = u.edge BY <3>2, <3>3 DEF Batched
    <3> QED BY <2>1, <3>5, <3>6
  <2>2. CASE ~ (c \in e.claims /\ ~ IsSelfLoop(ResolvedEdge(g, c)))
    <3>1. ~ \E u \in batch : u.id = c BY <1>14, <2>2
    <3> QED BY <2>2, <3>1 DEF Batched
  <2> QED BY <2>1, <2>2
<1>18. \A c \in e.claims : ~ (CyclicFrom(cleared, c[1]) \/ CyclicFrom(cleared, c[2]))
  BY <1>2, <1>10, ClaimsAssumption
<1>19. CASE Applies(g, e)
  <2>1. fold = UpsertRelationships(collapsed, batch) BY <1>16, <1>18, <1>19
  <2>2. UpsertRelationships(collapsed, batch)
          = [rows |-> R, rels |-> Batched(collapsed.rels, batch), aliases |-> g.aliases]
    BY <1>13, WritesMake
  <2>3. \A c \in Claims : Batched(collapsed.rels, batch)[c] = ExtractedEdge(g, e, c)
    BY <1>11, <1>13, <1>17, <1>19 DEF ExtractedEdge, Written
  <2>4. Batched(collapsed.rels, batch) = [c \in Claims |-> Batched(collapsed.rels, batch)[c]]
    BY DEF Batched
  <2>5. Batched(collapsed.rels, batch) = [c \in Claims |-> ExtractedEdge(g, e, c)]
    BY <2>3, <2>4
  <2> QED BY <1>1, <1>4, <2>1, <2>2, <2>5
<1>20. CASE ~ Applies(g, e)
  <2>1. fold = collapsed BY <1>16, <1>18, <1>20
  <2>2. \A c \in Claims : collapsed.rels[c] = ExtractedEdge(g, e, c)
    BY <1>11, <1>13, <1>20 DEF ExtractedEdge, Written
  <2>3. collapsed.rels = [c \in Claims |-> collapsed.rels[c]] BY <1>13, GraphParts
  <2>4. collapsed.rels = [c \in Claims |-> ExtractedEdge(g, e, c)] BY <2>2, <2>3
  <2>5. collapsed = [rows |-> R, rels |-> collapsed.rels, aliases |-> g.aliases]
    BY <1>13, GraphParts
  <2> QED BY <1>1, <1>4, <2>1, <2>4, <2>5
<1> QED BY <1>19, <1>20

LEMMA FoldBindingMeans ==
  ASSUME NEW g \in Graph, NEW e, EventTidy(e), e.type # "extracted"
  PROVE  FoldEvent(g, e) = Meant(g, e)
<1>1. /\ e.type \in {"merged", "undone"}
      /\ e.canonical \in Entities /\ BoundBy(e) \in SUBSET Entities
      /\ e.redirections \in SUBSET Redirection /\ RowAfter(e) \in Row
      /\ OneEach(e.redirections)
      /\ \A d \in e.redirections : d.id \in Claims
  BY TidyParts
<1>2. /\ g.rows \in [Entities -> SUBSET Keys] /\ g.rels \in [Claims -> Edge \union {NoEdge}]
      /\ g.aliases \in [Entities -> Entities \union {NotAlias}]
  BY GraphParts
<1> DEFINE A == [x \in Entities |-> IF x \in BoundBy(e) THEN BoundTo(e) ELSE g.aliases[x]]
           R == [g.rows EXCEPT ![e.canonical] = RowAfter(e)]
           L == [c \in Claims |-> EdgeMeant(g, e, c)]
<1>3. Meant(g, e) = [rows |-> R, rels |-> L, aliases |-> A]
  <2>1. \A x \in Entities : RowMeant(g, e, x) = R[x] BY <1>1, <1>2 DEF RowMeant
  <2>2. \A x \in Entities : AliasMeant(g, e, x) = A[x] BY <1>1 DEF AliasMeant
  <2>3. R = [x \in Entities |-> R[x]] /\ A = [x \in Entities |-> A[x]] BY <1>2
  <2> HIDE DEF R, A, L
  <2>4. [x \in Entities |-> RowMeant(g, e, x)] = R BY <2>1, <2>3
  <2>5. [x \in Entities |-> AliasMeant(g, e, x)] = A BY <2>2, <2>3
  <2> QED BY <2>4, <2>5 DEF Meant, L
<1>4. A \in [Entities -> Entities \union {NotAlias}] BY <1>1, <1>2, TidyParts
(* The edges a batch writes, over edges some of which were dropped. *)
<1>5. ASSUME NEW batch, NEW l,
             \A c \in Claims : Redirects(e, c) =>
               \/ l[c] = EdgeMeant(g, e, c) /\ ~ \E u \in batch : u.id = c
               \/ \E u \in batch : u.id = c,
             \A c \in Claims : ~ Redirects(e, c) => l[c] = g.rels[c],
             \A u \in batch : Redirects(e, u.id) /\ u.edge = EdgeAfter(e, RedirectionOf(e, u.id))
      PROVE  Batched(l, batch) = L
  <2>1. ASSUME NEW c \in Claims PROVE Batched(l, batch)[c] = EdgeMeant(g, e, c)
    <3>1. CASE \E u \in batch : u.id = c
      <4>1. PICK u : u = CHOOSE v \in batch : v.id = c OBVIOUS
      <4>2. u \in batch /\ u.id = c BY <3>1, <4>1
      <4>3. Batched(l, batch)[c] = u.edge BY <3>1, <4>1 DEF Batched
      <4> QED BY <1>1, <1>5, <4>2, <4>3 DEF EdgeMeant
    <3>2. CASE ~ \E u \in batch : u.id = c
      <4>1. Batched(l, batch)[c] = l[c] BY <3>2 DEF Batched
      <4> QED BY <1>1, <1>5, <3>2, <4>1 DEF EdgeMeant
    <3> QED BY <3>1, <3>2
  <2>2. Batched(l, batch) = [c \in Claims |-> Batched(l, batch)[c]] BY DEF Batched
  <2> QED BY <2>1, <2>2
(* Aliases, a batch, the canonical's row. *)
<1>6. ASSUME NEW l \in [Claims -> Edge \union {NoEdge}], NEW h, NEW batch,
             h = [rows |-> g.rows, rels |-> l, aliases |-> A],
             Batched(l, batch) = L
      PROVE  UpsertEntity(UpsertRelationships(h, batch), e.canonical, RowAfter(e)) = Meant(g, e)
  <2> HIDE DEF A, L, R
  <2>1. /\ h \in Graph /\ h.rows = g.rows /\ h.rels = l /\ h.aliases = A
    BY <1>2, <1>4, <1>6, GraphMade
  <2>2. PICK i : i = UpsertRelationships(h, batch) OBVIOUS
  <2>3. UpsertRelationships(h, batch)
          = [rows |-> h.rows, rels |-> Batched(h.rels, batch), aliases |-> h.aliases]
    BY <2>1, WritesMake
  <2>4. i = [rows |-> g.rows, rels |-> L, aliases |-> A] BY <1>6, <2>1, <2>2, <2>3
  <2>5. L \in [Claims -> Edge \union {NoEdge}]
    <3>1. Meant(g, e) \in Graph BY MeantType
    <3>2. Meant(g, e).rels = L BY <1>3
    <3> QED BY <3>1, <3>2, GraphParts
  <2>6. i \in Graph /\ i.rows = g.rows /\ i.rels = L /\ i.aliases = A
    BY <1>2, <1>4, <2>4, <2>5, GraphMade
  <2>7. PICK x, row : x = e.canonical /\ row = RowAfter(e) OBVIOUS
  <2>8. UpsertEntity(i, x, row)
          = [rows |-> [i.rows EXCEPT ![x] = row], rels |-> i.rels, aliases |-> i.aliases]
    BY <2>6, WritesMake
  <2>9. UpsertEntity(i, x, row) = [rows |-> R, rels |-> L, aliases |-> A]
    BY <2>6, <2>7, <2>8 DEF R
  <2> QED BY <1>3, <2>2, <2>7, <2>9
<1>7. CASE e.type = "merged"
  <2> DEFINE kept == {d \in e.redirections : d.after # NoEdge}
             dropped == {d.id : d \in e.redirections \ kept}
             moved == {[id |-> d.id, edge |-> d.after] : d \in kept}
             l == [c \in Claims |-> IF c \in dropped THEN NoEdge ELSE g.rels[c]]
  <2>1. PICK h : h = [Without(g, dropped) EXCEPT !.aliases =
                        [x \in Entities |-> IF x \in e.merged THEN e.canonical ELSE @[x]]]
    OBVIOUS
  <2>2. FoldEvent(g, e) = UpsertEntity(UpsertRelationships(h, moved), e.canonical, e.after)
    <3>1. FoldEvent(g, e) = FoldMerged(g, e) BY <1>7, Zenon DEF FoldEvent
    <3> QED BY <2>1, <3>1, Zenon DEF FoldMerged
  <2>3. BoundBy(e) = e.merged /\ BoundTo(e) = e.canonical /\ RowAfter(e) = e.after
        /\ \A d : EdgeAfter(e, d) = d.after
    BY <1>7 DEF BoundBy, BoundTo, RowAfter, EdgeAfter
  <2>4. l \in [Claims -> Edge \union {NoEdge}] BY <1>2
  <2>5. h = [rows |-> g.rows, rels |-> l, aliases |-> A]
    <3>1. PICK ids : ids = dropped OBVIOUS
    <3>2. PICK w : w = Without(g, ids) OBVIOUS
    <3>3. Without(g, ids) = [rows |-> g.rows, aliases |-> g.aliases,
                             rels |-> [c \in Claims |-> IF c \in ids THEN NoEdge ELSE g.rels[c]]]
      BY WritesMake
    <3>4. w = [rows |-> g.rows, rels |-> l, aliases |-> g.aliases]
      BY <3>1, <3>2, <3>3
    <3>5. h = [w EXCEPT !.aliases = [x \in Entities |-> IF x \in e.merged THEN e.canonical
                                                         ELSE w.aliases[x]]]
      BY <2>1, <3>1, <3>2
    <3> HIDE DEF l, dropped
    <3>6. w \in Graph /\ w.rows = g.rows /\ w.rels = l /\ w.aliases = g.aliases
      BY <1>2, <2>4, <3>4, GraphMade
    <3>7. [x \in Entities |-> IF x \in e.merged THEN e.canonical ELSE w.aliases[x]] = A
      BY <2>3, <3>6
    <3>8. h = [w EXCEPT !.aliases = A] BY <3>5, <3>7
    <3>9. [w EXCEPT !.aliases = A] = [rows |-> w.rows, rels |-> w.rels, aliases |-> A]
      <4> HIDE DEF A
      <4> QED BY <3>6, Updated
    <3> QED BY <3>6, <3>8, <3>9
  <2>6. Batched(l, moved) = L
    <3>1. ASSUME NEW u \in moved
          PROVE  Redirects(e, u.id) /\ u.edge = EdgeAfter(e, RedirectionOf(e, u.id))
      <4>1. PICK d \in e.redirections : d.after # NoEdge /\ u = [id |-> d.id, edge |-> d.after]
        OBVIOUS
      <4>2. u.id = d.id /\ u.edge = d.after BY <4>1
      <4> QED BY <1>1, <2>3, <4>2, OneRedirection
    <3>2. ASSUME NEW c \in Claims, ~ Redirects(e, c) PROVE l[c] = g.rels[c]
      BY <3>2 DEF Redirects
    <3>3. ASSUME NEW c \in Claims, Redirects(e, c)
          PROVE  \/ l[c] = EdgeMeant(g, e, c) /\ ~ \E u \in moved : u.id = c
                 \/ \E u \in moved : u.id = c
      <4>1. PICK d \in e.redirections : d.id = c BY <3>3 DEF Redirects
      <4>2. RedirectionOf(e, c) = d BY <1>1, <4>1, OneRedirection
      <4>3. CASE d.after # NoEdge
        <5>1. PICK u : u = [id |-> d.id, edge |-> d.after] OBVIOUS
        <5>2. u \in moved /\ u.id = c BY <4>1, <4>3, <5>1
        <5> QED BY <5>2
      <4>4. CASE d.after = NoEdge
        <5>1. c \in dropped BY <4>1, <4>4
        <5>2. l[c] = EdgeMeant(g, e, c) BY <1>1, <2>3, <3>3, <4>2, <4>4, <5>1 DEF EdgeMeant
        <5>3. ASSUME NEW u \in moved, u.id = c PROVE FALSE
          <6>1. PICK k \in e.redirections : k.after # NoEdge /\ u = [id |-> k.id, edge |-> k.after]
            OBVIOUS
          <6>2. u.id = k.id BY <6>1
          <6>3. k = d BY <1>1, <4>1, <5>3, <6>2 DEF OneEach
          <6> QED BY <4>4, <6>1, <6>3
        <5> QED BY <5>2, <5>3
      <4> QED BY <4>3, <4>4
    <3> HIDE DEF l, moved, L
    <3> QED BY <1>5, <3>1, <3>2, <3>3
  <2> HIDE DEF l, moved, A, L, dropped
  <2>7. UpsertEntity(UpsertRelationships(h, moved), e.canonical, RowAfter(e)) = Meant(g, e)
    BY <1>6, <2>4, <2>5, <2>6
  <2> QED BY <2>2, <2>3, <2>7
<1>8. CASE e.type = "undone"
  <2>1. PICK h : h = [g EXCEPT !.aliases =
                        [x \in Entities |-> IF x \in e.unmerged THEN NotAlias ELSE @[x]]]
    OBVIOUS
  <2> DEFINE batch == Restored(e.redirections)
  <2>2. FoldEvent(g, e) = UpsertEntity(UpsertRelationships(h, batch), e.canonical, e.before)
    <3>1. FoldEvent(g, e) = FoldUndone(g, e) BY <1>8, Zenon DEF FoldEvent
    <3> QED BY <2>1, <3>1, Zenon DEF FoldUndone
  <2>3. BoundBy(e) = e.unmerged /\ BoundTo(e) = NotAlias /\ RowAfter(e) = e.before
        /\ \A d : EdgeAfter(e, d) = d.before
    BY <1>8 DEF BoundBy, BoundTo, RowAfter, EdgeAfter
  <2>5. h = [rows |-> g.rows, rels |-> g.rels, aliases |-> A]
    <3>1. [x \in Entities |-> IF x \in e.unmerged THEN NotAlias ELSE g.aliases[x]] = A
      BY <2>3
    <3>2. h = [g EXCEPT !.aliases = A] BY <2>1, <3>1
    <3> HIDE DEF A
    <3> QED BY <3>2, Updated
  <2>6. Batched(g.rels, batch) = L
    <3>1. ASSUME NEW u \in batch
          PROVE  Redirects(e, u.id) /\ u.edge = EdgeAfter(e, RedirectionOf(e, u.id))
      <4>1. PICK d \in e.redirections : u = [id |-> d.id, edge |-> d.before] BY DEF Restored
      <4>2. u.id = d.id /\ u.edge = d.before BY <4>1
      <4> QED BY <1>1, <2>3, <4>2, OneRedirection
    <3>2. ASSUME NEW c \in Claims, Redirects(e, c) PROVE \E u \in batch : u.id = c
      <4>1. PICK d \in e.redirections : d.id = c BY <3>2 DEF Redirects
      <4>2. PICK u : u = [id |-> d.id, edge |-> d.before] OBVIOUS
      <4>3. u \in batch /\ u.id = c BY <4>1, <4>2 DEF Restored
      <4> QED BY <4>3
    <3> HIDE DEF batch, L
    <3> QED BY <1>5, <3>1, <3>2
  <2> HIDE DEF batch, A, L
  <2>7. UpsertEntity(UpsertRelationships(h, batch), e.canonical, RowAfter(e)) = Meant(g, e)
    BY <1>2, <1>6, <2>5, <2>6
  <2> QED BY <2>2, <2>3, <2>7
<1> QED BY <1>1, <1>7, <1>8

-----------------------------------------------------------------------------
(* The fold of a log, event by event *)

LogTidy(es) == \A n \in 1..Len(es) : EventTidy(es[n])

(* Binding an alias is what the log says of it. *)
LEMMA MeantAliases ==
  ASSUME NEW es, LogFits(es), LogTidy(es), NEW n \in 1..Len(es), NEW g \in Graph,
         \A x \in Entities : g.aliases[x] = AliasAt(es, n - 1, x)
  PROVE  \A x \in Entities : Meant(g, es[n]).aliases[x] = AliasAt(es, n, x)
<1> SUFFICES ASSUME NEW x \in Entities
             PROVE  Meant(g, es[n]).aliases[x] = AliasAt(es, n, x)
  OBVIOUS
<1>1. es[n].type \in {"extracted", "merged", "undone"} BY TidyParts DEF LogTidy
<1>2. Meant(g, es[n]).aliases[x] = AliasMeant(g, es[n], x) BY DEF Meant
<1>3. AliasAt(es, n, x) = IF Binds(es[n], x) THEN BoundTo(es[n]) ELSE AliasAt(es, n - 1, x)
  BY AliasStep
<1>4. Binds(es[n], x) <=> es[n].type # "extracted" /\ x \in BoundBy(es[n])
  BY <1>1 DEF Binds, BoundBy
<1> QED BY <1>2, <1>3, <1>4 DEF AliasMeant

LEMMA FoldMeans ==
  ASSUME NEW es, LogFits(es), LogTidy(es), NEW n \in 1..Len(es), NEW g \in Graph,
         \A x \in Entities : g.aliases[x] = AliasAt(es, n - 1, x)
  PROVE  FoldEvent(g, es[n]) = Meant(g, es[n])
<1>1. EventTidy(es[n]) BY DEF LogTidy
<1>2. Len(es) \in Nat /\ n - 1 \in 0..Len(es) BY DEF LogFits
<1>3. NoAliasCycleIn(g) BY <1>2, LogRowsEnd
<1> QED BY <1>1, <1>3, FoldExtractedMeans, FoldBindingMeans DEF NoAliasCycleIn

LEMMA FoldSteps ==
  ASSUME NEW es, LogFits(es), LogTidy(es)
  PROVE  /\ FoldOf(es)[0] = EmptyGraph
         /\ \A n \in 0..Len(es) :
              /\ FoldOf(es)[n] \in Graph
              /\ \A x \in Entities : FoldOf(es)[n].aliases[x] = AliasAt(es, n, x)
         /\ \A n \in 1..Len(es) : FoldOf(es)[n] = Meant(FoldOf(es)[n - 1], es[n])
<1> DEFINE Folds(f) == f = [n \in 0..Len(es) |->
                              IF n = 0 THEN EmptyGraph ELSE FoldEvent(f[n - 1], es[n])]
           step == [n \in Nat |-> [g \in Graph |-> IF n + 1 \in 1..Len(es)
                                                   THEN Meant(g, es[n + 1]) ELSE g]]
<1>0. Len(es) \in Nat BY DEF LogFits
<1>1. step \in [Nat -> [Graph -> Graph]]
  <2>1. \A n \in 1..Len(es) : \A g \in Graph : Meant(g, es[n]) \in Graph
    BY MeantType DEF LogTidy
  <2>2. \A n \in Nat : n + 1 \in Nat OBVIOUS
  <2> QED BY <2>1
<1>2. PICK f : Iterating(f, Graph, EmptyGraph, step)
  <2>1. EmptyGraph \in Graph BY EmptyFits DEF GraphFits
  <2> HIDE DEF step
  <2> QED BY <1>1, <2>1, Iterates
<1>3. f \in [Nat -> Graph] /\ f[0] = EmptyGraph BY <1>2 DEF Iterating
<1>4. ASSUME NEW n \in 1..Len(es) PROVE f[n] = Meant(f[n - 1], es[n])
  <2>1. n - 1 \in Nat /\ (n - 1) + 1 = n BY <1>0
  <2>2. f[(n - 1) + 1] = step[n - 1][f[n - 1]] BY <1>2, <2>1 DEF Iterating
  <2>3. f[n - 1] \in Graph BY <1>3, <2>1
  <2> QED BY <2>1, <2>2, <2>3
<1> HIDE DEF step
<1>5. \A n \in 0..Len(es) : \A x \in Entities : f[n].aliases[x] = AliasAt(es, n, x)
  <2> DEFINE P == {n \in Nat : n <= Len(es) =>
                     \A x \in Entities : f[n].aliases[x] = AliasAt(es, n, x)}
  <2>1. 0 \in P
    <3>1. ASSUME NEW x PROVE AliasAt(es, 0, x) = NotAlias
      <4>1. \A j \in 1..0 : ~ Binds(es[j], x) OBVIOUS
      <4> QED BY <4>1, NeverBound
    <3> QED BY <1>3, <3>1, EmptyFits
  <2>2. ASSUME NEW n \in P PROVE n + 1 \in P
    <3> SUFFICES ASSUME n + 1 <= Len(es)
                 PROVE  \A x \in Entities : f[n + 1].aliases[x] = AliasAt(es, n + 1, x)
      OBVIOUS
    <3>1. PICK m : m = n + 1 OBVIOUS
    <3>2. m \in 1..Len(es) /\ m - 1 = n /\ n \in Nat /\ n <= Len(es) BY <1>0, <3>1
    <3>3. f[n] \in Graph /\ \A x \in Entities : f[n].aliases[x] = AliasAt(es, n, x)
      BY <1>3, <3>2
    <3>4. \A x \in Entities : Meant(f[n], es[m]).aliases[x] = AliasAt(es, m, x)
      BY <3>2, <3>3, MeantAliases
    <3> QED BY <1>4, <3>1, <3>2, <3>4
  <2>3. P \in SUBSET Nat OBVIOUS
  <2>4. P = Nat
    <3> HIDE DEF P
    <3> QED BY <2>1, <2>2, <2>3, Inductive
  <2> QED BY <1>0, <2>4
<1>6. ASSUME NEW n \in 1..Len(es) PROVE f[n] = FoldEvent(f[n - 1], es[n])
  <2>1. n - 1 \in Nat /\ n - 1 \in 0..Len(es) BY <1>0
  <2>2. f[n - 1] \in Graph BY <1>3, <2>1
  <2> QED BY <1>4, <1>5, <2>1, <2>2, FoldMeans
<1>7. PICK h : h = [n \in 0..Len(es) |-> f[n]] OBVIOUS
<1>8. Folds(h)
  <2>1. ASSUME NEW n \in 0..Len(es), n # 0 PROVE h[n] = FoldEvent(h[n - 1], es[n])
    <3>1. n \in 1..Len(es) /\ n - 1 \in 0..Len(es) BY <1>0, <2>1
    <3> QED BY <1>6, <1>7, <3>1
  <2>2. \A n \in 0..Len(es) : h[n] = IF n = 0 THEN EmptyGraph ELSE FoldEvent(h[n - 1], es[n])
    BY <1>3, <1>7, <2>1
  <2>3. h = [n \in 0..Len(es) |-> h[n]] BY <1>7
  <2> QED BY <2>2, <2>3
<1>9. PICK F : F = FoldOf(es) OBVIOUS
<1>10. F = CHOOSE w : Folds(w) BY <1>9, Zenon DEF FoldOf
<1>11. Folds(F)
  <2> HIDE DEF Folds
  <2> QED BY <1>8, <1>10
<1>12. F[0] = EmptyGraph
  <2>1. 0 \in 0..Len(es) BY <1>0
  <2> QED BY <1>11, <2>1
<1>13. \A n \in 0..Len(es) : F[n] = f[n]
  <2> DEFINE P == {n \in Nat : n <= Len(es) => F[n] = f[n]}
  <2>1. 0 \in P BY <1>3, <1>12
  <2>2. ASSUME NEW n \in P PROVE n + 1 \in P
    <3> SUFFICES ASSUME n + 1 <= Len(es) PROVE F[n + 1] = f[n + 1] OBVIOUS
    <3>1. n + 1 \in 0..Len(es) /\ n + 1 \in 1..Len(es) /\ (n + 1) - 1 = n /\ n <= Len(es)
          /\ n + 1 # 0
      BY <1>0
    <3>2. F[n + 1] = FoldEvent(F[n], es[n + 1]) BY <1>11, <3>1
    <3>3. f[n + 1] = FoldEvent(f[n], es[n + 1]) BY <1>6, <3>1
    <3> QED BY <3>1, <3>2, <3>3
  <2>3. P \in SUBSET Nat OBVIOUS
  <2>4. P = Nat
    <3> HIDE DEF P
    <3> QED BY <2>1, <2>2, <2>3, Inductive
  <2> QED BY <1>0, <2>4
<1>14. \A n \in 1..Len(es) : n - 1 \in 0..Len(es) /\ n \in 0..Len(es) BY <1>0
<1>15. \A n \in 0..Len(es) : n \in Nat BY <1>0
<1> QED BY <1>3, <1>4, <1>5, <1>9, <1>12, <1>13, <1>14, <1>15

(* An event more leaves the folds of the log's prefixes as they were. *)
LEMMA FoldKept ==
  ASSUME NEW es, LogFits(es), LogTidy(es), NEW e, LogFits(Append(es, e)), LogTidy(Append(es, e))
  PROVE  \A n \in 0..Len(es) : FoldOf(Append(es, e))[n] = FoldOf(es)[n]
<1> DEFINE fs == Append(es, e)
           P == {n \in Nat : n <= Len(es) => FoldOf(fs)[n] = FoldOf(es)[n]}
<1>0. Len(es) \in Nat /\ es \in Seq(Event) BY DEF LogFits
<1>1. Len(fs) = Len(es) + 1 /\ \A n \in 1..Len(es) : fs[n] = es[n] BY <1>0
<1> HIDE DEF fs
<1>2. 0 \in P BY FoldSteps DEF fs
<1>3. ASSUME NEW n \in P PROVE n + 1 \in P
  <2> SUFFICES ASSUME n + 1 <= Len(es) PROVE FoldOf(fs)[n + 1] = FoldOf(es)[n + 1] OBVIOUS
  <2>1. PICK m : m = n + 1 OBVIOUS
  <2>2. m \in 1..Len(es) /\ m \in 1..Len(fs) /\ m - 1 = n /\ n <= Len(es) BY <1>0, <1>1, <2>1
  <2>3. FoldOf(fs)[m] = Meant(FoldOf(fs)[n], fs[m]) BY <2>2, FoldSteps DEF fs
  <2>4. FoldOf(es)[m] = Meant(FoldOf(es)[n], es[m]) BY <2>2, FoldSteps
  <2>5. FoldOf(fs)[n] = FoldOf(es)[n] BY <2>2
  <2> QED BY <1>1, <2>1, <2>2, <2>3, <2>4, <2>5
<1>4. P \in SUBSET Nat OBVIOUS
<1>5. P = Nat
  <2> HIDE DEF P
  <2> QED BY <1>2, <1>3, <1>4, Inductive
<1> QED BY <1>0, <1>5 DEF fs

(* What has a row keeps one. *)
LEMMA FoldRows ==
  ASSUME NEW es, LogFits(es), LogTidy(es), NEW x \in Entities, NEW m \in 0..Len(es),
         HasRow(FoldOf(es)[m], x), NEW n \in m..Len(es)
  PROVE  HasRow(FoldOf(es)[n], x)
<1> DEFINE P == {d \in Nat : m + d <= Len(es) => HasRow(FoldOf(es)[m + d], x)}
<1>0. Len(es) \in Nat /\ m \in Nat BY DEF LogFits
<1>1. 0 \in P BY <1>0
<1>2. ASSUME NEW d \in P PROVE d + 1 \in P
  <2> SUFFICES ASSUME m + (d + 1) <= Len(es) PROVE HasRow(FoldOf(es)[m + (d + 1)], x) OBVIOUS
  <2>1. PICK i : i = m + (d + 1) OBVIOUS
  <2>2. i \in 1..Len(es) /\ i - 1 = m + d /\ i - 1 \in 0..Len(es) BY <1>0, <2>1
  <2>3. PICK g : g = FoldOf(es)[i - 1] OBVIOUS
  <2>4. g \in Graph /\ FoldOf(es)[i] = Meant(g, es[i]) BY <2>2, <2>3, FoldSteps
  <2>5. HasRow(g, x) BY <1>0, <2>2, <2>3
  <2>6. EventTidy(es[i]) BY <2>2 DEF LogTidy
  <2>7. RowMeant(g, es[i], x) # {} BY <2>4, <2>5, <2>6, MeantType DEF HasRow
  <2>8. Meant(g, es[i]).rows[x] = RowMeant(g, es[i], x) BY DEF Meant
  <2> QED BY <2>1, <2>4, <2>7, <2>8 DEF HasRow
<1>3. P \in SUBSET Nat OBVIOUS
<1>4. P = Nat
  <2> HIDE DEF P
  <2> QED BY <1>1, <1>2, <1>3, Inductive
<1>5. n - m \in Nat /\ m + (n - m) = n /\ n <= Len(es) BY <1>0
<1>6. n - m \in P BY <1>4, <1>5
<1> QED BY <1>5, <1>6

-----------------------------------------------------------------------------
(* The calls of a handler, three stages at most *)

Three(a, b, c) == Stage(a) \o Stage(b) \o Stage(c)

LEMMA StageParts ==
  ASSUME NEW S, NEW a \in SUBSET S
  PROVE  /\ Stage(a) \in Seq(SUBSET S)
         /\ a = {} => Stage(a) = <<>>
         /\ a # {} => Stage(a) = <<a>>
BY OneStage DEF Stage

LEMMA Joins ==
  ASSUME NEW T, NEW p \in Seq(T), NEW q \in Seq(T), NEW r \in Seq(T)
  PROVE  /\ <<>> \o p = p /\ p \o <<>> = p
         /\ (p \o q) \o r = p \o (q \o r)
OBVIOUS

(* The stages r left once call k of the first one has returned, its answer
   having led to the calls f. *)
Left(r, f, k, a, b, c) ==
  \/ k \in a /\ r = f \o Three(a \ {k}, b, c)
  \/ a = {} /\ k \in b /\ r = f \o Three({}, b \ {k}, c)
  \/ a = {} /\ b = {} /\ k \in c /\ r = f \o Three({}, {}, c \ {k})

LEMMA ThreeStages ==
  ASSUME NEW S, NEW a \in SUBSET S, NEW b \in SUBSET S, NEW c \in SUBSET S,
         NEW w, w = Three(a, b, c), w # <<>>, NEW k \in Head(w),
         NEW g, FollowUps(g, k) \in Seq(SUBSET S)
  PROVE  Left(Remaining(g, w, k), FollowUps(g, k), k, a, b, c)
<1>1. PICK T : T = SUBSET S OBVIOUS
<1>2. PICK f : f = FollowUps(g, k) OBVIOUS
<1>3. \A d \in SUBSET S : Stage(d) \in Seq(T) BY <1>1, StageParts
<1>4. f \in Seq(T) /\ a \in T /\ b \in T /\ c \in T BY <1>1, <1>2
<1>5. Stage({}) = <<>> BY StageParts
<1>6. CASE a # {}
  <2>1. PICK p, q, r : p = Stage(a \ {k}) /\ q = Stage(b) /\ r = Stage(c) OBVIOUS
  <2>2. p \in Seq(T) /\ q \in Seq(T) /\ r \in Seq(T) BY <1>3, <2>1
  <2>3. w = <<a>> \o q \o r BY <1>6, <2>1, StageParts DEF Three
  <2>4. Head(w) = a /\ Tail(w) = q \o r
    <3>1. PICK t : t = q \o r OBVIOUS
    <3>2. t \in Seq(T) BY <2>2, <3>1
    <3>3. w = <<a>> \o t
      <4>1. <<a>> \in Seq(T) BY <1>4
      <4> QED BY <2>2, <2>3, <3>1, <4>1, Joins
    <3> QED BY <1>4, <3>1, <3>2, <3>3
  <2>5. Remaining(g, w, k) = (f \o p) \o (q \o r) BY <1>2, <2>1, <2>4 DEF Remaining
  <2>6. Three(a \ {k}, b, c) = (p \o q) \o r BY <2>1 DEF Three
  <2>7. (f \o p) \o (q \o r) = f \o ((p \o q) \o r)
    <3>1. PICK t : t = q \o r OBVIOUS
    <3>2. t \in Seq(T) BY <2>2, <3>1
    <3>3. (f \o p) \o t = f \o (p \o t)
      <4>1. \A u, v, x \in Seq(T) : (u \o v) \o x = u \o (v \o x) BY Joins
      <4> QED BY <1>4, <2>2, <3>2, <4>1, Zenon
    <3>4. (p \o q) \o r = p \o t BY <2>2, <3>1, Joins
    <3> QED BY <3>1, <3>3, <3>4
  <2> QED BY <1>2, <2>4, <2>5, <2>6, <2>7 DEF Left
<1>7. CASE a = {} /\ b # {}
  <2>1. PICK p, q : p = Stage(b \ {k}) /\ q = Stage(c) OBVIOUS
  <2>2. p \in Seq(T) /\ q \in Seq(T) BY <1>3, <2>1
  <2>3. w = (<<>> \o <<b>>) \o q BY <1>5, <1>7, <2>1, StageParts DEF Three
  <2>4. Head(w) = b /\ Tail(w) = q BY <1>4, <2>2, <2>3
  <2>5. Remaining(g, w, k) = (f \o p) \o q BY <1>2, <2>1, <2>4 DEF Remaining
  <2>6. Three({}, b \ {k}, c) = (<<>> \o p) \o q BY <1>5, <2>1 DEF Three
  <2>7. (f \o p) \o q = f \o ((<<>> \o p) \o q)
    <3>1. <<>> \o p = p BY <2>2, Joins
    <3>2. (f \o p) \o q = f \o (p \o q) BY <1>4, <2>2, Joins
    <3> QED BY <3>1, <3>2
  <2> QED BY <1>2, <1>7, <2>4, <2>5, <2>6, <2>7 DEF Left
<1>8. CASE a = {} /\ b = {}
  <2>1. CASE c = {}
    <3>1. w = <<>> BY <1>5, <1>8, <2>1 DEF Three
    <3> QED BY <3>1
  <2>2. CASE c # {}
    <3>1. PICK p : p = Stage(c \ {k}) OBVIOUS
    <3>2. p \in Seq(T) BY <1>3, <3>1
    <3>3. w = (<<>> \o <<>>) \o <<c>> BY <1>5, <1>8, <2>2, StageParts DEF Three
    <3>4. w = <<c>> BY <1>4, <3>3
    <3>5. Head(w) = c /\ Tail(w) = <<>> BY <3>4
    <3>6. Remaining(g, w, k) = (f \o p) \o <<>> BY <1>2, <3>1, <3>5 DEF Remaining
    <3>7. Three({}, {}, c \ {k}) = (<<>> \o <<>>) \o p BY <1>5, <3>1 DEF Three
    <3>8. (f \o p) \o <<>> = f \o ((<<>> \o <<>>) \o p) BY <1>4, <3>2
    <3> QED BY <1>2, <1>8, <3>5, <3>6, <3>7, <3>8 DEF Left
  <2> QED BY <2>1, <2>2
<1> QED BY <1>6, <1>7, <1>8

LEMMA NoStages ==
  ASSUME NEW S, NEW a \in SUBSET S, NEW b \in SUBSET S, NEW c \in SUBSET S,
         Three(a, b, c) = <<>>
  PROVE  a = {} /\ b = {} /\ c = {}
<1>1. PICK p, q, r : p = Stage(a) /\ q = Stage(b) /\ r = Stage(c) OBVIOUS
<1>2. PICK T : T = SUBSET S OBVIOUS
<1>3. p \in Seq(T) /\ q \in Seq(T) /\ r \in Seq(T) BY <1>1, <1>2, StageParts
<1>4. (p \o q) \o r = <<>> BY <1>1 DEF Three
<1>5. p = <<>> /\ q = <<>> /\ r = <<>>
  <2>1. Len((p \o q) \o r) = (Len(p) + Len(q)) + Len(r) BY <1>3
  <2>2. Len((p \o q) \o r) = 0 BY <1>4
  <2>3. Len(p) \in Nat /\ Len(q) \in Nat /\ Len(r) \in Nat BY <1>3
  <2>4. Len(p) = 0 /\ Len(q) = 0 /\ Len(r) = 0 BY <2>1, <2>2, <2>3
  <2> QED BY <1>3, <2>4
<1>6. \A d \in SUBSET S : Stage(d) = <<>> => d = {}
  <2> SUFFICES ASSUME NEW d \in SUBSET S, d # {}, Stage(d) = <<>> PROVE FALSE OBVIOUS
  <2>1. <<d>> = <<>> BY StageParts
  <2> QED BY <2>1
<1> QED BY <1>1, <1>5, <1>6

-----------------------------------------------------------------------------
(* Where a graph may be while an event is handled, for the first time or again *)

(* Each row, edge and alias is the one the events before left, or the one this
   event means; an edge it will write may be gone for the moment. *)
EdgeBetween(e, g0, g, c) ==
  \/ g.rels[c] = g0.rels[c] \/ g.rels[c] = EdgeMeant(g0, e, c)
  \/ g.rels[c] = NoEdge /\ e.type = "extracted" /\ c \in Written(g0, e)

Between(e, g0, g) ==
  /\ \A x \in Entities : g.rows[x] = g0.rows[x] \/ g.rows[x] = RowMeant(g0, e, x)
  /\ \A x \in Entities : g.aliases[x] = g0.aliases[x] \/ g.aliases[x] = AliasMeant(g0, e, x)
  /\ \A c \in Claims : EdgeBetween(e, g0, g, c)

(* A call that makes part of what a merge or an undo means. *)
Says(e, k) ==
  \/ IsBinding(k) /\ k.alias \in BoundBy(e) /\ Target(k) = BoundTo(e)
  \/ /\ k.call = "delete" /\ Redirects(e, k.id)
     /\ EdgeAfter(e, RedirectionOf(e, k.id)) = NoEdge
  \/ /\ k.call = "edges"
     /\ \A u \in k.batch : Redirects(e, u.id) /\ u.edge = EdgeAfter(e, RedirectionOf(e, u.id))
  \/ k.call = "fields" /\ k.entity = e.canonical /\ k.row = RowAfter(e)

Covers(k, c) ==
  \/ k.call = "delete" /\ k.id = c
  \/ k.call = "edges" /\ \E u \in k.batch : u.id = c

(* A merge or an undo being handled: what is not yet as it means is owed by a
   call left. *)
Rebinding(e, g0, g, calls) ==
  /\ \A k \in calls : Says(e, k)
  /\ \A x \in Entities :
       \/ g.aliases[x] = AliasMeant(g0, e, x)
       \/ g.aliases[x] = g0.aliases[x] /\ \E k \in calls : IsBinding(k) /\ k.alias = x
  /\ \A c \in Claims :
       \/ g.rels[c] = EdgeMeant(g0, e, c)
       \/ g.rels[c] = g0.rels[c] /\ \E k \in calls : Covers(k, c)
  /\ \A x \in Entities :
       \/ g.rows[x] = RowMeant(g0, e, x)
       \/ g.rows[x] = g0.rows[x] /\ \E k \in calls : k.call = "fields"

(* Every part a graph has is the one an event means. *)
LEMMA AllMeant ==
  ASSUME NEW g \in Graph, NEW g0 \in Graph, NEW e,
         \A x \in Entities : g.rows[x] = RowMeant(g0, e, x),
         \A c \in Claims : g.rels[c] = EdgeMeant(g0, e, c),
         \A x \in Entities : g.aliases[x] = AliasMeant(g0, e, x)
  PROVE  g = Meant(g0, e)
<1>1. /\ g.rows \in [Entities -> SUBSET Keys]
      /\ g.rels \in [Claims -> Edge \union {NoEdge}]
      /\ g.aliases \in [Entities -> Entities \union {NotAlias}]
      /\ g = [rows |-> g.rows, rels |-> g.rels, aliases |-> g.aliases]
  BY GraphParts
<1>2. g.rows = [x \in Entities |-> RowMeant(g0, e, x)]
  <2>1. g.rows = [x \in Entities |-> g.rows[x]] BY <1>1
  <2> QED BY <2>1
<1>3. g.rels = [c \in Claims |-> EdgeMeant(g0, e, c)]
  <2>1. g.rels = [c \in Claims |-> g.rels[c]] BY <1>1
  <2> QED BY <2>1
<1>4. g.aliases = [x \in Entities |-> AliasMeant(g0, e, x)]
  <2>1. g.aliases = [x \in Entities |-> g.aliases[x]] BY <1>1
  <2> QED BY <2>1
<1> QED BY <1>1, <1>2, <1>3, <1>4, Zenon DEF Meant

LEMMA RebindingEnds ==
  ASSUME NEW g \in Graph, NEW g0 \in Graph, NEW e, Rebinding(e, g0, g, {})
  PROVE  g = Meant(g0, e)
BY AllMeant DEF Rebinding

(* A call's write makes what it owes. *)
LEMMA RebindingGoes ==
  ASSUME NEW g \in Graph, NEW g0 \in Graph, NEW e, EventTidy(e), e.type # "extracted",
         NEW calls \in SUBSET Call, Rebinding(e, g0, g, calls), NEW k \in calls,
         NEW rest \in SUBSET calls, calls \ {k} \in SUBSET rest,
         NEW h, h = Write(g, k)
  PROVE  Rebinding(e, g0, h, rest)
<1>1. /\ g.rows \in [Entities -> SUBSET Keys] /\ g.rels \in [Claims -> Edge \union {NoEdge}]
      /\ g.aliases \in [Entities -> Entities \union {NotAlias}]
  BY GraphParts
<1>2. \A i \in calls : i = k \/ i \in rest OBVIOUS
<1>3. \A i \in rest : Says(e, i) BY DEF Rebinding
<1>4. /\ k.call \notin {"rows", "retract", "fields"} => h.rows = g.rows
      /\ k.call \notin {"delete", "edges"} => h.rels = g.rels
      /\ k.call \notin {"alias", "unalias"} => h.aliases = g.aliases
      /\ k.call = "fields" => h.rows = [g.rows EXCEPT ![k.entity] = k.row]
      /\ k.call = "delete" => h.rels = [g.rels EXCEPT ![k.id] = NoEdge]
      /\ k.call = "edges" => h.rels = Batched(g.rels, k.batch)
      /\ k.call \in {"alias", "unalias"} => h.aliases = [g.aliases EXCEPT ![k.alias] = Target(k)]
  <2>1. k \in Call OBVIOUS
  <2>2. CallMakes(g, k, h) BY <2>1, CallWrites
  <2> QED BY <2>2 DEF CallMakes
<1>5. Says(e, k) BY DEF Rebinding
<1>6. k.call \in {"alias", "unalias", "delete", "edges", "fields"}
  BY <1>5 DEF Says, IsBinding
<1>7. ASSUME NEW x \in Entities
      PROVE  \/ h.aliases[x] = AliasMeant(g0, e, x)
             \/ h.aliases[x] = g0.aliases[x] /\ \E i \in rest : IsBinding(i) /\ i.alias = x
  <2>0. \/ g.aliases[x] = AliasMeant(g0, e, x)
        \/ g.aliases[x] = g0.aliases[x] /\ \E i \in calls : IsBinding(i) /\ i.alias = x
    BY DEF Rebinding
  <2>1. CASE IsBinding(k) /\ k.alias = x
    <3>1. h.aliases[x] = Target(k) BY <1>1, <1>4, <2>1 DEF IsBinding
    <3>2. x \in BoundBy(e) /\ Target(k) = BoundTo(e) BY <1>5, <2>1 DEF Says, IsBinding
    <3> QED BY <3>1, <3>2 DEF AliasMeant
  <2>2. CASE ~ (IsBinding(k) /\ k.alias = x)
    <3>1. h.aliases[x] = g.aliases[x]
      <4>1. CASE IsBinding(k) BY <1>1, <1>4, <2>2, <4>1 DEF IsBinding
      <4>2. CASE ~ IsBinding(k) BY <1>4, <4>2 DEF IsBinding
      <4> QED BY <4>1, <4>2
    <3> QED BY <1>2, <2>0, <2>2, <3>1
  <2> QED BY <2>1, <2>2
<1>8. ASSUME NEW c \in Claims
      PROVE  \/ h.rels[c] = EdgeMeant(g0, e, c)
             \/ h.rels[c] = g0.rels[c] /\ \E i \in rest : Covers(i, c)
  <2>0. \/ g.rels[c] = EdgeMeant(g0, e, c)
        \/ g.rels[c] = g0.rels[c] /\ \E i \in calls : Covers(i, c)
    BY DEF Rebinding
  <2>1. CASE k.call = "delete" /\ k.id = c
    <3>1. h.rels[c] = NoEdge BY <1>1, <1>4, <2>1
    <3>2. Redirects(e, c) /\ EdgeAfter(e, RedirectionOf(e, c)) = NoEdge
      BY <1>5, <2>1 DEF Says, IsBinding
    <3> QED BY <3>1, <3>2 DEF EdgeMeant
  <2>2. CASE k.call = "edges" /\ \E u \in k.batch : u.id = c
    <3>1. PICK u : u = CHOOSE v \in k.batch : v.id = c OBVIOUS
    <3>2. u \in k.batch /\ u.id = c BY <2>2, <3>1
    <3>3. h.rels[c] = u.edge BY <1>4, <2>2, <3>1 DEF Batched
    <3>4. Redirects(e, c) /\ u.edge = EdgeAfter(e, RedirectionOf(e, c))
      BY <1>5, <2>2, <3>2 DEF Says, IsBinding
    <3> QED BY <3>3, <3>4 DEF EdgeMeant
  <2>3. CASE ~ Covers(k, c)
    <3>1. h.rels[c] = g.rels[c]
      <4>1. CASE k.call = "delete" BY <1>1, <1>4, <2>3, <4>1 DEF Covers
      <4>2. CASE k.call = "edges" BY <1>4, <2>3, <4>2 DEF Covers, Batched
      <4>3. CASE k.call \notin {"delete", "edges"} BY <1>4, <4>3
      <4> QED BY <4>1, <4>2, <4>3
    <3> QED BY <1>2, <2>0, <2>3, <3>1
  <2> QED BY <2>1, <2>2, <2>3 DEF Covers
<1>9. ASSUME NEW x \in Entities
      PROVE  \/ h.rows[x] = RowMeant(g0, e, x)
             \/ h.rows[x] = g0.rows[x] /\ \E i \in rest : i.call = "fields"
  <2>0. \/ g.rows[x] = RowMeant(g0, e, x)
        \/ g.rows[x] = g0.rows[x] /\ \E i \in calls : i.call = "fields"
    BY DEF Rebinding
  <2>1. CASE k.call = "fields"
    <3>1. k.entity = e.canonical /\ k.row = RowAfter(e) BY <1>5, <2>1 DEF Says, IsBinding
    <3>2. CASE x = e.canonical
      <4>1. h.rows[x] = RowAfter(e) BY <1>1, <1>4, <2>1, <3>1, <3>2
      <4> QED BY <3>2, <4>1 DEF RowMeant
    <3>3. CASE x # e.canonical
      <4>1. h.rows[x] = g.rows[x] BY <1>1, <1>4, <2>1, <3>1, <3>3
      <4>2. RowMeant(g0, e, x) = g0.rows[x] BY <3>3 DEF RowMeant
      <4> QED BY <2>0, <4>1, <4>2
    <3> QED BY <3>2, <3>3
  <2>2. CASE k.call # "fields"
    <3>1. h.rows[x] = g.rows[x] BY <1>4, <1>6, <2>2
    <3> QED BY <1>2, <2>0, <2>2, <3>1
  <2> QED BY <2>1, <2>2
<1> QED BY <1>3, <1>7, <1>8, <1>9 DEF Rebinding

(* Both ends of the edges an event redirects have rows, and so has its canonical. *)
Grounded(g, e) ==
  e.type # "extracted" =>
    /\ HasRow(g, e.canonical)
    /\ \A d \in e.redirections :
         /\ HasRow(g, d.before.source) /\ HasRow(g, d.before.target)
         /\ e.type = "merged" /\ d.after # NoEdge =>
              HasRow(g, d.after.source) /\ HasRow(g, d.after.target)

LEMMA BetweenRows ==
  ASSUME NEW g, NEW g0 \in Graph, NEW e, EventTidy(e), Between(e, g0, g), NEW x \in Entities
  PROVE  /\ HasRow(g0, x) => HasRow(g, x)
         /\ HasRow(g, x) => HasRow(Meant(g0, e), x)
<1>1. g0.rows[x] # {} => RowMeant(g0, e, x) # {} BY MeantType
<1>2. Meant(g0, e).rows[x] = RowMeant(g0, e, x) BY DEF Meant
<1> QED BY <1>1, <1>2 DEF Between, HasRow

LEMMA RebindingBetween ==
  ASSUME NEW e, NEW g0, NEW g, NEW calls, Rebinding(e, g0, g, calls)
  PROVE  Between(e, g0, g)
BY DEF Rebinding, Between, EdgeBetween

(* No call of a merge or an undo is refused. *)
LEMMA RebindingAccepted ==
  ASSUME NEW g \in Graph, NEW g0 \in Graph, NEW e, EventTidy(e), e.type # "extracted",
         Grounded(g0, e), NEW calls \in SUBSET Call, Rebinding(e, g0, g, calls), NEW k \in calls
  PROVE  ~ Poisons(g, k)
<1>1. Between(e, g0, g) BY RebindingBetween
<1>2. \A x \in Entities : HasRow(g0, x) => HasRow(g, x) BY <1>1, BetweenRows
<1>3. Says(e, k) BY DEF Rebinding
<1>4. e.canonical \in Entities /\ e.redirections \in SUBSET Redirection BY TidyParts
<1>5. CASE k.call = "edges"
  <2>1. EndpointsExist(g, k.batch)
    <3> SUFFICES ASSUME NEW u \in k.batch
                 PROVE  HasRow(g, u.edge.source) /\ HasRow(g, u.edge.target)
      BY DEF EndpointsExist
    <3>1. k \in [call : {"edges"}, batch : SUBSET EdgeUpdate] BY <1>5, CallTypes
    <3>2. u.edge \in Edge BY <3>1 DEF EdgeUpdate
    <3>3. Redirects(e, u.id) /\ u.edge = EdgeAfter(e, RedirectionOf(e, u.id))
      BY <1>3, <1>5 DEF Says, IsBinding
    <3>4. PICK d : d = RedirectionOf(e, u.id) OBVIOUS
    <3>5. d \in e.redirections BY <3>3, <3>4 DEF Redirects, RedirectionOf
    <3>6. u.edge # NoEdge BY <3>2, NoEdgeAssumption
    <3>7. HasRow(g0, u.edge.source) /\ HasRow(g0, u.edge.target)
      BY <3>3, <3>4, <3>5, <3>6 DEF Grounded, EdgeAfter
    <3>8. u.edge.source \in Entities /\ u.edge.target \in Entities BY <3>2 DEF Edge
    <3> QED BY <1>2, <3>7, <3>8
  <2> QED BY <1>5, <2>1 DEF Poisons
<1>6. CASE k.call = "fields"
  <2>1. k.entity = e.canonical BY <1>3, <1>6 DEF Says, IsBinding
  <2>2. HasRow(g, k.entity) BY <1>2, <1>4, <2>1 DEF Grounded
  <2> QED BY <1>6, <2>2 DEF Poisons
<1>7. CASE k.call \notin {"edges", "fields"} BY <1>3, <1>7 DEF Poisons, Says, IsBinding
<1> QED BY <1>5, <1>6, <1>7

-----------------------------------------------------------------------------
(* A document being handled *)

(* Edges whose last word is not what the retractions leave. *)
Rewritten(g, e) == Collapsed(g, e.claims) \union Written(g, e)

ResolveCall(e) == [call |-> "resolve", claims |-> e.claims]
EdgesCall(g, e) == [call |-> "edges", batch |-> ResolvedBatch(g, e.claims)]

DeletedBy(calls, c) == \E k \in calls : k.call = "delete" /\ k.id = c

(* Before its claims are resolved: an edge on a retracted entity is to be
   deleted, or to be found by the call that retracts the entity. *)
Clearing(e, g0, g, a, b) ==
  /\ \A c \in Rewritten(g0, e) : EdgeBetween(e, g0, g, c)
  /\ \A c \in Claims \ Rewritten(g0, e) :
       /\ \/ g.rels[c] = EdgeMeant(g0, e, c)
          \/ /\ g.rels[c] = g0.rels[c] /\ g.rels[c] # NoEdge
             /\ DeletedBy(a, c) \/ \E k \in b : Touches(g.rels[c], {k.entity})
       /\ DeletedBy(a, c) => EdgeMeant(g0, e, c) = NoEdge

(* Afterwards: only edges that became loops are still to be deleted. *)
Applying(e, g0, g, a) ==
  /\ \A k \in a : k.call = "delete"
  /\ \A c \in Collapsed(g0, e.claims) :
       g.rels[c] = NoEdge \/ (g.rels[c] = g0.rels[c] /\ DeletedBy(a, c))
  /\ \A c \in Written(g0, e) : EdgeBetween(e, g0, g, c)
  /\ \A c \in Claims \ Rewritten(g0, e) : g.rels[c] = EdgeMeant(g0, e, c)
  /\ \A c \in Claims \ Collapsed(g0, e.claims) : ~ DeletedBy(a, c)

Recording(e, g0, g, a, b, c) ==
  /\ g.aliases = g0.aliases
  /\ \A k \in a : k.call = "delete" \/ (k.call = "rows" /\ k.entities = e.entities)
  /\ \A k \in b : k.call = "retract" /\ k.entity \in e.retracted
  /\ \A x \in Entities :
       \/ g.rows[x] = RowMeant(g0, e, x)
       \/ /\ g.rows[x] = g0.rows[x]
          /\ \/ x \in e.entities /\ \E k \in a : k.call = "rows"
             \/ x \in e.retracted /\ \E k \in b : k.entity = x
  /\ \/ c = {ResolveCall(e)} /\ Clearing(e, g0, g, a, b)
     \/ c = {EdgesCall(g0, e)} /\ b = {} /\ Applying(e, g0, g, a)
     \/ /\ a = {} /\ b = {} /\ c = {}
        /\ \A id \in Claims : g.rels[id] = EdgeMeant(g0, e, id)

LEMMA DocumentEdges ==
  ASSUME NEW g \in Graph, NEW e, EventTidy(e), e.type = "extracted"
  PROVE  /\ Collapsed(g, e.claims) \in SUBSET Claims /\ Written(g, e) \in SUBSET Claims
         /\ \A c \in Collapsed(g, e.claims) : EdgeMeant(g, e, c) = NoEdge /\ c \notin Written(g, e)
         /\ \A c \in Written(g, e) : EdgeMeant(g, e, c) = ResolvedEdge(g, c)
         /\ \A c \in Claims \ Rewritten(g, e) : EdgeMeant(g, e, c) = ClearedEdge(g, e, c)
         /\ Applies(g, e) => Written(g, e) = e.claims \ Collapsed(g, e.claims)
         /\ ~ Applies(g, e) => Written(g, e) = {}
<1>1. e.claims \in SUBSET Claims BY TidyParts
<1>2. \A c : EdgeMeant(g, e, c) = ExtractedEdge(g, e, c) BY DEF EdgeMeant
<1> QED BY <1>1, <1>2 DEF Collapsed, Written, ExtractedEdge, Rewritten

LEMMA DocumentRows ==
  ASSUME NEW g \in Graph, NEW e, EventTidy(e), e.type = "extracted", NEW x \in Entities
  PROVE  /\ RowMeant(g, e, x) = ExtractedRow(g, e, x) /\ AliasMeant(g, e, x) = g.aliases[x]
         /\ x \in e.entities => RowMeant(g, e, x) = {x} /\ x \notin e.retracted
         /\ x \notin e.entities => (RowMeant(g, e, x) # {} <=> g.rows[x] # {})
         /\ x \in e.retracted => RowMeant(g, e, x) = IF g.rows[x] = {} THEN {}
                                                     ELSE g.rows[x] \union {Retracted}
<1>1. e.entities \intersect e.retracted = {} BY TidyParts
<1> QED BY <1>1 DEF RowMeant, AliasMeant, ExtractedRow

LEMMA RecordingBetween ==
  ASSUME NEW e, NEW g0 \in Graph, NEW g, NEW a, NEW b, NEW c, EventTidy(e),
         e.type = "extracted", Recording(e, g0, g, a, b, c)
  PROVE  Between(e, g0, g)
<1>1. \A x \in Entities : g.rows[x] = g0.rows[x] \/ g.rows[x] = RowMeant(g0, e, x)
  BY DEF Recording
<1>2. \A x \in Entities : g.aliases[x] = g0.aliases[x] BY DEF Recording
<1>3. ASSUME NEW id \in Claims PROVE EdgeBetween(e, g0, g, id)
  <2>1. CASE Clearing(e, g0, g, a, b) BY <2>1 DEF Clearing, EdgeBetween
  <2>2. CASE Applying(e, g0, g, a)
    <3>1. \A d \in Collapsed(g0, e.claims) : EdgeMeant(g0, e, d) = NoEdge BY DocumentEdges
    <3> QED BY <2>2, <3>1 DEF Applying, Rewritten, EdgeBetween
  <2>3. CASE \A d \in Claims : g.rels[d] = EdgeMeant(g0, e, d) BY <2>3 DEF EdgeBetween
  <2> QED BY <2>1, <2>2, <2>3 DEF Recording
<1> QED BY <1>1, <1>2, <1>3 DEF Between

LEMMA RecordingEnds ==
  ASSUME NEW g \in Graph, NEW g0 \in Graph, NEW e, EventTidy(e), e.type = "extracted",
         Recording(e, g0, g, {}, {}, {})
  PROVE  g = Meant(g0, e)
<1>1. \A x \in Entities : g.aliases[x] = AliasMeant(g0, e, x)
  BY DocumentRows DEF Recording
<1>2. \A x \in Entities : g.rows[x] = RowMeant(g0, e, x) BY DEF Recording
<1>3. \A c \in Claims : g.rels[c] = EdgeMeant(g0, e, c) BY DEF Recording
<1> QED BY <1>1, <1>2, <1>3, AllMeant

LEMMA RecordingStarts ==
  ASSUME NEW g \in Graph, NEW g0 \in Graph, NEW e, EventTidy(e), e.type = "extracted",
         Between(e, g0, g),
         NEW a, a = {[call |-> "rows", entities |-> e.entities]},
         NEW b, b = {[call |-> "retract", entity |-> x] : x \in e.retracted}
  PROVE  Recording(e, g0, g, a, b, {ResolveCall(e)})
<1>1. g.aliases = g0.aliases
  <2>1. /\ g.aliases \in [Entities -> Entities \union {NotAlias}]
        /\ g0.aliases \in [Entities -> Entities \union {NotAlias}]
    BY GraphParts
  <2>2. \A x \in Entities : g.aliases[x] = g0.aliases[x] BY DocumentRows DEF Between
  <2> QED BY <2>1, <2>2
<1>2. ASSUME NEW k \in a PROVE k.call = "rows" /\ k.entities = e.entities OBVIOUS
<1>3. ASSUME NEW k \in b PROVE k.call = "retract" /\ k.entity \in e.retracted OBVIOUS
<1>4. ASSUME NEW x \in e.retracted PROVE \E k \in b : k.entity = x
  <2>1. PICK k : k = [call |-> "retract", entity |-> x] OBVIOUS
  <2>2. k \in b /\ k.entity = x BY <2>1
  <2> QED BY <2>2
<1>5. \E k \in a : k.call = "rows" OBVIOUS
<1>6. \A c : ~ DeletedBy(a, c) BY <1>2 DEF DeletedBy
<1>7. ASSUME NEW x \in Entities
      PROVE  \/ g.rows[x] = RowMeant(g0, e, x)
             \/ /\ g.rows[x] = g0.rows[x]
                /\ \/ x \in e.entities /\ \E k \in a : k.call = "rows"
                   \/ x \in e.retracted /\ \E k \in b : k.entity = x
  <2>1. CASE x \in e.entities \/ x \in e.retracted BY <1>4, <1>5, <2>1 DEF Between
  <2>2. CASE x \notin e.entities /\ x \notin e.retracted
    <3>1. RowMeant(g0, e, x) = g0.rows[x] BY <2>2, DocumentRows DEF ExtractedRow
    <3> QED BY <3>1 DEF Between
  <2> QED BY <2>1, <2>2
<1>8. Clearing(e, g0, g, a, b)
  <2>1. \A c \in Rewritten(g0, e) : EdgeBetween(e, g0, g, c)
    BY DocumentEdges DEF Between, Rewritten
  <2>2. ASSUME NEW c \in Claims \ Rewritten(g0, e), g.rels[c] # EdgeMeant(g0, e, c)
        PROVE  /\ g.rels[c] = g0.rels[c] /\ g.rels[c] # NoEdge
               /\ \E k \in b : Touches(g.rels[c], {k.entity})
    <3>1. EdgeMeant(g0, e, c) = ClearedEdge(g0, e, c) BY DocumentEdges
    <3>2. g.rels[c] = g0.rels[c] BY <2>2 DEF Between, EdgeBetween, Rewritten
    <3>3. g0.rels[c] # NoEdge /\ Touches(g0.rels[c], e.retracted)
      BY <2>2, <3>1, <3>2 DEF ClearedEdge
    <3>4. PICK x \in e.retracted : Touches(g0.rels[c], {x}) BY <3>3 DEF Touches
    <3> QED BY <1>4, <3>2, <3>3, <3>4
  <2> QED BY <1>6, <2>1, <2>2 DEF Clearing
<1> HIDE DEF Recording
<1>9. \A k \in a : k.call = "delete" \/ (k.call = "rows" /\ k.entities = e.entities) BY <1>2
<1>10. \A k \in b : k.call = "retract" /\ k.entity \in e.retracted BY <1>3
<1> QED BY <1>1, <1>7, <1>8, <1>9, <1>10 DEF Recording

LEMMA RecordingRows ==
  ASSUME NEW g \in Graph, NEW g0 \in Graph, NEW e, EventTidy(e), e.type = "extracted",
         NEW a \in SUBSET Call, NEW b, NEW c, Recording(e, g0, g, a, b, c),
         NEW k \in a, k.call = "rows", NEW h, h = Write(g, k)
  PROVE  Recording(e, g0, h, a \ {k}, b, c)
<1>1. h.rels = g.rels /\ h.aliases = g.aliases
      /\ h.rows = [x \in Entities |-> IF x \in k.entities THEN {x} ELSE g.rows[x]]
  <2>1. CallMakes(g, k, h) BY CallWrites
  <2> QED BY <2>1 DEF CallMakes
<1>2. k.entities = e.entities BY DEF Recording
<1>3. \A id : DeletedBy(a \ {k}, id) <=> DeletedBy(a, id) BY DEF DeletedBy
<1>4. ASSUME NEW x \in Entities
      PROVE  \/ h.rows[x] = RowMeant(g0, e, x)
             \/ h.rows[x] = g0.rows[x] /\ x \in e.retracted /\ \E i \in b : i.entity = x
  <2>1. CASE x \in e.entities BY <1>1, <1>2, <2>1, DocumentRows
  <2>2. CASE x \notin e.entities
    <3>1. h.rows[x] = g.rows[x] BY <1>1, <1>2, <2>2
    <3> QED BY <2>2, <3>1 DEF Recording
  <2> QED BY <2>1, <2>2
<1>5. \/ c = {ResolveCall(e)} /\ Clearing(e, g0, h, a \ {k}, b)
      \/ c = {EdgesCall(g0, e)} /\ b = {} /\ Applying(e, g0, h, a \ {k})
      \/ /\ a \ {k} = {} /\ b = {} /\ c = {}
         /\ \A id \in Claims : h.rels[id] = EdgeMeant(g0, e, id)
  <2>1. CASE c = {ResolveCall(e)} /\ Clearing(e, g0, g, a, b)
    BY <1>1, <1>3, <2>1 DEF Clearing, EdgeBetween
  <2>2. CASE c = {EdgesCall(g0, e)} /\ b = {} /\ Applying(e, g0, g, a)
    BY <2>2 DEF Applying
  <2>3. CASE a = {} BY <2>3
  <2> QED BY <2>1, <2>2, <2>3 DEF Recording
<1>6. h.aliases = g0.aliases BY <1>1 DEF Recording
<1>7. /\ \A i \in a \ {k} : i.call = "delete" \/ (i.call = "rows" /\ i.entities = e.entities)
      /\ \A i \in b : i.call = "retract" /\ i.entity \in e.retracted
  BY DEF Recording
<1> QED BY <1>4, <1>5, <1>6, <1>7 DEF Recording

LEMMA RecordingDelete ==
  ASSUME NEW g \in Graph, NEW g0 \in Graph, NEW e, EventTidy(e), e.type = "extracted",
         NEW a \in SUBSET Call, NEW b, NEW c, Recording(e, g0, g, a, b, c),
         NEW k \in a, k.call = "delete", NEW h, h = Write(g, k)
  PROVE  Recording(e, g0, h, a \ {k}, b, c)
<1>1. h.rels = [g.rels EXCEPT ![k.id] = NoEdge] /\ h.aliases = g.aliases /\ h.rows = g.rows
  <2>1. CallMakes(g, k, h) BY CallWrites
  <2> QED BY <2>1 DEF CallMakes
<1>2. g.rels \in [Claims -> Edge \union {NoEdge}] BY GraphParts
<1>3. ASSUME NEW id \in Claims
      PROVE  /\ id = k.id => h.rels[id] = NoEdge /\ DeletedBy(a, id)
             /\ id # k.id => h.rels[id] = g.rels[id]
                             /\ (DeletedBy(a \ {k}, id) <=> DeletedBy(a, id))
             /\ DeletedBy(a \ {k}, id) => DeletedBy(a, id)
  BY <1>1, <1>2 DEF DeletedBy
<1>4. ASSUME NEW x \in Entities
      PROVE  \/ h.rows[x] = RowMeant(g0, e, x)
             \/ /\ h.rows[x] = g0.rows[x]
                /\ \/ x \in e.entities /\ \E i \in a \ {k} : i.call = "rows"
                   \/ x \in e.retracted /\ \E i \in b : i.entity = x
  BY <1>1 DEF Recording
<1>d. /\ Collapsed(g0, e.claims) \in SUBSET Claims /\ Written(g0, e) \in SUBSET Claims
      /\ \A id \in Collapsed(g0, e.claims) : EdgeMeant(g0, e, id) = NoEdge
  BY DocumentEdges
<1>5. \/ c = {ResolveCall(e)} /\ Clearing(e, g0, h, a \ {k}, b)
      \/ c = {EdgesCall(g0, e)} /\ b = {} /\ Applying(e, g0, h, a \ {k})
      \/ /\ a \ {k} = {} /\ b = {} /\ c = {}
         /\ \A id \in Claims : h.rels[id] = EdgeMeant(g0, e, id)
  <2>1. CASE c = {ResolveCall(e)} /\ Clearing(e, g0, g, a, b)
    <3>1. ASSUME NEW id \in Rewritten(g0, e) PROVE EdgeBetween(e, g0, h, id)
      <4>1. CASE id = k.id
        <5>1. h.rels[id] = NoEdge BY <1>3, <1>d, <4>1 DEF Rewritten
        <5> QED BY <1>d, <5>1 DEF Rewritten, EdgeBetween
      <4>2. CASE id # k.id
        <5>1. h.rels[id] = g.rels[id] BY <1>3, <1>d, <4>2 DEF Rewritten
        <5> QED BY <2>1, <5>1 DEF Clearing, EdgeBetween
      <4> QED BY <4>1, <4>2
    <3>2. ASSUME NEW id \in Claims \ Rewritten(g0, e)
          PROVE  /\ \/ h.rels[id] = EdgeMeant(g0, e, id)
                    \/ /\ h.rels[id] = g0.rels[id] /\ h.rels[id] # NoEdge
                       /\ DeletedBy(a \ {k}, id) \/ \E i \in b : Touches(h.rels[id], {i.entity})
                 /\ DeletedBy(a \ {k}, id) => EdgeMeant(g0, e, id) = NoEdge
      BY <1>3, <2>1 DEF Clearing
    <3> QED BY <2>1, <3>1, <3>2 DEF Clearing
  <2>2. CASE c = {EdgesCall(g0, e)} /\ b = {} /\ Applying(e, g0, g, a)
    <3>1. k.id \notin Claims \/ k.id \in Collapsed(g0, e.claims)
      BY <1>3, <2>2 DEF Applying
    <3>2. \A id \in Written(g0, e) : id \notin Collapsed(g0, e.claims) BY DocumentEdges
    <3>3. \A id \in Written(g0, e) : EdgeBetween(e, g0, h, id)
      BY <1>3, <1>d, <2>2, <3>1, <3>2 DEF Applying, EdgeBetween
    <3>4. \A id \in Collapsed(g0, e.claims) :
            h.rels[id] = NoEdge \/ (h.rels[id] = g0.rels[id] /\ DeletedBy(a \ {k}, id))
      <4> TAKE id \in Collapsed(g0, e.claims)
      <4>1. id \in Claims BY <1>d
      <4>2. CASE id = k.id
        <5>1. h.rels[id] = NoEdge BY <1>3, <4>1, <4>2
        <5> QED BY <5>1
      <4>3. CASE id # k.id
        <5>1. h.rels[id] = g.rels[id] /\ (DeletedBy(a \ {k}, id) <=> DeletedBy(a, id))
          BY <1>3, <4>1, <4>3
        <5>2. g.rels[id] = NoEdge \/ (g.rels[id] = g0.rels[id] /\ DeletedBy(a, id))
          BY <2>2 DEF Applying
        <5> QED BY <5>1, <5>2
      <4> QED BY <4>2, <4>3
    <3>5. \A id \in Claims \ Rewritten(g0, e) : h.rels[id] = EdgeMeant(g0, e, id)
      BY <1>3, <2>2, <3>1 DEF Applying, Rewritten
    <3>6. \A id \in Claims \ Collapsed(g0, e.claims) : ~ DeletedBy(a \ {k}, id)
      BY <1>3, <2>2 DEF Applying
    <3>7. \A i \in a \ {k} : i.call = "delete" BY <2>2 DEF Applying
    <3> QED BY <2>2, <3>3, <3>4, <3>5, <3>6, <3>7 DEF Applying
  <2>3. CASE a = {} BY <2>3
  <2> QED BY <2>1, <2>2, <2>3 DEF Recording
<1>6. h.aliases = g0.aliases BY <1>1 DEF Recording
<1>7. /\ \A i \in a \ {k} : i.call = "delete" \/ (i.call = "rows" /\ i.entities = e.entities)
      /\ \A i \in b : i.call = "retract" /\ i.entity \in e.retracted
  BY DEF Recording
<1> QED BY <1>4, <1>5, <1>6, <1>7 DEF Recording

(* Retracting an entity finds the edges on it, the only ones on it that this
   document does not write being the ones the retraction is to clear. *)
LEMMA RecordingRetract ==
  ASSUME NEW g \in Graph, NEW g0 \in Graph, NEW e, EventTidy(e), e.type = "extracted",
         NEW b \in SUBSET Call, NEW c, Recording(e, g0, g, {}, b, c),
         NEW k \in b, NEW h, h = Write(g, k),
         NEW ds, ds = {[call |-> "delete", id |-> id] : id \in RelationshipsFor(g, {k.entity})}
  PROVE  Recording(e, g0, h, ds, b \ {k}, c)
<1>0. k.call = "retract" /\ k.entity \in e.retracted /\ k \in Call BY DEF Recording
<1>1. h.rels = g.rels /\ h.aliases = g.aliases
      /\ h.rows = IF HasRow(g, k.entity)
                  THEN [g.rows EXCEPT ![k.entity] = g.rows[k.entity] \union {Retracted}]
                  ELSE g.rows
  <2>1. CallMakes(g, k, h) BY <1>0, CallWrites
  <2> QED BY <1>0, <2>1 DEF CallMakes
<1>2. g.rows \in [Entities -> SUBSET Keys] /\ e.retracted \in SUBSET Entities
  BY GraphParts, TidyParts
<1>3. \A i \in ds : i.call = "delete" OBVIOUS
<1>4. \A id : DeletedBy(ds, id) <=> id \in RelationshipsFor(g, {k.entity})
  <2>1. ASSUME NEW id, DeletedBy(ds, id) PROVE id \in RelationshipsFor(g, {k.entity})
    BY <2>1 DEF DeletedBy
  <2>2. ASSUME NEW id \in RelationshipsFor(g, {k.entity}) PROVE DeletedBy(ds, id)
    <3>1. PICK d : d = [call |-> "delete", id |-> id] OBVIOUS
    <3>2. d \in ds /\ d.call = "delete" /\ d.id = id BY <3>1
    <3> QED BY <3>2 DEF DeletedBy
  <2> QED BY <2>1, <2>2
<1>5. ASSUME NEW x \in Entities
      PROVE  \/ h.rows[x] = RowMeant(g0, e, x)
             \/ h.rows[x] = g0.rows[x] /\ x \in e.retracted /\ \E i \in b \ {k} : i.entity = x
  <2>0. \/ g.rows[x] = RowMeant(g0, e, x)
        \/ g.rows[x] = g0.rows[x] /\ x \in e.retracted /\ \E i \in b : i.entity = x
    BY DEF Recording
  <2>1. CASE x = k.entity
    <3>1. RowMeant(g0, e, x) = IF g0.rows[x] = {} THEN {} ELSE g0.rows[x] \union {Retracted}
      BY <1>0, <2>1, DocumentRows
    <3>2. CASE HasRow(g, x)
      <4>1. h.rows[x] = g.rows[x] \union {Retracted} BY <1>1, <1>2, <2>1, <3>2
      <4> QED BY <2>0, <3>1, <3>2, <4>1 DEF HasRow
    <3>3. CASE ~ HasRow(g, x)
      <4>1. h.rows[x] = {} BY <1>1, <2>1, <3>3 DEF HasRow
      <4> QED BY <2>0, <3>1, <3>3, <4>1 DEF HasRow
    <3> QED BY <3>2, <3>3
  <2>2. CASE x # k.entity
    <3>1. h.rows[x] = g.rows[x] BY <1>1, <1>2, <2>2
    <3> QED BY <2>0, <2>2, <3>1
  <2> QED BY <2>1, <2>2
<1>6. c = {ResolveCall(e)} /\ Clearing(e, g0, g, {}, b) BY DEF Recording
<1>7. Clearing(e, g0, h, ds, b \ {k})
  <2>1. \A id \in Rewritten(g0, e) : EdgeBetween(e, g0, h, id)
    BY <1>1, <1>6 DEF Clearing, EdgeBetween
  <2>2. ASSUME NEW id \in Claims \ Rewritten(g0, e)
        PROVE  /\ \/ h.rels[id] = EdgeMeant(g0, e, id)
                  \/ /\ h.rels[id] = g0.rels[id] /\ h.rels[id] # NoEdge
                     /\ DeletedBy(ds, id) \/ \E i \in b \ {k} : Touches(h.rels[id], {i.entity})
               /\ DeletedBy(ds, id) => EdgeMeant(g0, e, id) = NoEdge
    <3>1. EdgeMeant(g0, e, id) = ClearedEdge(g0, e, id) BY DocumentEdges
    <3>2. \/ g.rels[id] = EdgeMeant(g0, e, id)
          \/ /\ g.rels[id] = g0.rels[id] /\ g.rels[id] # NoEdge
             /\ \E i \in b : Touches(g.rels[id], {i.entity})
      BY <1>6 DEF Clearing, DeletedBy
    <3>3. DeletedBy(ds, id) => EdgeMeant(g0, e, id) = NoEdge
      <4> SUFFICES ASSUME DeletedBy(ds, id) PROVE EdgeMeant(g0, e, id) = NoEdge OBVIOUS
      <4>1. g.rels[id] # NoEdge /\ Touches(g.rels[id], {k.entity})
        BY <1>4 DEF RelationshipsFor
      <4>2. Touches(g.rels[id], e.retracted) BY <1>0, <4>1 DEF Touches
      <4> QED BY <3>1, <3>2, <4>1, <4>2 DEF ClearedEdge
    <3>4. ASSUME g.rels[id] # NoEdge, Touches(g.rels[id], {k.entity}) PROVE DeletedBy(ds, id)
      BY <1>4, <3>4 DEF RelationshipsFor
    <3>5. ASSUME NEW i \in b, Touches(g.rels[id], {i.entity}), g.rels[id] # NoEdge
          PROVE  DeletedBy(ds, id) \/ \E j \in b \ {k} : Touches(g.rels[id], {j.entity})
      BY <3>4, <3>5
    <3> QED BY <1>1, <3>2, <3>3, <3>5
  <2> QED BY <2>1, <2>2 DEF Clearing
<1>8. h.aliases = g0.aliases BY <1>1 DEF Recording
<1>9. \A i \in b \ {k} : i.call = "retract" /\ i.entity \in e.retracted BY DEF Recording
<1>10. \A i \in ds : i.call = "delete" \/ (i.call = "rows" /\ i.entities = e.entities) BY <1>3
<1>11. \A x \in Entities :
         \/ h.rows[x] = RowMeant(g0, e, x)
         \/ /\ h.rows[x] = g0.rows[x]
            /\ \/ x \in e.entities /\ \E i \in ds : i.call = "rows"
               \/ x \in e.retracted /\ \E i \in b \ {k} : i.entity = x
  BY <1>5
<1> QED BY <1>6, <1>7, <1>8, <1>9, <1>10, <1>11, Zenon DEF Recording

(* Every row and every edge this document does not write is as it means. *)
LEMMA RecordingResolve ==
  ASSUME NEW g \in Graph, NEW g0 \in Graph, NEW e, EventTidy(e), e.type = "extracted",
         Recording(e, g0, g, {}, {}, {ResolveCall(e)}),
         NEW ds, ds = {[call |-> "delete", id |-> id] : id \in Collapsed(g0, e.claims)}
  PROVE  Recording(e, g0, g, ds, {}, {EdgesCall(g0, e)})
<1>1. ResolveCall(e) # EdgesCall(g0, e)
  <2>1. ResolveCall(e).call = "resolve" /\ EdgesCall(g0, e).call = "edges"
    BY DEF ResolveCall, EdgesCall
  <2> QED BY <2>1
<1>2. Clearing(e, g0, g, {}, {}) BY <1>1 DEF Recording
<1>3. \A i \in ds : i.call = "delete" OBVIOUS
<1>4. ASSUME NEW id PROVE DeletedBy(ds, id) <=> id \in Collapsed(g0, e.claims)
  <2>1. ASSUME DeletedBy(ds, id) PROVE id \in Collapsed(g0, e.claims)
    BY <2>1 DEF DeletedBy
  <2>2. ASSUME id \in Collapsed(g0, e.claims) PROVE DeletedBy(ds, id)
    <3>1. PICK d : d = [call |-> "delete", id |-> id] OBVIOUS
    <3>2. d \in ds /\ d.call = "delete" /\ d.id = id BY <2>2, <3>1
    <3> QED BY <3>2 DEF DeletedBy
  <2> QED BY <2>1, <2>2
<1>5. Applying(e, g0, g, ds)
  <2>1. ASSUME NEW id \in Collapsed(g0, e.claims)
        PROVE  g.rels[id] = NoEdge \/ (g.rels[id] = g0.rels[id] /\ DeletedBy(ds, id))
    <3>1. EdgeBetween(e, g0, g, id) BY <1>2 DEF Clearing, Rewritten
    <3>2. EdgeMeant(g0, e, id) = NoEdge BY DocumentEdges
    <3> QED BY <1>4, <3>1, <3>2 DEF EdgeBetween
  <2>2. \A id \in Written(g0, e) : EdgeBetween(e, g0, g, id) BY <1>2 DEF Clearing, Rewritten
  <2>3. \A id \in Claims \ Rewritten(g0, e) : g.rels[id] = EdgeMeant(g0, e, id)
    BY <1>2 DEF Clearing, DeletedBy
  <2> QED BY <1>3, <1>4, <2>1, <2>2, <2>3 DEF Applying
<1>6. \A x \in Entities : g.rows[x] = RowMeant(g0, e, x) BY DEF Recording
<1>7. g.aliases = g0.aliases BY DEF Recording
<1>8. \A i \in ds : i.call = "delete" \/ (i.call = "rows" /\ i.entities = e.entities) BY <1>3
<1> QED BY <1>5, <1>6, <1>7, <1>8, Zenon DEF Recording

(* The batch of a document is the same on any graph with these alias rows. *)
LEMMA SameBatch ==
  ASSUME NEW g \in Graph, NEW g0 \in Graph, g.aliases = g0.aliases,
         NEW claims \in SUBSET Claims
  PROVE  Collapsed(g, claims) = Collapsed(g0, claims)
         /\ ResolvedBatch(g, claims) = ResolvedBatch(g0, claims)
<1>1. \A c \in claims : ResolvedEdge(g, c) = ResolvedEdge(g0, c) BY ResolveAlike
<1>2. Collapsed(g, claims) = Collapsed(g0, claims) BY <1>1 DEF Collapsed
<1> QED BY <1>1, <1>2 DEF ResolvedBatch

(* The store takes the batch if it would have taken it from the fold. *)
LEMMA BatchAccepted ==
  ASSUME NEW g \in Graph, NEW g0 \in Graph, NEW e, EventTidy(e), e.type = "extracted",
         \A x \in Entities : g.rows[x] = RowMeant(g0, e, x)
  PROVE  EndpointsExist(g, ResolvedBatch(g0, e.claims)) <=> Applies(g0, e)
<1>1. e.claims \in SUBSET Claims BY TidyParts
<1>2. \A c \in e.claims : /\ ResolvedEdge(g0, c).source \in Entities
                          /\ ResolvedEdge(g0, c).target \in Entities
  BY <1>1, ClaimsAssumption, ResolveType DEF ResolvedEdge
<1>3. \A x \in Entities : g.rows[x] = ExtractedRow(g0, e, x) BY DocumentRows
<1>4. ASSUME EndpointsExist(g, ResolvedBatch(g0, e.claims)) PROVE Applies(g0, e)
  <2> SUFFICES ASSUME NEW c \in e.claims, ~ IsSelfLoop(ResolvedEdge(g0, c))
               PROVE  /\ ExtractedRow(g0, e, ResolvedEdge(g0, c).source) # {}
                      /\ ExtractedRow(g0, e, ResolvedEdge(g0, c).target) # {}
    BY DEF Applies
  <2>1. PICK u : u = [id |-> c, edge |-> ResolvedEdge(g0, c)] OBVIOUS
  <2>2. u \in ResolvedBatch(g0, e.claims) /\ u.edge = ResolvedEdge(g0, c)
    BY <2>1 DEF ResolvedBatch, Collapsed
  <2>3. HasRow(g, u.edge.source) /\ HasRow(g, u.edge.target)
    BY <1>4, <2>2 DEF EndpointsExist
  <2> QED BY <1>2, <1>3, <2>2, <2>3 DEF HasRow
<1>5. ASSUME Applies(g0, e) PROVE EndpointsExist(g, ResolvedBatch(g0, e.claims))
  <2> SUFFICES ASSUME NEW u \in ResolvedBatch(g0, e.claims)
               PROVE  HasRow(g, u.edge.source) /\ HasRow(g, u.edge.target)
    BY DEF EndpointsExist
  <2>1. PICK c \in e.claims : /\ ~ IsSelfLoop(ResolvedEdge(g0, c))
                              /\ u = [id |-> c, edge |-> ResolvedEdge(g0, c)]
    BY DEF ResolvedBatch, Collapsed
  <2>2. u.edge = ResolvedEdge(g0, c) BY <2>1
  <2> QED BY <1>2, <1>3, <1>5, <2>1, <2>2 DEF Applies, HasRow
<1> QED BY <1>4, <1>5

LEMMA RecordingEdges ==
  ASSUME NEW g \in Graph, NEW g0 \in Graph, NEW e, EventTidy(e), e.type = "extracted",
         NEW k \in Call, k = EdgesCall(g0, e), Recording(e, g0, g, {}, {}, {k}),
         NEW h, h = Write(g, k)
  PROVE  /\ ~ Poisons(g, k) => Recording(e, g0, h, {}, {}, {})
         /\ Poisons(g, k) => g = Meant(g0, e)
<1>1. k.call = "edges" /\ k.batch = ResolvedBatch(g0, e.claims) BY DEF EdgesCall
<1>2. k # ResolveCall(e)
  <2>1. ResolveCall(e).call = "resolve" BY DEF ResolveCall
  <2> QED BY <1>1, <2>1
<1>3. /\ Applying(e, g0, g, {}) /\ g.aliases = g0.aliases
      /\ \A x \in Entities : g.rows[x] = RowMeant(g0, e, x)
  BY <1>2 DEF Recording
<1>4. Poisons(g, k) <=> ~ Applies(g0, e) BY <1>1, <1>3, BatchAccepted DEF Poisons
<1>5. /\ \A c \in Collapsed(g0, e.claims) : g.rels[c] = NoEdge /\ EdgeMeant(g0, e, c) = NoEdge
      /\ \A c \in Claims \ Rewritten(g0, e) : g.rels[c] = EdgeMeant(g0, e, c)
  BY <1>3, DocumentEdges DEF Applying, DeletedBy
<1>6. ASSUME Poisons(g, k) PROVE g = Meant(g0, e)
  <2>1. Written(g0, e) = {} BY <1>4, <1>6, DocumentEdges
  <2>2. \A c \in Claims : g.rels[c] = EdgeMeant(g0, e, c) BY <1>5, <2>1 DEF Rewritten
  <2>3. \A x \in Entities : g.aliases[x] = AliasMeant(g0, e, x) BY <1>3, DocumentRows
  <2> QED BY <1>3, <2>2, <2>3, AllMeant
<1>7. ASSUME ~ Poisons(g, k) PROVE Recording(e, g0, h, {}, {}, {})
  <2>1. h.rows = g.rows /\ h.aliases = g.aliases /\ h.rels = Batched(g.rels, k.batch)
    <3>1. CallMakes(g, k, h) BY CallWrites
    <3> QED BY <1>1, <3>1 DEF CallMakes
  <2>2. /\ Written(g0, e) = e.claims \ Collapsed(g0, e.claims)
        /\ \A c \in Written(g0, e) : EdgeMeant(g0, e, c) = ResolvedEdge(g0, c)
    BY <1>4, <1>7, DocumentEdges
  <2>3. ASSUME NEW c \in Claims PROVE h.rels[c] = EdgeMeant(g0, e, c)
    <3>1. CASE c \in Written(g0, e)
      <4>1. PICK v : v = [id |-> c, edge |-> ResolvedEdge(g0, c)] OBVIOUS
      <4>2. v \in k.batch /\ v.id = c BY <1>1, <2>2, <3>1, <4>1 DEF ResolvedBatch
      <4>3. PICK u : u = CHOOSE w \in k.batch : w.id = c OBVIOUS
      <4>4. u \in k.batch /\ u.id = c BY <4>2, <4>3
      <4>5. h.rels[c] = u.edge BY <2>1, <4>2, <4>3 DEF Batched
      <4>6. u.edge = ResolvedEdge(g0, c)
        <5>1. PICK d : u = [id |-> d, edge |-> ResolvedEdge(g0, d)]
          BY <1>1, <4>4 DEF ResolvedBatch
        <5>2. u.id = d /\ u.edge = ResolvedEdge(g0, d) BY <5>1
        <5> QED BY <4>4, <5>2
      <4> QED BY <2>2, <3>1, <4>5, <4>6
    <3>2. CASE c \notin Written(g0, e)
      <4>1. ASSUME NEW u \in k.batch, u.id = c PROVE FALSE
        <5>1. PICK d \in Written(g0, e) : u = [id |-> d, edge |-> ResolvedEdge(g0, d)]
          BY <1>1, <2>2 DEF ResolvedBatch
        <5>2. u.id = d BY <5>1
        <5> QED BY <3>2, <4>1, <5>2
      <4>2. h.rels[c] = g.rels[c] BY <2>1, <4>1 DEF Batched
      <4> QED BY <1>5, <3>2, <4>2 DEF Rewritten
    <3> QED BY <3>1, <3>2
  <2>4. h.aliases = g0.aliases /\ \A x \in Entities : h.rows[x] = RowMeant(g0, e, x)
    BY <1>3, <2>1
  <2> QED BY <2>3, <2>4 DEF Recording
<1> QED BY <1>6, <1>7

-----------------------------------------------------------------------------
(* An event being handled *)

(* The graph is where the calls w left of event e bring it to what e means to
   the graph the events before left. *)
Made(e, g0, g, w) ==
  \E a, b, c \in SUBSET Call :
    /\ w = Three(a, b, c)
    /\ IF e.type = "extracted" THEN Recording(e, g0, g, a, b, c)
       ELSE Rebinding(e, g0, g, a \union b \union c)

LEMMA RebindingStarts ==
  ASSUME NEW g \in Graph, NEW g0 \in Graph, NEW e, EventTidy(e), e.type # "extracted",
         Between(e, g0, g), NEW calls,
         \A k \in calls : Says(e, k),
         \A x \in BoundBy(e) : \E k \in calls : IsBinding(k) /\ k.alias = x,
         \A c : Redirects(e, c) => \E k \in calls : Covers(k, c),
         \E k \in calls : k.call = "fields"
  PROVE  Rebinding(e, g0, g, calls)
<1>1. ASSUME NEW x \in Entities, g.aliases[x] # AliasMeant(g0, e, x)
      PROVE  g.aliases[x] = g0.aliases[x] /\ \E k \in calls : IsBinding(k) /\ k.alias = x
  <2>1. g.aliases[x] = g0.aliases[x] BY <1>1 DEF Between
  <2>2. x \in BoundBy(e) BY <1>1, <2>1 DEF AliasMeant
  <2> QED BY <2>1, <2>2
<1>2. ASSUME NEW c \in Claims, g.rels[c] # EdgeMeant(g0, e, c)
      PROVE  g.rels[c] = g0.rels[c] /\ \E k \in calls : Covers(k, c)
  <2>1. g.rels[c] = g0.rels[c] BY <1>2 DEF Between, EdgeBetween
  <2>2. Redirects(e, c) BY <1>2, <2>1 DEF EdgeMeant
  <2> QED BY <2>1, <2>2
<1>3. \A x \in Entities : g.rows[x] = g0.rows[x] \/ g.rows[x] = RowMeant(g0, e, x)
  BY DEF Between
<1> QED BY <1>1, <1>2, <1>3 DEF Rebinding

LEMMA MadeStarts ==
  ASSUME NEW g \in Graph, NEW g0 \in Graph, NEW e, EventTidy(e), Between(e, g0, g)
  PROVE  Made(e, g0, g, HandlerCalls(e))
<1>0. /\ PlainCall \in SUBSET Call /\ LegalCall \in SUBSET Call
  BY DEF PlainCall, LegalCall
<1>a. e \in Event BY DEF EventTidy
<1>1. CASE e.type = "extracted"
  <2>1. /\ e.entities \in SUBSET Entities /\ e.claims \in SUBSET Claims
        /\ e.retracted \in SUBSET Entities
    BY <1>1, TidyParts
  <2>2. PICK a : a = {[call |-> "rows", entities |-> e.entities]} OBVIOUS
  <2>3. PICK b : b = {[call |-> "retract", entity |-> x] : x \in e.retracted} OBVIOUS
  <2>4. PICK c : c = {ResolveCall(e)} OBVIOUS
  <2>5. a \in SUBSET Call /\ b \in SUBSET Call /\ c \in SUBSET Call
    BY <1>0, <2>1, <2>2, <2>3, <2>4, CallsMade DEF ResolveCall
  <2>6. HandlerCalls(e) = Three(a, b, c)
    BY <1>1, <2>2, <2>3, <2>4, Zenon DEF HandlerCalls, ExtractionCalls, ResolveCall, Three
  <2>7. Recording(e, g0, g, a, b, c) BY <1>1, <2>2, <2>3, <2>4, RecordingStarts
  <2> QED BY <1>1, <2>5, <2>6, <2>7 DEF Made
<1>2. CASE e.type = "merged"
  <2>1. /\ e.canonical \in Entities /\ e.merged \in SUBSET Entities
        /\ e.redirections \in SUBSET Redirection /\ e.after \in Row /\ OneEach(e.redirections)
        /\ BoundBy(e) = e.merged /\ BoundTo(e) = e.canonical /\ RowAfter(e) = e.after
        /\ \A d : EdgeAfter(e, d) = d.after
    BY <1>2, <1>a, EventTypes DEF MergedEvent, EventTidy, BoundBy, BoundTo, RowAfter, EdgeAfter
  <2> DEFINE Moves(d) == IF d.after = NoEdge
                         THEN [call |-> "delete", id |-> d.id]
                         ELSE [call |-> "edges", batch |-> {[id |-> d.id, edge |-> d.after]}]
  <2>2. PICK a : a = {[call |-> "alias", alias |-> x, canonical |-> e.canonical] : x \in e.merged}
    OBVIOUS
  <2>3. PICK b : b = {Moves(d) : d \in e.redirections} OBVIOUS
  <2>4. PICK f : f = [call |-> "fields", entity |-> e.canonical, row |-> e.after] OBVIOUS
  <2>5. a \in SUBSET Call BY <1>0, <2>1, <2>2, CallsMade
  <2>6. f \in Call BY <1>0, <2>1, <2>4, CallsMade
  <2>7. ASSUME NEW d \in e.redirections
        PROVE  Moves(d) \in Call /\ Says(e, Moves(d)) /\ Covers(Moves(d), d.id)
    <3>1. d.id \in Claims /\ d.after \in Edge \union {NoEdge} BY <2>1 DEF Redirection
    <3>2. Redirects(e, d.id) /\ RedirectionOf(e, d.id) = d BY <2>1, OneRedirection
    <3>3. CASE d.after = NoEdge
      <4>1. PICK m : m = Moves(d) OBVIOUS
      <4>2. m = [call |-> "delete", id |-> d.id] BY <3>3, <4>1
      <4>3. m.call = "delete" /\ m.id = d.id BY <4>2
      <4>4. m \in Call BY <1>0, <3>1, <4>2, CallsMade
      <4>5. Says(e, m) /\ Covers(m, d.id) BY <2>1, <3>2, <3>3, <4>3 DEF Says, Covers
      <4> QED BY <4>1, <4>4, <4>5
    <3>4. CASE d.after # NoEdge
      <4>1. PICK m : m = Moves(d) OBVIOUS
      <4>2. PICK u : u = [id |-> d.id, edge |-> d.after] OBVIOUS
      <4>3. m = [call |-> "edges", batch |-> {u}] BY <3>4, <4>1, <4>2
      <4>4. m.call = "edges" /\ m.batch = {u} /\ u.id = d.id /\ u.edge = d.after
        BY <4>2, <4>3
      <4>5. u \in EdgeUpdate BY <3>1, <3>4, <4>2 DEF EdgeUpdate
      <4>6. m \in Call BY <4>3, <4>5 DEF Call
      <4>7. Says(e, m) /\ Covers(m, d.id) BY <2>1, <3>2, <4>4 DEF Says, Covers
      <4> QED BY <4>1, <4>6, <4>7
    <3> QED BY <3>3, <3>4
  <2>8. HandlerCalls(e) = Three(a, b, {f})
    BY <1>2, <2>2, <2>3, <2>4, Zenon DEF HandlerCalls, MergeCalls, Three
  <2> HIDE DEF Moves
  <2>9. b \in SUBSET Call BY <2>3, <2>7
  <2>10. PICK calls : calls = a \union b \union {f} OBVIOUS
  <2>11. ASSUME NEW k \in calls PROVE Says(e, k)
    <3>1. CASE k \in a
      <4>1. PICK x \in e.merged : k = [call |-> "alias", alias |-> x, canonical |-> e.canonical]
        BY <2>2, <3>1
      <4>2. k.call = "alias" /\ k.alias = x /\ k.canonical = e.canonical BY <4>1
      <4> QED BY <2>1, <4>2 DEF Says, IsBinding, Target
    <3>2. CASE k \in b BY <2>3, <2>7, <3>2
    <3>3. CASE k = f
      <4>1. f.call = "fields" /\ f.entity = e.canonical /\ f.row = e.after BY <2>4
      <4> QED BY <2>1, <3>3, <4>1 DEF Says
    <3> QED BY <2>10, <3>1, <3>2, <3>3
  <2>12. ASSUME NEW x \in BoundBy(e) PROVE \E k \in calls : IsBinding(k) /\ k.alias = x
    <3>1. PICK k : k = [call |-> "alias", alias |-> x, canonical |-> e.canonical] OBVIOUS
    <3>2. k \in a /\ k.alias = x /\ k.call = "alias" BY <2>1, <2>2, <3>1
    <3> QED BY <2>10, <3>2 DEF IsBinding
  <2>13. ASSUME NEW c, Redirects(e, c) PROVE \E k \in calls : Covers(k, c)
    <3>1. PICK d \in e.redirections : d.id = c BY <2>13 DEF Redirects
    <3>2. Moves(d) \in b /\ Covers(Moves(d), c) BY <2>3, <2>7, <3>1
    <3> QED BY <2>10, <3>2
  <2>14. \E k \in calls : k.call = "fields" BY <2>4, <2>10
  <2>15. Rebinding(e, g0, g, calls) BY <1>2, <2>11, <2>12, <2>13, <2>14, RebindingStarts
  <2> QED BY <1>2, <2>5, <2>6, <2>8, <2>9, <2>10, <2>15 DEF Made
<1>3. CASE e.type = "undone"
  <2>1. /\ e.canonical \in Entities /\ e.unmerged \in SUBSET Entities
        /\ e.redirections \in SUBSET Redirection /\ e.before \in Row /\ OneEach(e.redirections)
        /\ BoundBy(e) = e.unmerged /\ BoundTo(e) = NotAlias /\ RowAfter(e) = e.before
        /\ \A d : EdgeAfter(e, d) = d.before
    BY <1>3, <1>a, EventTypes DEF UndoneEvent, EventTidy, BoundBy, BoundTo, RowAfter, EdgeAfter
  <2>2. PICK a : a = {[call |-> "unalias", alias |-> x] : x \in e.unmerged} OBVIOUS
  <2>3. PICK m : m = [call |-> "edges", batch |-> Restored(e.redirections)] OBVIOUS
  <2>4. PICK f : f = [call |-> "fields", entity |-> e.canonical, row |-> e.before] OBVIOUS
  <2>5. a \in SUBSET Call BY <1>0, <2>1, <2>2, CallsMade
  <2>6. f \in Call BY <1>0, <2>1, <2>4, CallsMade
  <2>7. ASSUME NEW u \in Restored(e.redirections)
        PROVE  u \in EdgeUpdate /\ Redirects(e, u.id)
               /\ u.edge = EdgeAfter(e, RedirectionOf(e, u.id))
    <3>1. PICK d \in e.redirections : u = [id |-> d.id, edge |-> d.before] BY DEF Restored
    <3>2. u.id = d.id /\ u.edge = d.before BY <3>1
    <3>3. d.id \in Claims /\ d.before \in Edge BY <2>1 DEF Redirection
    <3>4. u \in EdgeUpdate BY <3>1, <3>3 DEF EdgeUpdate
    <3> QED BY <2>1, <3>2, <3>4, OneRedirection
  <2>8. HandlerCalls(e) = Three(a, {m}, {f})
    BY <1>3, <2>2, <2>3, <2>4, Zenon DEF HandlerCalls, UndoCalls, Three
  <2>9. m \in Call
    <3>1. Restored(e.redirections) \in SUBSET EdgeUpdate BY <2>7
    <3> QED BY <2>3, <3>1 DEF Call
  <2>m. m.call = "edges" /\ m.batch = Restored(e.redirections) BY <2>3
  <2>10. PICK calls : calls = a \union {m} \union {f} OBVIOUS
  <2>11. ASSUME NEW k \in calls PROVE Says(e, k)
    <3>1. CASE k \in a
      <4>1. PICK x \in e.unmerged : k = [call |-> "unalias", alias |-> x] BY <2>2, <3>1
      <4>2. k.call = "unalias" /\ k.alias = x BY <4>1
      <4> QED BY <2>1, <4>2 DEF Says, IsBinding, Target
    <3>2. CASE k = m BY <2>7, <2>m, <3>2 DEF Says
    <3>3. CASE k = f
      <4>1. f.call = "fields" /\ f.entity = e.canonical /\ f.row = e.before BY <2>4
      <4> QED BY <2>1, <3>3, <4>1 DEF Says
    <3> QED BY <2>10, <3>1, <3>2, <3>3
  <2>12. ASSUME NEW x \in BoundBy(e) PROVE \E k \in calls : IsBinding(k) /\ k.alias = x
    <3>1. PICK k : k = [call |-> "unalias", alias |-> x] OBVIOUS
    <3>2. k \in a /\ k.alias = x /\ k.call = "unalias" BY <2>1, <2>2, <3>1
    <3> QED BY <2>10, <3>2 DEF IsBinding
  <2>13. ASSUME NEW c, Redirects(e, c) PROVE \E k \in calls : Covers(k, c)
    <3>1. PICK d \in e.redirections : d.id = c BY <2>13 DEF Redirects
    <3>2. PICK u : u = [id |-> d.id, edge |-> d.before] OBVIOUS
    <3>3. u \in m.batch /\ u.id = c BY <2>m, <3>1, <3>2 DEF Restored
    <3>4. Covers(m, c) BY <2>m, <3>3 DEF Covers
    <3> QED BY <2>10, <3>4
  <2>14. \E k \in calls : k.call = "fields" BY <2>4, <2>10
  <2>15. Rebinding(e, g0, g, calls) BY <1>3, <2>11, <2>12, <2>13, <2>14, RebindingStarts
  <2> QED BY <1>3, <2>5, <2>6, <2>8, <2>9, <2>10, <2>15 DEF Made
<1> QED BY <1>1, <1>2, <1>3, TidyParts

LEMMA MadeBetween ==
  ASSUME NEW e, NEW g0 \in Graph, NEW g, NEW w, EventTidy(e), Made(e, g0, g, w)
  PROVE  Between(e, g0, g)
<1>1. PICK a, b, c \in SUBSET Call :
        IF e.type = "extracted" THEN Recording(e, g0, g, a, b, c)
        ELSE Rebinding(e, g0, g, a \union b \union c)
  BY DEF Made
<1> QED BY <1>1, RecordingBetween, RebindingBetween

LEMMA MadeEnds ==
  ASSUME NEW g \in Graph, NEW g0 \in Graph, NEW e, EventTidy(e), Made(e, g0, g, <<>>)
  PROVE  g = Meant(g0, e)
<1>1. PICK a, b, c \in SUBSET Call :
        /\ <<>> = Three(a, b, c)
        /\ IF e.type = "extracted" THEN Recording(e, g0, g, a, b, c)
           ELSE Rebinding(e, g0, g, a \union b \union c)
  BY DEF Made
<1>2. a = {} /\ b = {} /\ c = {} BY <1>1, NoStages
<1>3. CASE e.type = "extracted" BY <1>1, <1>2, <1>3, RecordingEnds
<1>4. CASE e.type # "extracted"
  <2>1. Rebinding(e, g0, g, {}) BY <1>1, <1>2, <1>4
  <2> QED BY <2>1, RebindingEnds
<1> QED BY <1>3, <1>4

LEMMA CallFollowUps ==
  ASSUME NEW g \in Graph, NEW k \in Call
  PROVE  /\ FollowUps(g, k) \in Seq(SUBSET Call)
         /\ k.call \notin {"retract", "resolve"} => FollowUps(g, k) = <<>>
<1>1. CASE k.call \in {"retract", "resolve"}
  <2>1. k \in PlainCall BY <1>1 DEF PlainCall, LegalCall, IsBinding
  <2>2. PlainCall \in SUBSET Call BY DEF PlainCall, LegalCall
  <2>3. FollowUps(g, k) \in Seq(SUBSET PlainCall) BY <2>1, PlainFollowUps
  <2> QED BY <1>1, <2>2, <2>3, Widened
<1>2. CASE k.call \notin {"retract", "resolve"}
  <2>1. FollowUps(g, k) = <<>> BY <1>2, Zenon DEF FollowUps
  <2> QED BY <2>1
<1> QED BY <1>1, <1>2

LEMMA DeletesInFront ==
  ASSUME NEW S, NEW x \in SUBSET S, NEW y \in SUBSET S, NEW z \in SUBSET S
  PROVE  Stage(x) \o Three({}, y, z) = Three(x, y, z)
<1>1. PICK T : T = SUBSET S OBVIOUS
<1>2. PICK p, q, r : p = Stage(x) /\ q = Stage(y) /\ r = Stage(z) OBVIOUS
<1>3. p \in Seq(T) /\ q \in Seq(T) /\ r \in Seq(T) BY <1>1, <1>2, StageParts
<1>4. Stage({}) = <<>> BY StageParts
<1>5. Three(x, y, z) = (p \o q) \o r /\ Three({}, y, z) = (<<>> \o q) \o r
  BY <1>2, <1>4 DEF Three
<1>6. \A u, v, t \in Seq(T) : (u \o v) \o t = u \o (v \o t) BY Joins
<1>7. \A u \in Seq(T) : <<>> \o u = u BY Joins
<1>8. <<>> \o q = q BY <1>3, <1>7, Zenon
<1>9. (p \o q) \o r = p \o (q \o r) BY <1>3, <1>6, Zenon
<1> QED BY <1>2, <1>5, <1>8, <1>9, Zenon

LEMMA InFront ==
  ASSUME NEW S, NEW a \in SUBSET S, NEW b \in SUBSET S, NEW c \in SUBSET S
  PROVE  /\ <<>> \o Three(a, b, c) = Three(a, b, c)
         /\ (Stage(a) \o Stage(c)) \o Three({}, {}, {}) = Three(a, {}, c)
<1>1. PICK T : T = SUBSET S OBVIOUS
<1>2. PICK p, q, r : p = Stage(a) /\ q = Stage(b) /\ r = Stage(c) OBVIOUS
<1>3. p \in Seq(T) /\ q \in Seq(T) /\ r \in Seq(T) BY <1>1, <1>2, StageParts
<1>4. Stage({}) = <<>> BY StageParts
<1>5. /\ Three(a, b, c) = (p \o q) \o r
      /\ Three({}, {}, {}) = (<<>> \o <<>>) \o <<>> /\ Three(a, {}, c) = (p \o <<>>) \o r
  BY <1>2, <1>4 DEF Three
<1>6. p \o <<>> = p BY <1>3, Joins
<1>7. <<>> \o ((p \o q) \o r) = (p \o q) \o r BY <1>3
<1>8. (p \o r) \o ((<<>> \o <<>>) \o <<>>) = p \o r BY <1>3
<1> QED BY <1>2, <1>5, <1>6, <1>7, <1>8

LEMMA MadeGoes ==
  ASSUME NEW g \in Graph, NEW g0 \in Graph, NEW e, EventTidy(e), NEW w, w # <<>>,
         Made(e, g0, g, w), NEW k \in Head(w), ~ Poisons(g, k), NEW h, h = Write(g, k)
  PROVE  Made(e, g0, h, Remaining(g, w, k))
<1>1. PICK a, b, c \in SUBSET Call :
        /\ w = Three(a, b, c)
        /\ IF e.type = "extracted" THEN Recording(e, g0, g, a, b, c)
           ELSE Rebinding(e, g0, g, a \union b \union c)
  BY DEF Made
<1>2. k \in Call
  <2>1. PICK T : T = SUBSET Call OBVIOUS
  <2>2. PICK p, q, r : p = Stage(a) /\ q = Stage(b) /\ r = Stage(c) OBVIOUS
  <2>3. p \in Seq(T) /\ q \in Seq(T) /\ r \in Seq(T) BY <2>1, <2>2, StageParts
  <2>4. w = (p \o q) \o r BY <1>1, <2>2 DEF Three
  <2>5. w \in Seq(T) BY <2>3, <2>4
  <2>6. Head(w) \in T BY <2>5
  <2> QED BY <2>1, <2>6
<1>3. FollowUps(g, k) \in Seq(SUBSET Call) BY <1>2, CallFollowUps
<1>4. \/ /\ k \in a
         /\ Remaining(g, w, k) = FollowUps(g, k) \o Three(a \ {k}, b, c)
      \/ /\ a = {} /\ k \in b
         /\ Remaining(g, w, k) = FollowUps(g, k) \o Three({}, b \ {k}, c)
      \/ /\ a = {} /\ b = {} /\ k \in c
         /\ Remaining(g, w, k) = FollowUps(g, k) \o Three({}, {}, c \ {k})
  <2>1. Left(Remaining(g, w, k), FollowUps(g, k), k, a, b, c) BY <1>1, <1>3, ThreeStages
  <2> QED BY <2>1, Zenon DEF Left
<1>5. CASE e.type # "extracted"
  <2>1. PICK calls : calls = a \union b \union c OBVIOUS
  <2>2. calls \in SUBSET Call /\ k \in calls /\ Rebinding(e, g0, g, calls)
    BY <1>1, <1>4, <1>5, <2>1
  <2>3. Says(e, k) BY <2>2 DEF Rebinding
  <2>4. FollowUps(g, k) = <<>>
    <3>1. k.call \notin {"retract", "resolve"} BY <2>3 DEF Says, IsBinding
    <3> QED BY <1>2, <3>1, CallFollowUps
  <2>5. ASSUME NEW x \in SUBSET Call, NEW y \in SUBSET Call, NEW z \in SUBSET Call,
               Remaining(g, w, k) = FollowUps(g, k) \o Three(x, y, z),
               x \union y \union z \in SUBSET calls, calls \ {k} \in SUBSET (x \union y \union z)
        PROVE  Made(e, g0, h, Remaining(g, w, k))
    <3>1. Remaining(g, w, k) = Three(x, y, z) BY <2>4, <2>5, InFront
    <3>2. PICK rest : rest = x \union y \union z OBVIOUS
    <3>3. Rebinding(e, g0, h, rest) BY <1>5, <2>2, <2>5, <3>2, RebindingGoes
    <3> QED BY <1>5, <3>1, <3>2, <3>3 DEF Made
  <2>6. CASE k \in a /\ Remaining(g, w, k) = FollowUps(g, k) \o Three(a \ {k}, b, c)
    <3>1. /\ a \ {k} \in SUBSET Call /\ (a \ {k}) \union b \union c \in SUBSET calls
          /\ calls \ {k} \in SUBSET ((a \ {k}) \union b \union c)
      BY <2>1
    <3> QED BY <2>5, <2>6, <3>1
  <2>7. CASE a = {} /\ Remaining(g, w, k) = FollowUps(g, k) \o Three({}, b \ {k}, c)
    <3>1. /\ b \ {k} \in SUBSET Call /\ {} \union (b \ {k}) \union c \in SUBSET calls
          /\ calls \ {k} \in SUBSET ({} \union (b \ {k}) \union c)
      BY <2>1, <2>7
    <3>2. PICK x, y, z : x = {} /\ y = b \ {k} /\ z = c OBVIOUS
    <3>3. x \in SUBSET Call /\ y \in SUBSET Call /\ z \in SUBSET Call BY <3>1, <3>2
    <3>4. x \union y \union z \in SUBSET calls /\ calls \ {k} \in SUBSET (x \union y \union z)
      BY <3>1, <3>2
    <3>5. Remaining(g, w, k) = FollowUps(g, k) \o Three(x, y, z) BY <2>7, <3>2
    <3> QED BY <2>5, <3>3, <3>4, <3>5
  <2>8. CASE a = {} /\ b = {}
             /\ Remaining(g, w, k) = FollowUps(g, k) \o Three({}, {}, c \ {k})
    <3>1. /\ c \ {k} \in SUBSET Call /\ {} \union {} \union (c \ {k}) \in SUBSET calls
          /\ calls \ {k} \in SUBSET ({} \union {} \union (c \ {k}))
      BY <2>1, <2>8
    <3>2. PICK x, y, z : x = {} /\ y = {} /\ z = c \ {k} OBVIOUS
    <3>3. x \in SUBSET Call /\ y \in SUBSET Call /\ z \in SUBSET Call BY <3>1, <3>2
    <3>4. x \union y \union z \in SUBSET calls /\ calls \ {k} \in SUBSET (x \union y \union z)
      BY <3>1, <3>2
    <3>5. Remaining(g, w, k) = FollowUps(g, k) \o Three(x, y, z) BY <2>8, <3>2
    <3> QED BY <2>5, <3>3, <3>4, <3>5
  <2> QED BY <1>4, <2>6, <2>7, <2>8
<1>6. CASE e.type = "extracted"
  <2>1. Recording(e, g0, g, a, b, c) BY <1>1, <1>6
  <2>2. ASSUME NEW x \in SUBSET Call, NEW y \in SUBSET Call, NEW z \in SUBSET Call,
               Remaining(g, w, k) = Three(x, y, z), Recording(e, g0, h, x, y, z)
        PROVE  Made(e, g0, h, Remaining(g, w, k))
    BY <1>6, <2>2 DEF Made
  <2>3. CASE k \in a /\ Remaining(g, w, k) = FollowUps(g, k) \o Three(a \ {k}, b, c)
    <3>1. k.call = "delete" \/ k.call = "rows" BY <2>1, <2>3 DEF Recording
    <3>2. FollowUps(g, k) = <<>> BY <1>2, <3>1, CallFollowUps
    <3>3. Remaining(g, w, k) = Three(a \ {k}, b, c) BY <2>3, <3>2, InFront
    <3>4. Recording(e, g0, h, a \ {k}, b, c)
      BY <1>6, <2>1, <2>3, <3>1, RecordingDelete, RecordingRows
    <3> QED BY <2>2, <3>3, <3>4
  <2>4. CASE a = {} /\ k \in b
             /\ Remaining(g, w, k) = FollowUps(g, k) \o Three({}, b \ {k}, c)
    <3>1. k.call = "retract" BY <2>1, <2>4 DEF Recording
    <3>2. PICK ds : ds = {[call |-> "delete", id |-> id] : id \in RelationshipsFor(g, {k.entity})}
      OBVIOUS
    <3>3. ds \in SUBSET Call
      <4>1. RelationshipsFor(g, {k.entity}) \in SUBSET Claims BY DEF RelationshipsFor
      <4>2. PlainCall \in SUBSET Call BY DEF PlainCall, LegalCall
      <4> QED BY <3>2, <4>1, <4>2, CallsMade
    <3>4. FollowUps(g, k) = Stage(ds)
      BY <3>1, <3>2, Zenon DEF FollowUps, Deletes
    <3>5. Remaining(g, w, k) = Three(ds, b \ {k}, c)
      <4>1. PICK y : y = b \ {k} OBVIOUS
      <4>2. y \in SUBSET Call BY <4>1
      <4>3. Stage(ds) \o Three({}, y, c) = Three(ds, y, c) BY <3>3, <4>2, DeletesInFront
      <4> QED BY <2>4, <3>4, <4>1, <4>3
    <3>6. Recording(e, g0, h, ds, b \ {k}, c) BY <1>6, <2>1, <2>4, <3>2, RecordingRetract
    <3> QED BY <2>2, <3>3, <3>5, <3>6
  <2>5. CASE a = {} /\ b = {} /\ k \in c
             /\ Remaining(g, w, k) = FollowUps(g, k) \o Three({}, {}, c \ {k})
    <3>1. c = {ResolveCall(e)} \/ c = {EdgesCall(g0, e)} BY <2>1, <2>5 DEF Recording
    <3>2. c \ {k} = {} /\ c = {k} BY <2>5, <3>1
    <3>3. CASE k = ResolveCall(e)
      <4>1. k.call = "resolve" /\ k.claims = e.claims BY <3>3 DEF ResolveCall
      <4>2. h = g BY <4>1, Zenon DEF Write
      <4>3. e.claims \in SUBSET Claims BY <1>6, TidyParts
      <4>4. PICK ds : ds = {[call |-> "delete", id |-> id] : id \in Collapsed(g0, e.claims)}
        OBVIOUS
      <4>5. PICK f : f = EdgesCall(g0, e) OBVIOUS
      <4>6. g.aliases = g0.aliases BY <2>1 DEF Recording
      <4>7. /\ Collapsed(g, e.claims) = Collapsed(g0, e.claims)
            /\ ResolvedBatch(g, e.claims) = ResolvedBatch(g0, e.claims)
        BY <4>3, <4>6, SameBatch
      <4>8. FollowUps(g, k) = Deletes(Collapsed(g, k.claims))
                 \o Stage({[call |-> "edges", batch |-> ResolvedBatch(g, k.claims)]})
        BY <4>1, Zenon DEF FollowUps
      <4>9. FollowUps(g, k) = Stage(ds) \o Stage({f})
        BY <4>1, <4>4, <4>5, <4>7, <4>8 DEF Deletes, EdgesCall
      <4>10. ds \in SUBSET Call
        <5>1. Collapsed(g0, e.claims) \in SUBSET Claims BY <4>3 DEF Collapsed
        <5>2. PlainCall \in SUBSET Call BY DEF PlainCall, LegalCall
        <5> QED BY <4>4, <5>1, <5>2, CallsMade
      <4>11. f \in Call
        <5>1. ResolvedBatch(g0, e.claims) \in SUBSET EdgeUpdate
          <6> SUFFICES ASSUME NEW x \in e.claims
                       PROVE  [id |-> x, edge |-> ResolvedEdge(g0, x)] \in EdgeUpdate
            BY DEF ResolvedBatch
          <6>1. x \in Claims /\ x[1] \in Entities /\ x[2] \in Entities
            BY <4>3, ClaimsAssumption
          <6>2. ResolvedEdge(g0, x) \in Edge BY <6>1, ResolveType DEF ResolvedEdge, Edge
          <6> QED BY <6>1, <6>2 DEF EdgeUpdate
        <5> QED BY <4>5, <5>1 DEF EdgesCall, Call
      <4>12. Remaining(g, w, k) = Three(ds, {}, {f})
        <5>1. PICK y : y = {f} OBVIOUS
        <5>2. y \in SUBSET Call /\ {} \in SUBSET Call BY <4>11, <5>1
        <5>3. (Stage(ds) \o Stage(y)) \o Three({}, {}, {}) = Three(ds, {}, y)
          BY <4>10, <5>2, InFront
        <5> QED BY <2>5, <3>2, <4>9, <5>1, <5>3
      <4>13. Recording(e, g0, h, ds, {}, {f})
        <5>1. Recording(e, g0, g, {}, {}, {ResolveCall(e)}) BY <2>1, <2>5, <3>2, <3>3
        <5> QED BY <1>6, <4>2, <4>4, <4>5, <5>1, RecordingResolve
      <4>14. {f} \in SUBSET Call /\ {} \in SUBSET Call BY <4>11
      <4> QED BY <2>2, <4>10, <4>12, <4>13, <4>14, Zenon
    <3>4. CASE k = EdgesCall(g0, e)
      <4>1. k.call = "edges" BY <3>4 DEF EdgesCall
      <4>2. FollowUps(g, k) = <<>> BY <1>2, <4>1, CallFollowUps
      <4>3. Remaining(g, w, k) = Three({}, {}, {})
        <5>1. {} \in SUBSET Call OBVIOUS
        <5>2. <<>> \o Three({}, {}, {}) = Three({}, {}, {}) BY <5>1, InFront
        <5> QED BY <2>5, <3>2, <4>2, <5>2
      <4>4. Recording(e, g0, g, {}, {}, {k}) BY <2>1, <2>5, <3>2
      <4>5. Recording(e, g0, h, {}, {}, {}) BY <1>2, <1>6, <3>4, <4>4, RecordingEdges
      <4> QED BY <2>2, <4>3, <4>5
    <3> QED BY <2>5, <3>1, <3>3, <3>4
  <2> QED BY <1>4, <2>3, <2>4, <2>5
<1> QED BY <1>5, <1>6

(* A call is refused only when all the event means has been made. *)
LEMMA MadeRefused ==
  ASSUME NEW g \in Graph, NEW g0 \in Graph, NEW e, EventTidy(e), Grounded(g0, e),
         NoAliasCycleIn(g), NEW w, w # <<>>, Made(e, g0, g, w), NEW k \in Head(w),
         Poisons(g, k)
  PROVE  g = Meant(g0, e)
<1>1. PICK a, b, c \in SUBSET Call :
        /\ w = Three(a, b, c)
        /\ IF e.type = "extracted" THEN Recording(e, g0, g, a, b, c)
           ELSE Rebinding(e, g0, g, a \union b \union c)
  BY DEF Made
<1>2. k \in Call
  <2>1. PICK T : T = SUBSET Call OBVIOUS
  <2>2. PICK p, q, r : p = Stage(a) /\ q = Stage(b) /\ r = Stage(c) OBVIOUS
  <2>3. p \in Seq(T) /\ q \in Seq(T) /\ r \in Seq(T) BY <2>1, <2>2, StageParts
  <2>4. w = (p \o q) \o r BY <1>1, <2>2 DEF Three
  <2>5. w \in Seq(T) BY <2>3, <2>4
  <2>6. Head(w) \in T BY <2>5
  <2> QED BY <2>1, <2>6
<1>3. k \in a \/ (a = {} /\ k \in b) \/ (a = {} /\ b = {} /\ k \in c)
  <2>1. FollowUps(g, k) \in Seq(SUBSET Call) BY <1>2, CallFollowUps
  <2>2. Left(Remaining(g, w, k), FollowUps(g, k), k, a, b, c) BY <1>1, <2>1, ThreeStages
  <2> QED BY <2>2 DEF Left
<1>4. k.call \in {"resolve", "edges", "fields"} BY DEF Poisons
<1>5. CASE e.type # "extracted"
  <2>1. PICK calls : calls = a \union b \union c OBVIOUS
  <2>2. calls \in SUBSET Call /\ k \in calls /\ Rebinding(e, g0, g, calls)
    BY <1>1, <1>3, <1>5, <2>1
  <2> QED BY <1>5, <2>2, RebindingAccepted
<1>6. CASE e.type = "extracted"
  <2>1. Recording(e, g0, g, a, b, c) BY <1>1, <1>6
  <2>2. a = {} /\ b = {} /\ k \in c BY <1>3, <1>4, <2>1 DEF Recording
  <2>3. c = {ResolveCall(e)} \/ c = {EdgesCall(g0, e)} BY <2>1, <2>2 DEF Recording
  <2>4. k # ResolveCall(e)
    <3> SUFFICES ASSUME k = ResolveCall(e) PROVE FALSE OBVIOUS
    <3>1. k.call = "resolve" /\ k.claims = e.claims BY DEF ResolveCall
    <3>2. e.claims \in SUBSET Claims BY <1>6, TidyParts
    <3>3. \A x \in e.claims : ~ CyclicFrom(g, x[1]) /\ ~ CyclicFrom(g, x[2])
      BY <3>2, ClaimsAssumption DEF NoAliasCycleIn
    <3> QED BY <3>1, <3>3 DEF Poisons
  <2>5. k = EdgesCall(g0, e) /\ c = {k} BY <2>2, <2>3, <2>4
  <2>6. Recording(e, g0, g, {}, {}, {k}) BY <2>1, <2>2, <2>5
  <2>7. PICK h : h = Write(g, k) OBVIOUS
  <2> QED BY <1>2, <1>6, <2>5, <2>6, <2>7, RecordingEdges
<1> QED BY <1>5, <1>6

-----------------------------------------------------------------------------
(* The fold of the log so far, and what calls plan on *)

Whole(es) == FoldOf(es)[Len(es)]

LogGrounded(es) == \A n \in 1..Len(es) : Grounded(FoldOf(es)[n - 1], es[n])

(* A plan has one entry an edge, whose ends have rows; but for the canonical. *)
PlannedOn(g, canonical, plan) ==
  /\ OneEach(plan)
  /\ \A d \in plan :
       /\ HasRow(g, d.before.source) /\ HasRow(g, d.before.target)
       /\ d.after # NoEdge =>
            \A x \in {d.after.source, d.after.target} : x = canonical \/ HasRow(g, x)

(* What a merge being made knows of the fold: what its plan was made on, and
   from its second read on, that the canonical has a row. *)
CallGrounded(g, c) ==
  c.undo = 0 /\ c.phase # "idle" =>
    /\ PlannedOn(g, c.canonical, c.plan)
    /\ c.phase # "edges" => HasRow(g, c.canonical)

GroundInv ==
  /\ LogTidy(log) /\ LogGrounded(log)
  /\ \A s \in Callers : CallGrounded(Whole(log), caller[s])

(* The graph is the fold of the events handled; or, after a restart, may be as
   far as the fold of one event more, the next to be given; or is where the
   calls left bring it to the fold. *)
FollowInv ==
  /\ work = <<>> =>
       \/ graph = FoldOf(log)[cursor]
       \/ /\ checkpoint = cursor /\ cursor < Len(log)
          /\ Between(log[cursor + 1], FoldOf(log)[cursor], graph)
  /\ work # <<>> => Made(log[cursor], FoldOf(log)[cursor - 1], graph, work)

LEMMA BetweenNothing ==
  ASSUME NEW e, NEW g
  PROVE  Between(e, g, g) /\ Between(e, g, Meant(g, e))
BY DEF Between, EdgeBetween, Meant

LEMMA GroundFacts ==
  ASSUME IInv, GroundInv
  PROVE  /\ Whole(log) \in Graph
         /\ \A n \in 0..Len(log) : FoldOf(log)[n] \in Graph
         /\ \A n \in 1..Len(log) : /\ FoldOf(log)[n - 1] \in Graph /\ EventTidy(log[n])
                                   /\ FoldOf(log)[n] = Meant(FoldOf(log)[n - 1], log[n])
                                   /\ Grounded(FoldOf(log)[n - 1], log[n])
<1>1. LogFits(log) /\ Len(log) \in Nat BY StoreFacts
<1>2. LogTidy(log) /\ LogGrounded(log) BY DEF GroundInv
<1>3. \A n \in 1..Len(log) : n - 1 \in 0..Len(log) BY <1>1
<1>4. Len(log) \in 0..Len(log) BY <1>1
<1> QED BY <1>1, <1>2, <1>3, <1>4, FoldSteps DEF Whole, LogTidy, LogGrounded

(* What has a row in the store has one in the fold of the whole log. *)
LEMMA StoredRows ==
  ASSUME IInv, GroundInv, FollowInv, NEW x \in Entities, HasRow(graph, x)
  PROVE  HasRow(Whole(log), x)
<1>0. LogFits(log) /\ LogTidy(log) /\ Len(log) \in Nat /\ cursor \in 0..Len(log)
  BY StoreFacts DEF GroundInv
<1>1. ASSUME NEW m \in 0..Len(log), HasRow(FoldOf(log)[m], x) PROVE HasRow(Whole(log), x)
  <2>1. Len(log) \in m..Len(log) BY <1>0
  <2> QED BY <1>0, <1>1, <2>1, FoldRows DEF Whole
<1>2. CASE graph = FoldOf(log)[cursor] BY <1>0, <1>1, <1>2
<1>3. ASSUME NEW n \in 1..Len(log), Between(log[n], FoldOf(log)[n - 1], graph)
      PROVE  HasRow(Whole(log), x)
  <2>1. HasRow(FoldOf(log)[n], x)
    <3>1. PICK e, g0 : e = log[n] /\ g0 = FoldOf(log)[n - 1] OBVIOUS
    <3>2. g0 \in Graph /\ EventTidy(e) /\ FoldOf(log)[n] = Meant(g0, e) BY <3>1, GroundFacts
    <3>3. HasRow(Meant(g0, e), x) BY <1>3, <3>1, <3>2, BetweenRows
    <3> QED BY <3>2, <3>3
  <2>2. n \in 0..Len(log) BY <1>0
  <2> QED BY <1>1, <2>1, <2>2
<1>4. CASE work = <<>> /\ cursor < Len(log) /\ Between(log[cursor + 1], FoldOf(log)[cursor], graph)
  <2>1. cursor + 1 \in 1..Len(log) /\ (cursor + 1) - 1 = cursor BY <1>0, <1>4
  <2> QED BY <1>3, <1>4, <2>1
<1>5. CASE work # <<>>
  <2>1. cursor \in 1..Len(log) BY <1>5, StoreFacts
  <2>2. Made(log[cursor], FoldOf(log)[cursor - 1], graph, work) BY <1>5 DEF FollowInv
  <2>3. Between(log[cursor], FoldOf(log)[cursor - 1], graph)
    BY <2>1, <2>2, GroundFacts, MadeBetween
  <2> QED BY <1>3, <2>1, <2>3
<1> QED BY <1>2, <1>4, <1>5 DEF FollowInv

LEMMA GroundedWider ==
  ASSUME NEW g, NEW h, \A x \in Entities : HasRow(g, x) => HasRow(h, x),
         NEW es, NEW c, CallFits(es, c), CallGrounded(g, c)
  PROVE  CallGrounded(h, c)
<1> SUFFICES ASSUME c.undo = 0, c.phase # "idle" PROVE CallGrounded(h, c) BY DEF CallGrounded
<1>1. c.canonical \in Entities /\ c.plan \in SUBSET Redirection BY DEF CallFits, CallerState
<1>2. \A d \in c.plan : /\ d.before.source \in Entities /\ d.before.target \in Entities
                        /\ d.after # NoEdge =>
                             d.after.source \in Entities /\ d.after.target \in Entities
  BY <1>1 DEF Redirection, Edge
<1>3. \A d \in c.plan : d.after # NoEdge =>
        \A x \in {d.after.source, d.after.target} : x = c.canonical \/ HasRow(h, x)
  BY <1>2 DEF CallGrounded, PlannedOn
<1> QED BY <1>1, <1>2, <1>3 DEF CallGrounded, PlannedOn

(* A plan has one entry an edge, whose ends have rows. *)
LEMMA PlanGrounded ==
  ASSUME NEW g, GraphFits(g), NEW canonical, NEW merged,
         NEW h, \A x \in Entities : HasRow(g, x) => HasRow(h, x),
         NEW p, p = PlanRedirections(g, canonical, merged)
  PROVE  PlannedOn(h, canonical, p)
<1> DEFINE Final(k) == Moved(g.rels[k], canonical, merged)
           relevant == RelationshipsFor(g, {canonical} \union merged)
<1>1. ASSUME NEW d \in p
      PROVE  \E c \in relevant :
               \/ /\ d = [id |-> c, before |-> g.rels[c], after |-> NoEdge]
                  /\ ~ Survives(g, canonical, merged, c)
               \/ /\ d = [id |-> c, before |-> g.rels[c], after |-> Final(c)]
                  /\ Survives(g, canonical, merged, c)
  BY DEF PlanRedirections
<1>2. ASSUME NEW c \in relevant
      PROVE  /\ HasRow(h, g.rels[c].source) /\ HasRow(h, g.rels[c].target)
             /\ \A x \in {Final(c).source, Final(c).target} : x = canonical \/ HasRow(h, x)
  <2>1. c \in Claims /\ g.rels[c] # NoEdge BY DEF RelationshipsFor
  <2>2. g.rels[c] \in Edge BY <2>1, GraphParts DEF GraphFits
  <2>3. HasRow(g, g.rels[c].source) /\ HasRow(g, g.rels[c].target)
    BY <2>1 DEF GraphFits, NoDanglingIn
  <2>4. g.rels[c].source \in Entities /\ g.rels[c].target \in Entities BY <2>2 DEF Edge
  <2>5. HasRow(h, g.rels[c].source) /\ HasRow(h, g.rels[c].target) BY <2>3, <2>4
  <2> QED BY <2>5 DEF Moved, Redirect
<1> HIDE DEF Final, relevant
<1>3. ASSUME NEW d \in p
      PROVE  /\ d.id \in relevant /\ d.before = g.rels[d.id]
             /\ d.after = IF Survives(g, canonical, merged, d.id) THEN Final(d.id) ELSE NoEdge
  BY <1>1
<1>4. OneEach(p)
  <2> SUFFICES ASSUME NEW d \in p, NEW k \in p, d.id = k.id PROVE d = k BY DEF OneEach
  <2>1. /\ d = [id |-> d.id, before |-> d.before, after |-> d.after]
        /\ k = [id |-> k.id, before |-> k.before, after |-> k.after]
    BY <1>1
  <2> QED BY <1>3, <2>1
<1> QED BY <1>2, <1>3, <1>4 DEF PlannedOn

LEMMA CallerGround ==
  ASSUME IInv, GroundInv, NEW s \in Callers, NEW n, CallGrounded(Whole(log), n),
         caller' = [caller EXCEPT ![s] = n], log' = log
  PROVE  GroundInv'
<1>1. caller \in [Callers -> CallerState] BY DEF IInv, ServiceInv
<1>2. \A t \in Callers : caller'[t] = IF t = s THEN n ELSE caller[t] BY <1>1
<1> QED BY <1>2 DEF GroundInv

LEMMA IdleGrounded == ASSUME NEW g PROVE CallGrounded(g, Idle)
BY DEF CallGrounded, Idle

LEMMA PlanGround ==
  ASSUME IInv, GroundInv, FollowInv, NEW s \in Callers, NEW canonical, NEW merged,
         NEW attempt, Plan(s, canonical, merged, attempt), log' = log
  PROVE  GroundInv'
<1>1. PICK p : p = PlanRedirections(graph, canonical, merged) OBVIOUS
<1>2. PICK n : n = [Idle EXCEPT !.phase = "edges", !.canonical = canonical,
                                !.merged = merged, !.plan = p, !.attempt = attempt]
  OBVIOUS
<1>3. Idle \in CallerState /\ Idle.undo = 0 BY DEF Idle, CallerState, Phases
<1>4. caller' = [caller EXCEPT ![s] = n] BY <1>1, <1>2 DEF Plan
<1>5. n.phase = "edges" /\ n.canonical = canonical /\ n.plan = p
  BY <1>2, <1>3, Zenon DEF CallerState
<1>6. PICK h : h = Whole(log) OBVIOUS
<1>7. \A x \in Entities : HasRow(graph, x) => HasRow(h, x) BY <1>6, StoredRows
<1>8. GraphFits(graph) BY StoreFacts
<1>9. PlannedOn(h, canonical, p) BY <1>1, <1>7, <1>8, PlanGrounded
<1>10. CallGrounded(h, n) BY <1>5, <1>9 DEF CallGrounded
<1> QED BY <1>4, <1>6, <1>10, CallerGround

LEMMA ReadEntitiesGround ==
  ASSUME IInv, GroundInv, FollowInv, NEW s \in Callers, ReadEntities(s)
  PROVE  GroundInv'
<1>1. PICK c : c = caller[s] OBVIOUS
<1>2. c.phase = "edges" /\ CallFits(log, c) /\ CallGrounded(Whole(log), c)
  BY <1>1 DEF ReadEntities, IInv, ServiceInv, GroundInv
<1>3. c \in CallerState /\ c.undo = 0 /\ c.canonical \in Entities
  BY <1>2 DEF CallFits, CallerState
<1>4. log' = log BY DEF ReadEntities
<1>5. CASE ~ HasRow(graph, c.canonical)
  <2>1. caller' = [caller EXCEPT ![s] = Idle] BY <1>1, <1>5 DEF ReadEntities
  <2> QED BY <1>4, <2>1, IdleGrounded, CallerGround
<1>6. CASE HasRow(graph, c.canonical)
  <2>1. PICK b, a : /\ b = graph.rows[c.canonical]
                    /\ a = PlanRow(graph, c.canonical, c.merged)
    OBVIOUS
  <2>2. PICK n : n = [c EXCEPT !.phase = "planned", !.before = b, !.after = a] OBVIOUS
  <2>3. n.canonical = c.canonical /\ n.plan = c.plan BY <1>3, <2>2, Zenon DEF CallerState
  <2>4. caller' = [caller EXCEPT ![s] = n] BY <1>1, <1>6, <2>1, <2>2 DEF ReadEntities
  <2>5. HasRow(Whole(log), c.canonical) BY <1>3, <1>6, StoredRows
  <2>6. CallGrounded(Whole(log), n) BY <1>2, <1>3, <2>3, <2>5 DEF CallGrounded
  <2> QED BY <1>4, <2>4, <2>6, CallerGround
<1> QED BY <1>5, <1>6

LEMMA LoadGround ==
  ASSUME IInv, GroundInv, NEW s \in Callers,
         LoadAndMerge(s) \/ \E i \in EffectiveMerges(Len(log)) : LoadAndUndo(s, i)
  PROVE  GroundInv'
<1>1. CASE LoadAndMerge(s)
  <2>1. PICK c : c = caller[s] OBVIOUS
  <2>2. c.phase = "planned" /\ CallFits(log, c) /\ CallGrounded(Whole(log), c)
    BY <1>1, <2>1 DEF LoadAndMerge, IInv, ServiceInv, GroundInv
  <2>3. c \in CallerState /\ c.undo = 0 BY <2>2 DEF CallFits
  <2>4. log' = log BY <1>1 DEF LoadAndMerge
  <2>5. CASE MergeRefused(c.canonical, c.merged)
    <3>1. caller' = [caller EXCEPT ![s] = Idle] BY <1>1, <2>1, <2>5 DEF LoadAndMerge
    <3> QED BY <2>4, <3>1, IdleGrounded, CallerGround
  <2>6. CASE ~ MergeRefused(c.canonical, c.merged)
    <3>1. PICK v : v = Version OBVIOUS
    <3>2. PICK n : n = [c EXCEPT !.phase = "loaded", !.version = v] OBVIOUS
    <3>3. n.canonical = c.canonical /\ n.plan = c.plan BY <2>3, <3>2, Zenon DEF CallerState
    <3>4. caller' = [caller EXCEPT ![s] = n] BY <1>1, <2>1, <2>6, <3>1, <3>2 DEF LoadAndMerge
    <3>5. CallGrounded(Whole(log), n) BY <2>2, <2>3, <3>3 DEF CallGrounded
    <3> QED BY <2>4, <3>4, <3>5, CallerGround
  <2> QED BY <2>5, <2>6
<1>2. ASSUME NEW i \in EffectiveMerges(Len(log)), LoadAndUndo(s, i) PROVE GroundInv'
  <2>1. PICK v : v = Version OBVIOUS
  <2>2. PICK n : n = [Idle EXCEPT !.phase = "loaded", !.undo = i, !.version = v] OBVIOUS
  <2>3. Idle \in CallerState BY DEF Idle, CallerState, Phases
  <2>4. caller' = [caller EXCEPT ![s] = n] /\ log' = log BY <1>2, <2>1, <2>2 DEF LoadAndUndo
  <2>5. n.undo = i BY <2>2, <2>3, Zenon DEF CallerState
  <2>6. i # 0
    <3>1. i \in 1..Len(log) BY DEF EffectiveMerges
    <3> QED BY <3>1, StoreFacts
  <2>7. CallGrounded(Whole(log), n) BY <2>5, <2>6 DEF CallGrounded
  <2> QED BY <2>4, <2>7, CallerGround
<1> QED BY <1>1, <1>2

(* What a call appends is one entry an edge, between entities that have rows:
   an undo's, since they had them when the merge was made. *)
LEMMA EventOfGrounded ==
  ASSUME IInv, GroundInv, NEW c, CallFits(log, c), CallGrounded(Whole(log), c),
         c.phase = "loaded", c.version = VersionAt(log, Len(log)),
         NEW e, e = EventOf(c)
  PROVE  e \in Event /\ EventTidy(e) /\ Grounded(Whole(log), e)
<1>0. LogFits(log) /\ e \in Event BY StoreFacts, EventOfFits
<1>1. CASE c.undo = 0
  <2>1. e = [type |-> "merged", canonical |-> c.canonical, merged |-> c.merged,
             redirections |-> c.plan, before |-> c.before, after |-> c.after]
    BY <1>1 DEF EventOf
  <2>2. e.type = "merged" /\ e.canonical = c.canonical /\ e.redirections = c.plan BY <2>1
  <2>3. /\ OneEach(c.plan) /\ HasRow(Whole(log), c.canonical)
        /\ \A d \in c.plan :
             /\ HasRow(Whole(log), d.before.source) /\ HasRow(Whole(log), d.before.target)
             /\ d.after # NoEdge => /\ HasRow(Whole(log), d.after.source)
                                    /\ HasRow(Whole(log), d.after.target)
    BY <1>1 DEF CallGrounded, PlannedOn
  <2> QED BY <1>0, <2>2, <2>3 DEF EventTidy, Grounded
<1>2. CASE c.undo # 0
  <2>1. PICK i, m : i = c.undo /\ m = log[i] OBVIOUS
  <2>2. i \in 1..Len(log) /\ m.type = "merged" BY <1>2, <2>1 DEF CallFits
  <2>3. e = [type |-> "undone", merge |-> i, canonical |-> m.canonical,
             unmerged |-> m.merged, redirections |-> m.redirections, before |-> m.before]
    BY <1>2, <2>1 DEF EventOf
  <2>4. e.type = "undone" /\ e.canonical = m.canonical /\ e.redirections = m.redirections
    BY <2>3
  <2>5. EventTidy(m) /\ Grounded(FoldOf(log)[i - 1], m) BY <2>1, <2>2, GroundFacts
  <2>6. OneEach(m.redirections) /\ m.redirections \in SUBSET Redirection /\ m.canonical \in Entities
    BY <2>2, <2>5, TidyParts
  <2>7. ASSUME NEW x \in Entities, HasRow(FoldOf(log)[i - 1], x) PROVE HasRow(Whole(log), x)
    <3>1. i - 1 \in 0..Len(log) /\ Len(log) \in (i - 1)..Len(log) BY <2>2, StoreFacts
    <3> QED BY <1>0, <2>7, <3>1, FoldRows DEF Whole, GroundInv
  <2>8. \A d \in m.redirections : d.before.source \in Entities /\ d.before.target \in Entities
    BY <2>6 DEF Redirection, Edge
  <2>9. HasRow(Whole(log), m.canonical)
        /\ \A d \in m.redirections : /\ HasRow(Whole(log), d.before.source)
                                     /\ HasRow(Whole(log), d.before.target)
    BY <2>2, <2>5, <2>6, <2>7, <2>8 DEF Grounded
  <2> QED BY <1>0, <2>4, <2>6, <2>9 DEF EventTidy, Grounded
<1> QED BY <1>1, <1>2

(* An event more: the folds of the events before stay, and with them what the
   calls know. *)
LEMMA AppendGround ==
  ASSUME IInv, IInv', GroundInv, NEW e, log' = Append(log, e), EventTidy(e),
         Grounded(Whole(log), e), \A s \in Callers : caller'[s] \in {caller[s], Idle}
  PROVE  /\ GroundInv'
         /\ \A n \in 0..Len(log) : FoldOf(log')[n] = FoldOf(log)[n]
<1>1. PICK es, fs : es = log /\ fs = log' OBVIOUS
<1>2. LogFits(es) /\ LogTidy(es) /\ LogGrounded(es) /\ Len(es) \in Nat /\ es \in Seq(Event)
  BY <1>1, StoreFacts DEF GroundInv
<1>3. LogFits(fs) BY <1>1 DEF IInv, ServiceInv
<1>4. fs = Append(es, e) /\ Len(fs) = Len(es) + 1 /\ fs[Len(es) + 1] = e
      /\ \A n \in 1..Len(es) : fs[n] = es[n]
  BY <1>1, <1>2
<1>5. \A n \in 1..Len(fs) : n \in 1..Len(es) \/ n = Len(es) + 1 BY <1>2, <1>4
<1>6. LogTidy(fs) BY <1>2, <1>4, <1>5 DEF LogTidy
<1>7. \A n \in 0..Len(es) : FoldOf(fs)[n] = FoldOf(es)[n] BY <1>2, <1>3, <1>4, <1>6, FoldKept
<1>8. LogGrounded(fs)
  <2> SUFFICES ASSUME NEW n \in 1..Len(fs) PROVE Grounded(FoldOf(fs)[n - 1], fs[n])
    BY DEF LogGrounded
  <2>1. n - 1 \in 0..Len(es) BY <1>2, <1>4
  <2>2. FoldOf(fs)[n - 1] = FoldOf(es)[n - 1] BY <1>7, <2>1
  <2>3. CASE n \in 1..Len(es) BY <1>2, <1>4, <2>2, <2>3 DEF LogGrounded
  <2>4. CASE n = Len(es) + 1
    <3>1. n - 1 = Len(es) /\ fs[n] = e BY <1>2, <1>4, <2>4
    <3> QED BY <1>1, <2>2, <3>1 DEF Whole
  <2> QED BY <1>5, <2>3, <2>4
<1>9. ASSUME NEW x \in Entities, HasRow(Whole(es), x) PROVE HasRow(Whole(fs), x)
  <2>1. PICK m, n : m = Len(es) /\ n = Len(fs) OBVIOUS
  <2>2. m \in 0..Len(fs) /\ n \in m..Len(fs) /\ m \in 0..Len(es) BY <1>2, <1>4, <2>1
  <2>3. HasRow(FoldOf(fs)[m], x) BY <1>7, <1>9, <2>1, <2>2 DEF Whole
  <2>4. HasRow(FoldOf(fs)[n], x) BY <1>3, <1>6, <2>2, <2>3, FoldRows
  <2> QED BY <2>1, <2>4 DEF Whole
<1>10. ASSUME NEW s \in Callers PROVE CallGrounded(Whole(fs), caller'[s])
  <2>1. CallFits(es, caller[s]) /\ CallGrounded(Whole(es), caller[s])
    BY <1>1 DEF GroundInv, IInv, ServiceInv
  <2>2. CallGrounded(Whole(fs), caller[s]) BY <1>9, <2>1, GroundedWider
  <2> QED BY <2>2, IdleGrounded
<1> QED BY <1>1, <1>6, <1>7, <1>8, <1>10 DEF GroundInv

-----------------------------------------------------------------------------
(* The store follows the fold *)

FollowsLog == IInv /\ NearInv /\ GroundInv /\ FollowInv

LEMMA InitFollows == Init => GroundInv /\ FollowInv
<1> SUFFICES ASSUME Init PROVE GroundInv /\ FollowInv OBVIOUS
<1>1. log = <<>> /\ Len(log) = 0 /\ cursor = 0 /\ work = <<>> /\ graph = EmptyGraph BY DEF Init
<1>2. LogFits(log) BY InitFits DEF IInv, ServiceInv
<1>3. \A n \in 1..Len(log) : FALSE BY <1>1
<1>4. LogTidy(log) /\ LogGrounded(log) BY <1>3 DEF LogTidy, LogGrounded
<1>5. FoldOf(log)[cursor] = graph BY <1>1, <1>2, <1>4, FoldSteps
<1>6. \A s \in Callers : caller[s] = Idle BY DEF Init
<1> QED BY <1>1, <1>4, <1>5, <1>6, IdleGrounded DEF GroundInv, FollowInv

(* The events the log has leave the store where it was. *)
LEMMA AppendFollows ==
  ASSUME IInv, FollowInv, NEW e, log' = Append(log, e),
         \A n \in 0..Len(log) : FoldOf(log')[n] = FoldOf(log)[n],
         UNCHANGED <<graph, cursor, checkpoint, work>>
  PROVE  FollowInv'
<1>1. /\ Len(log) \in Nat /\ Len(log') = Len(log) + 1
      /\ \A n \in 1..Len(log) : log'[n] = log[n]
  BY StoreFacts
<1>2. cursor \in 0..Len(log) BY StoreFacts
<1>3. FoldOf(log')[cursor] = FoldOf(log)[cursor] BY <1>2
<1>4. CASE work = <<>>
  <2>1. CASE graph = FoldOf(log)[cursor] BY <1>3, <1>4, <2>1 DEF FollowInv
  <2>2. CASE /\ checkpoint = cursor /\ cursor < Len(log)
             /\ Between(log[cursor + 1], FoldOf(log)[cursor], graph)
    <3>1. cursor + 1 \in 1..Len(log) /\ cursor < Len(log') BY <1>1, <1>2, <2>2
    <3>2. log'[cursor + 1] = log[cursor + 1] BY <1>1, <3>1
    <3>3. /\ checkpoint' = cursor' /\ cursor' < Len(log')
          /\ Between(log'[cursor' + 1], FoldOf(log')[cursor'], graph')
      BY <1>3, <2>2, <3>1, <3>2
    <3> QED BY <1>4, <3>3 DEF FollowInv
  <2> QED BY <1>4, <2>1, <2>2 DEF FollowInv
<1>5. CASE work # <<>>
  <2>1. cursor \in 1..Len(log) BY <1>5, StoreFacts
  <2>2. cursor - 1 \in 0..Len(log) BY <1>1, <2>1
  <2>3. FoldOf(log')[cursor - 1] = FoldOf(log)[cursor - 1] BY <2>2
  <2>4. log'[cursor] = log[cursor] BY <1>1, <2>1
  <2> QED BY <1>5, <2>3, <2>4 DEF FollowInv
<1> QED BY <1>4, <1>5

LEMMA ExtractFollows ==
  ASSUME FollowsLog, IInv', NEW r \in Extractions, Extract(r)
  PROVE  GroundInv' /\ FollowInv'
<1>1. PICK e : e = [type |-> "extracted", entities |-> r.entities, claims |-> r.claims,
                    retracted |-> found[r.doc] \ r.entities]
  OBVIOUS
<1>2. r.doc \in Documents /\ r.entities \in SUBSET Entities /\ r.claims \in SUBSET Claims
  BY ExtractionsAssumption
<1>3. found \in [Documents -> SUBSET Entities] BY DEF FollowsLog, IInv, ServiceInv
<1>4. e \in Event BY <1>1, <1>2, <1>3 DEF Event, ExtractedEvent
<1>5. e.type = "extracted" /\ e.entities \intersect e.retracted = {} BY <1>1
<1>6. EventTidy(e) /\ Grounded(Whole(log), e) BY <1>4, <1>5 DEF EventTidy, Grounded
<1>7. log' = Append(log, e) /\ UNCHANGED <<graph, cursor, checkpoint, work, caller>>
  BY <1>1 DEF Extract
<1>8. GroundInv' /\ \A n \in 0..Len(log) : FoldOf(log')[n] = FoldOf(log)[n]
  BY <1>6, <1>7, AppendGround DEF FollowsLog
<1> QED BY <1>7, <1>8, AppendFollows DEF FollowsLog

LEMMA SaveFollows ==
  ASSUME FollowsLog, IInv', NEW s \in Callers, Save(s)
  PROVE  GroundInv' /\ FollowInv'
<1>1. PICK c : c = caller[s] OBVIOUS
<1>2. /\ CallFits(log, c) /\ CallGrounded(Whole(log), c) /\ c.phase = "loaded"
      /\ c.version = VersionAt(log, Len(log)) /\ caller \in [Callers -> CallerState]
  BY <1>1, LogIsTheLog DEF FollowsLog, IInv, ServiceInv, GroundInv, Save
<1>3. PICK e : e = EventOf(c) OBVIOUS
<1>4. EventTidy(e) /\ Grounded(Whole(log), e)
  BY <1>2, <1>3, EventOfGrounded DEF FollowsLog
<1>5. log' = Append(log, e) /\ UNCHANGED <<graph, cursor, checkpoint, work>>
      /\ caller' = [caller EXCEPT ![s] = Idle]
  BY <1>1, <1>3 DEF Save
<1>6. \A t \in Callers : caller'[t] \in {caller[t], Idle} BY <1>2, <1>5
<1>7. GroundInv' /\ \A n \in 0..Len(log) : FoldOf(log')[n] = FoldOf(log)[n]
  BY <1>4, <1>5, <1>6, AppendGround DEF FollowsLog
<1> QED BY <1>5, <1>7, AppendFollows DEF FollowsLog

(* Every call of the event was made. *)
LEMMA HandledFollows ==
  ASSUME IInv, GroundInv, work # <<>>, log' = log, cursor' = cursor, work' = <<>>,
         graph' = Meant(FoldOf(log)[cursor - 1], log[cursor])
  PROVE  FollowInv'
<1>1. cursor \in 1..Len(log) BY StoreFacts
<1>2. graph' = FoldOf(log)[cursor] BY <1>1, GroundFacts
<1> QED BY <1>2 DEF FollowInv

LEMMA MadeFollows ==
  ASSUME IInv, GroundInv, NEW n \in 1..Len(log), log' = log, cursor' = n,
         NEW h, graph' = h, h \in Graph, NEW w, work' = w,
         Made(log[n], FoldOf(log)[n - 1], h, w)
  PROVE  FollowInv'
<1>1. PICK e, g0 : e = log[n] /\ g0 = FoldOf(log)[n - 1] OBVIOUS
<1>2. g0 \in Graph /\ EventTidy(e) /\ FoldOf(log)[n] = Meant(g0, e) BY <1>1, GroundFacts
<1>3. CASE w = <<>>
  <2>1. h = Meant(g0, e) BY <1>1, <1>2, <1>3, MadeEnds
  <2> QED BY <1>2, <1>3, <2>1 DEF FollowInv
<1>4. CASE w # <<>> BY <1>4 DEF FollowInv
<1> QED BY <1>3, <1>4

LEMMA DeliverFollows ==
  ASSUME FollowsLog, Deliver
  PROVE  FollowInv'
<1>1. /\ work = <<>> /\ cursor < Len(log) /\ cursor' = cursor + 1
      /\ log' = log /\ graph' = graph /\ work' = HandlerCalls(log[cursor + 1])
  BY DEF Deliver
<1>2. PICK n : n = cursor + 1 OBVIOUS
<1>3. n \in 1..Len(log) /\ n - 1 = cursor BY <1>1, <1>2, StoreFacts DEF FollowsLog
<1>4. PICK e, g0 : e = log[n] /\ g0 = FoldOf(log)[n - 1] OBVIOUS
<1>5. g0 \in Graph /\ EventTidy(e) BY <1>3, <1>4, GroundFacts DEF FollowsLog
<1>6. graph \in Graph BY StoreFacts DEF FollowsLog
<1>7. Between(e, g0, graph)
  <2>1. CASE graph = g0 BY <2>1, BetweenNothing
  <2>2. CASE graph # g0 BY <1>1, <1>2, <1>3, <1>4, <2>2 DEF FollowsLog, FollowInv
  <2> QED BY <2>1, <2>2
<1>8. Made(e, g0, graph, HandlerCalls(e)) BY <1>5, <1>6, <1>7, MadeStarts
<1>9. PICK w : w = HandlerCalls(e) OBVIOUS
<1> QED BY <1>1, <1>2, <1>3, <1>4, <1>6, <1>8, <1>9, MadeFollows DEF FollowsLog

LEMMA StoreCallFollows ==
  ASSUME FollowsLog, StoreCall
  PROVE  FollowInv'
<1>1. work # <<>> /\ log' = log /\ cursor' = cursor BY DEF StoreCall
<1>2. PICK k \in Head(work) : /\ ~ Poisons(graph, k) /\ graph' = Write(graph, k)
                              /\ work' = Remaining(graph, work, k)
  BY DEF StoreCall
<1>3. cursor \in 1..Len(log) /\ graph \in Graph BY <1>1, StoreFacts DEF FollowsLog
<1>4. PICK e, g0 : e = log[cursor] /\ g0 = FoldOf(log)[cursor - 1] OBVIOUS
<1>5. g0 \in Graph /\ EventTidy(e) BY <1>3, <1>4, GroundFacts DEF FollowsLog
<1>6. Made(e, g0, graph, work) BY <1>1, <1>4 DEF FollowsLog, FollowInv
<1>7. PICK h, w : h = Write(graph, k) /\ w = Remaining(graph, work, k) OBVIOUS
<1>8. Made(e, g0, h, w) BY <1>1, <1>2, <1>3, <1>5, <1>6, <1>7, MadeGoes
<1>9. h \in Graph
  <2>1. GraphFits(graph') BY StoreCallDoes DEF FollowsLog
  <2>2. graph' = h BY <1>2, <1>7
  <2> QED BY <2>1, <2>2 DEF GraphFits
<1> QED BY <1>1, <1>2, <1>3, <1>4, <1>7, <1>8, <1>9, MadeFollows DEF FollowsLog

(* An event given up was, but for the call refused, all made. *)
LEMMA DeadLetterFollows ==
  ASSUME FollowsLog, DeadLetter
  PROVE  FollowInv'
<1>1. work # <<>> /\ work' = <<>> /\ UNCHANGED <<log, cursor, graph>> BY DEF DeadLetter
<1>2. PICK k \in Head(work) : Poisons(graph, k) BY DEF DeadLetter
<1>3. cursor \in 1..Len(log) /\ graph \in Graph BY <1>1, StoreFacts DEF FollowsLog
<1>4. PICK e, g0 : e = log[cursor] /\ g0 = FoldOf(log)[cursor - 1] OBVIOUS
<1>5. g0 \in Graph /\ EventTidy(e) /\ Grounded(g0, e)
  BY <1>3, <1>4, GroundFacts DEF FollowsLog
<1>6. Made(e, g0, graph, work) BY <1>1, <1>4 DEF FollowsLog, FollowInv
<1>7. NoAliasCycleIn(graph) BY NearHolds DEF FollowsLog, NoAliasCycle
<1>8. graph = Meant(g0, e) BY <1>1, <1>2, <1>3, <1>5, <1>6, <1>7, MadeRefused
<1> QED BY <1>1, <1>4, <1>8, HandledFollows DEF FollowsLog

LEMMA RestartFollows ==
  ASSUME FollowsLog, Restart
  PROVE  FollowInv'
<1>1. work' = <<>> /\ UNCHANGED <<log, graph>> BY DEF Restart
<1>2. PICK k \in checkpoint..Handled : cursor' = k /\ checkpoint' = k BY DEF Restart
<1>3. /\ k \in Nat /\ checkpoint <= k /\ k <= cursor /\ (work # <<>> => k < cursor)
      /\ cursor <= checkpoint + 1
  BY <1>2, StoreFacts DEF Handled, NearInv, FollowsLog
<1>4. (k = cursor /\ work = <<>>) \/ (k = cursor - 1 /\ cursor \in 1..Len(log))
  BY <1>3, StoreFacts DEF FollowsLog
<1>5. CASE k = cursor /\ work = <<>>
  BY <1>1, <1>2, <1>5 DEF FollowsLog, FollowInv
<1>6. CASE k = cursor - 1 /\ cursor \in 1..Len(log)
  <2>1. k < Len(log) /\ k + 1 = cursor /\ checkpoint # cursor
    BY <1>3, <1>6, StoreFacts DEF FollowsLog
  <2>2. PICK e, g0 : e = log[cursor] /\ g0 = FoldOf(log)[k] OBVIOUS
  <2>3. g0 \in Graph /\ EventTidy(e) /\ FoldOf(log)[cursor] = Meant(g0, e)
    BY <1>6, <2>2, GroundFacts DEF FollowsLog
  <2>4. Between(e, g0, graph)
    <3>1. CASE work = <<>>
      <4>1. graph = Meant(g0, e) BY <2>1, <2>3, <3>1 DEF FollowsLog, FollowInv
      <4> QED BY <4>1, BetweenNothing
    <3>2. CASE work # <<>>
      <4>1. Made(e, g0, graph, work) BY <1>6, <2>2, <3>2 DEF FollowsLog, FollowInv
      <4> QED BY <2>3, <4>1, MadeBetween
    <3> QED BY <3>1, <3>2
  <2> QED BY <1>1, <1>2, <2>1, <2>2, <2>4 DEF FollowInv
<1> QED BY <1>4, <1>5, <1>6

LEMMA NextFollows ==
  ASSUME Lag <= 1, FollowsLog, [Next]_vars
  PROVE  FollowsLog'
<1>1. IInv' /\ NearInv' BY NextFits, NextNear DEF FollowsLog
<1>2. ASSUME UNCHANGED <<log, graph, cursor, checkpoint, work>> PROVE FollowInv'
  BY <1>2 DEF FollowsLog, FollowInv
<1>3. ASSUME UNCHANGED <<log, caller>> PROVE GroundInv'
  BY <1>3 DEF FollowsLog, GroundInv
<1>4. ASSUME NEW r \in Extractions, Extract(r) PROVE GroundInv' /\ FollowInv'
  BY <1>1, <1>4, ExtractFollows
<1>5. ASSUME NEW s \in Callers, Save(s) PROVE GroundInv' /\ FollowInv'
  BY <1>1, <1>5, SaveFollows
<1>6. CASE Deliver
  <2>1. UNCHANGED <<log, caller>> BY <1>6 DEF Deliver
  <2> QED BY <1>3, <1>6, <2>1, DeliverFollows, <1>1 DEF FollowsLog
<1>7. CASE StoreCall
  <2>1. UNCHANGED <<log, caller>> BY <1>7 DEF StoreCall
  <2> QED BY <1>3, <1>7, <2>1, StoreCallFollows, <1>1 DEF FollowsLog
<1>8. CASE DeadLetter
  <2>1. UNCHANGED <<log, caller>> BY <1>8 DEF DeadLetter
  <2> QED BY <1>3, <1>8, <2>1, DeadLetterFollows, <1>1 DEF FollowsLog
<1>9. CASE Restart
  <2>1. UNCHANGED <<log, caller>> BY <1>9 DEF Restart
  <2> QED BY <1>3, <1>9, <2>1, RestartFollows, <1>1 DEF FollowsLog
<1>10. CASE Rebuild
  <2>1. /\ log' = log /\ caller' = caller /\ graph' = EmptyGraph /\ cursor' = 0
        /\ work' = <<>>
    BY <1>10 DEF Rebuild
  <2>2. FoldOf(log)[0] = EmptyGraph BY FoldSteps, StoreFacts DEF FollowsLog, GroundInv
  <2>3. FollowInv' BY <2>1, <2>2 DEF FollowInv
  <2> QED BY <1>1, <1>3, <2>1, <2>3 DEF FollowsLog
<1>11. ASSUME NEW s \in Callers, NEW canonical, NEW merged, NEW attempt,
              Plan(s, canonical, merged, attempt),
              UNCHANGED <<log, graph, cursor, checkpoint, work>>
       PROVE  GroundInv' /\ FollowInv'
  BY <1>2, <1>11, PlanGround DEF FollowsLog
<1>12. ASSUME NEW s \in Callers, caller' = [caller EXCEPT ![s] = Idle],
              UNCHANGED <<log, graph, cursor, checkpoint, work>>
       PROVE  GroundInv' /\ FollowInv'
  BY <1>2, <1>12, IdleGrounded, CallerGround DEF FollowsLog
<1>13. ASSUME NEW s \in Callers,
              \/ \E q \in Requests : ReadEdges(s, q)
              \/ ReadEntities(s) \/ LoadAndMerge(s)
              \/ \E i \in EffectiveMerges(Len(log)) : LoadAndUndo(s, i)
              \/ SaveConflict(s) \/ Abandon(s)
       PROVE  GroundInv' /\ FollowInv'
  <2>1. UNCHANGED <<log, graph, cursor, checkpoint, work>>
    BY <1>13
    DEF ReadEdges, ReadEntities, LoadAndMerge, LoadAndUndo, SaveConflict, Abandon
  <2>2. ASSUME NEW q \in Requests, ReadEdges(s, q) PROVE GroundInv' /\ FollowInv'
    BY <1>11, <2>1, <2>2 DEF ReadEdges
  <2>3. CASE ReadEntities(s) BY <1>2, <2>1, <2>3, ReadEntitiesGround DEF FollowsLog
  <2>4. CASE LoadAndMerge(s) \/ \E i \in EffectiveMerges(Len(log)) : LoadAndUndo(s, i)
    BY <1>2, <2>1, <2>4, LoadGround DEF FollowsLog
  <2>5. CASE SaveConflict(s)
    <3>1. PICK c : c = caller[s] OBVIOUS
    <3>2. \/ Plan(s, c.canonical, c.merged, c.attempt + 1)
          \/ caller' = [caller EXCEPT ![s] = Idle]
      BY <2>5, <3>1 DEF SaveConflict
    <3> QED BY <1>11, <1>12, <2>1, <3>2
  <2>6. CASE Abandon(s) BY <1>12, <2>1, <2>6 DEF Abandon
  <2> QED BY <1>13, <2>2, <2>3, <2>4, <2>5, <2>6
<1>14. CASE UNCHANGED vars BY <1>1, <1>2, <1>3, <1>14 DEF vars, FollowsLog
<1> QED BY <1>1, <1>4, <1>5, <1>6, <1>7, <1>8, <1>9, <1>10, <1>13, <1>14 DEF Next, FollowsLog

(* Once every event is projected, the store holds what folding the log into an
   empty store gives, row by row, edge by edge: whatever raced, was redelivered,
   rebuilt, cut short by a crash, refused by the store or planned on a stale
   graph -- if the checkpoint is written whenever a handler has succeeded
   (projections/graph.py:58-64 "the final state is the log's"). *)
THEOREM StoreIsTheFold == Lag <= 1 => (Spec => []ReplayEquivalence)
<1> SUFFICES ASSUME Lag <= 1 PROVE Spec => []ReplayEquivalence OBVIOUS
<1>1. Init => FollowsLog BY InitFits, InitNear, InitFollows DEF FollowsLog
<1>2. FollowsLog /\ [Next]_vars => FollowsLog' BY NextFollows
<1>3. FollowsLog => ReplayEquivalence
  <2> SUFFICES ASSUME FollowsLog, Settled PROVE graph = FoldOf(log)[Len(log)]
    BY DEF ReplayEquivalence
  <2>1. work = <<>> /\ ~ (cursor < Len(log)) /\ cursor = Len(log)
    BY StoreFacts DEF Settled, FollowsLog
  <2> QED BY <2>1 DEF FollowsLog, FollowInv
<1> QED BY <1>1, <1>2, <1>3, PTL DEF Spec

-----------------------------------------------------------------------------
(* Merges planned on the fold they are made on *)

(* An event says what a plan made on g says; an undo, what its merge says. *)
PlannedAs(g, es, e) ==
  /\ e.type = "merged" =>
       /\ e.redirections = PlanRedirections(g, e.canonical, e.merged)
       /\ e.before = g.rows[e.canonical]
  /\ e.type = "undone" =>
       /\ e.canonical = es[e.merge].canonical /\ e.before = es[e.merge].before
       /\ e.redirections = es[e.merge].redirections

LogPlanned(es) == \A n \in 1..Len(es) : PlannedAs(FoldOf(es)[n - 1], es, es[n])

(* A log of the kind calls make that do not overlap. *)
Orderly(es) == LogFits(es) /\ LogTidy(es) /\ LogPlanned(es)

LEMMA PlanEntries ==
  ASSUME NEW g \in Graph, NEW canonical, NEW merged,
         NEW p, p = PlanRedirections(g, canonical, merged)
  PROVE  /\ \A d \in p :
              /\ d.id \in Claims /\ g.rels[d.id] # NoEdge /\ d.before = g.rels[d.id]
              /\ d.after # NoEdge => d.after = Moved(g.rels[d.id], canonical, merged)
         /\ canonical \notin merged =>
              \A c \in Claims : g.rels[c] # NoEdge /\ Touches(g.rels[c], merged) =>
                \E d \in p : d.id = c
<1> DEFINE Final(k) == Moved(g.rels[k], canonical, merged)
           relevant == RelationshipsFor(g, {canonical} \union merged)
           Dropped(k) == [id |-> k, before |-> g.rels[k], after |-> NoEdge]
           Kept(k) == [id |-> k, before |-> g.rels[k], after |-> Final(k)]
<1>1. ASSUME NEW d \in p
      PROVE  \E c \in relevant : d = Dropped(c) \/ d = Kept(c)
  BY DEF PlanRedirections
<1>2. ASSUME NEW c \in relevant,
             ~ Survives(g, canonical, merged, c) \/ Final(c) # g.rels[c]
      PROVE  Dropped(c) \in p \/ Kept(c) \in p
  BY <1>2 DEF PlanRedirections
<1>3. \A c \in relevant : c \in Claims /\ g.rels[c] # NoEdge BY DEF RelationshipsFor
<1>4. ASSUME canonical \notin merged, NEW c \in Claims, g.rels[c] # NoEdge,
             Touches(g.rels[c], merged)
      PROVE  c \in relevant /\ Final(c) # g.rels[c]
  <2>1. c \in relevant BY <1>4 DEF RelationshipsFor, Touches
  <2>2. Final(c).source \notin merged /\ Final(c).target \notin merged
    BY <1>4 DEF Moved, Redirect
  <2> QED BY <1>4, <2>1, <2>2 DEF Touches
<1> HIDE DEF Final, relevant
<1>5. ASSUME NEW d \in p
      PROVE  /\ d.id \in relevant /\ d.before = g.rels[d.id]
             /\ d.after # NoEdge => d.after = Final(d.id)
  BY <1>1
<1>6. ASSUME canonical \notin merged, NEW c \in Claims, g.rels[c] # NoEdge,
             Touches(g.rels[c], merged)
      PROVE  \E d \in p : d.id = c
  <2>1. Dropped(c) \in p \/ Kept(c) \in p BY <1>2, <1>4, <1>6
  <2> QED BY <2>1
<1> QED BY <1>3, <1>5, <1>6 DEF Final

(* What an orderly log says at one of its events. *)
LEMMA OrderlyParts ==
  ASSUME NEW es, Orderly(es), NEW n \in 1..Len(es),
         NEW g, g = FoldOf(es)[n - 1], NEW h, h = FoldOf(es)[n]
  PROVE  /\ g \in Graph /\ h \in Graph /\ h = Meant(g, es[n])
         /\ \A x \in Entities : g.aliases[x] = AliasAt(es, n - 1, x)
         /\ \A x \in Entities : h.aliases[x] = AliasAt(es, n, x)
         /\ EventTidy(es[n]) /\ EventFits(es, n - 1, es[n]) /\ PlannedAs(g, es, es[n])
<1>0. Len(es) \in Nat /\ LogFits(es) /\ LogTidy(es) BY DEF Orderly, LogFits
<1>1. n - 1 \in 0..Len(es) /\ n \in 0..Len(es) BY <1>0
<1>2. EventTidy(es[n]) BY <1>0 DEF LogTidy
<1>3. EventFits(es, n - 1, es[n]) BY <1>0 DEF LogFits
<1>4. PlannedAs(g, es, es[n]) BY DEF Orderly, LogPlanned
<1> QED BY <1>0, <1>1, <1>2, <1>3, <1>4, FoldSteps

(* The merge an undo reverses. *)
LEMMA UndoneMerge ==
  ASSUME NEW es, Orderly(es), NEW n \in 1..Len(es), es[n].type = "undone",
         NEW i, i = es[n].merge
  PROVE  /\ i \in 1..Len(es) /\ i <= n - 1 /\ es[i].type = "merged"
         /\ i \in EffectiveIn(es, n - 1) /\ i \notin EffectiveIn(es, n)
         /\ es[n].unmerged = es[i].merged /\ es[n].canonical = es[i].canonical
         /\ es[n].redirections = es[i].redirections /\ es[n].before = es[i].before
<1>0. Len(es) \in Nat BY DEF Orderly, LogFits
<1>1. EventFits(es, n - 1, es[n]) /\ PlannedAs(FoldOf(es)[n - 1], es, es[n]) BY OrderlyParts
<1>2. i \in EffectiveIn(es, n - 1) /\ es[n].unmerged = es[i].merged
  BY <1>1 DEF EventFits, UndoFits
<1>3. i \in 1..(n - 1) /\ es[i].type = "merged" BY <1>2 DEF EffectiveIn
<1>4. i \notin EffectiveIn(es, n) BY DEF EffectiveIn
<1> QED BY <1>0, <1>1, <1>2, <1>3, <1>4 DEF PlannedAs


(* Undoing a merge on the graph the merge left gives the graph it found. *)
LEMMA UndoneNext ==
  ASSUME NEW es, Orderly(es), NEW n \in 1..Len(es), es[n].type = "undone",
         NEW i, i = es[n].merge, FoldOf(es)[n - 1] = FoldOf(es)[i]
  PROVE  FoldOf(es)[n] = FoldOf(es)[i - 1]
<1>1. PICK g, h, k : g = FoldOf(es)[i - 1] /\ h = FoldOf(es)[i] /\ k = FoldOf(es)[n] OBVIOUS
<1>2. PICK m, u : m = es[i] /\ u = es[n] OBVIOUS
<1>3. /\ i \in 1..Len(es) /\ m.type = "merged" /\ u.type = "undone" /\ u.unmerged = m.merged
      /\ u.canonical = m.canonical /\ u.redirections = m.redirections /\ u.before = m.before
  BY <1>2, UndoneMerge
<1>4. /\ g \in Graph /\ h \in Graph /\ h = Meant(g, m) /\ EventTidy(m)
      /\ \A x \in Entities : g.aliases[x] = AliasAt(es, i - 1, x)
      /\ EventFits(es, i - 1, m) /\ PlannedAs(g, es, m)
  BY <1>1, <1>2, <1>3, OrderlyParts
<1>5. k \in Graph /\ k = Meant(h, u) /\ EventTidy(u) BY <1>1, <1>2, OrderlyParts
<1>6. /\ m.canonical \in Entities /\ m.merged \in SUBSET Entities
      /\ m.redirections = PlanRedirections(g, m.canonical, m.merged)
      /\ m.before = g.rows[m.canonical] /\ OneEach(m.redirections) /\ OneEach(u.redirections)
  BY <1>3, <1>4, TidyParts DEF PlannedAs, BoundBy, EventTidy
<1>7. \A x \in Entities : k.rows[x] = g.rows[x]
  BY <1>3, <1>4, <1>5, <1>6 DEF Meant, RowMeant, RowAfter
<1>8. ASSUME NEW x \in Entities PROVE k.aliases[x] = g.aliases[x]
  <2>1. CASE x \in m.merged
    <3>1. ~ AbsorbedIn(es, i - 1, x) BY <1>3, <1>4, <2>1 DEF EventFits, MergeFits
    <3>2. g.aliases[x] = NotAlias BY <1>4, <3>1 DEF AliasAt
    <3>3. k.aliases[x] = NotAlias
      BY <1>3, <1>5, <2>1 DEF Meant, AliasMeant, BoundBy, BoundTo
    <3> QED BY <3>2, <3>3
  <2>2. CASE x \notin m.merged
    BY <1>3, <1>4, <1>5, <2>2 DEF Meant, AliasMeant, BoundBy
  <2> QED BY <2>1, <2>2
<1>9. ASSUME NEW c \in Claims PROVE k.rels[c] = g.rels[c]
  <2>1. k.rels[c] = EdgeMeant(h, u, c) /\ h.rels[c] = EdgeMeant(g, m, c)
    BY <1>4, <1>5 DEF Meant
  <2>2. CASE Redirects(m, c)
    <3>1. PICK d \in m.redirections : d.id = c BY <2>2 DEF Redirects
    <3>2. Redirects(u, c) /\ RedirectionOf(u, c) = d BY <1>3, <1>6, <3>1, OneRedirection
    <3>3. d.before = g.rels[c] BY <1>4, <1>6, <3>1, PlanEntries
    <3> QED BY <1>3, <2>1, <3>2, <3>3 DEF EdgeMeant, EdgeAfter
  <2>3. CASE ~ Redirects(m, c)
    <3>1. ~ Redirects(u, c) BY <1>3, <2>3 DEF Redirects
    <3> QED BY <1>3, <2>1, <2>3, <3>1 DEF EdgeMeant
  <2> QED BY <2>2, <2>3
<1>10. k = g
  <2>1. k.rows = g.rows BY <1>4, <1>5, <1>7, GraphParts
  <2>2. k.rels = g.rels BY <1>4, <1>5, <1>9, GraphParts
  <2>3. k.aliases = g.aliases BY <1>4, <1>5, <1>8, GraphParts
  <2> QED BY <1>4, <1>5, <2>1, <2>2, <2>3, GraphParts
<1> QED BY <1>1, <1>10

-----------------------------------------------------------------------------
(* Undos taken last first *)

LatestAt(es, n) == \A k \in EffectiveIn(es, n - 1) : k <= es[n].merge

CancelledIn(es, i, n) ==
  \A k \in (i + 1)..(n - 1) :
    \/ /\ es[k].type = "merged"
       /\ \E u \in (k + 1)..(n - 1) : es[u].type = "undone" /\ es[u].merge = k
    \/ es[k].type = "undone" /\ es[k].merge > i /\ LatestAt(es, k)

(* Every merge after i and up to n was undone by then. *)
UndoneBy(es, i, n) ==
  \A k \in (i + 1)..n :
    es[k].type = "merged" =>
      \E u \in (k + 1)..n : es[u].type = "undone" /\ es[u].merge = k

(* Between merges undone last first, an undo closes a stretch that is itself
   one of merges undone last first, and what is left before it is another. *)
LEMMA Nested ==
  ASSUME NEW es, Orderly(es), NEW n \in 1..Len(es), NEW i \in 1..Len(es), CancelledIn(es, i, n),
         NEW k \in (i + 1)..(n - 1), UndoneBy(es, i, k)
  PROVE  /\ es[k].type = "undone" /\ es[k].merge \in (i + 1)..(k - 1)
         /\ CancelledIn(es, es[k].merge, k) /\ UndoneBy(es, i, es[k].merge - 1)
<1>0. Len(es) \in Nat /\ k \in 1..Len(es) /\ i \in Nat /\ n \in Nat /\ k \in Nat
      /\ i < k /\ k < n /\ n <= Len(es)
  BY DEF Orderly, LogFits
<1>1. es[k].type = "undone" /\ es[k].merge > i /\ LatestAt(es, k)
  <2>1. ~ es[k].type = "merged" BY <1>0 DEF UndoneBy
  <2> QED BY <2>1 DEF CancelledIn
<1>2. PICK m : m = es[k].merge OBVIOUS
<1>3. m \in 1..Len(es) /\ m <= k - 1 /\ m \in EffectiveIn(es, k - 1)
  BY <1>0, <1>1, <1>2, UndoneMerge
<1>4. m \in Nat /\ m \in (i + 1)..(k - 1) BY <1>0, <1>1, <1>2, <1>3
<1>5. ASSUME NEW u \in 1..(k - 1), m <= u, u # m, es[u].type = "undone", LatestAt(es, u)
      PROVE  es[u].merge > m
  <2>1. u \in 1..Len(es) /\ u \in Nat /\ m <= u - 1 BY <1>0, <1>3, <1>4, <1>5
  <2>2. m \in EffectiveIn(es, u - 1)
    BY <1>0, <1>3, <1>4, <2>1, EffectiveBefore
  <2>3. m <= es[u].merge BY <1>5, <2>2 DEF LatestAt
  <2>4. es[u].merge # m BY <1>3, <1>5 DEF EffectiveIn
  <2>5. es[u].merge \in Nat BY <1>5, <2>1, UndoneMerge
  <2> QED BY <1>4, <2>3, <2>4, <2>5
<1>6. ASSUME NEW u \in 1..(k - 1), i < u, es[u].type = "undone" PROVE LatestAt(es, u)
  BY <1>0, <1>6 DEF CancelledIn
<1>7. CancelledIn(es, m, k)
  <2> SUFFICES ASSUME NEW p \in (m + 1)..(k - 1)
               PROVE  \/ /\ es[p].type = "merged"
                         /\ \E u \in (p + 1)..(k - 1) :
                              es[u].type = "undone" /\ es[u].merge = p
                      \/ es[p].type = "undone" /\ es[p].merge > m /\ LatestAt(es, p)
    BY DEF CancelledIn
  <2>1. p \in Nat /\ p \in (i + 1)..(n - 1) /\ p \in (i + 1)..k /\ p \in 1..(k - 1)
        /\ m <= p /\ p # m
    BY <1>0, <1>4
  <2>2. CASE es[p].type = "merged"
    <3>1. PICK u \in (p + 1)..k : es[u].type = "undone" /\ es[u].merge = p
      BY <2>1, <2>2 DEF UndoneBy
    <3>2. u # k BY <1>2, <2>1, <3>1
    <3>3. u \in (p + 1)..(k - 1) BY <1>0, <2>1, <3>2
    <3> QED BY <2>2, <3>1, <3>3
  <2>3. CASE es[p].type = "undone" /\ LatestAt(es, p)
    BY <1>5, <2>1, <2>3
  <2> QED BY <2>1, <2>2, <2>3 DEF CancelledIn
<1>8. UndoneBy(es, i, m - 1)
  <2> SUFFICES ASSUME NEW p \in (i + 1)..(m - 1), es[p].type = "merged"
               PROVE  \E u \in (p + 1)..(m - 1) : es[u].type = "undone" /\ es[u].merge = p
    BY DEF UndoneBy
  <2>1. p \in Nat /\ p \in (i + 1)..k /\ p < m BY <1>0, <1>4
  <2>2. PICK u \in (p + 1)..k : es[u].type = "undone" /\ es[u].merge = p
    BY <2>1 DEF UndoneBy
  <2>3. u # k /\ u # m
    <3>1. es[m].type = "merged" BY <1>3 DEF EffectiveIn
    <3> QED BY <1>2, <2>1, <2>2, <3>1
  <2>4. u \in Nat /\ u \in 1..(k - 1) /\ i < u BY <1>0, <2>1, <2>3
  <2>5. ~ (m <= u)
    <3> SUFFICES ASSUME m <= u PROVE FALSE OBVIOUS
    <3>1. es[u].merge > m BY <1>5, <1>6, <2>2, <2>3, <2>4
    <3> QED BY <1>4, <2>1, <2>2, <3>1
  <2>6. u \in (p + 1)..(m - 1) BY <1>4, <2>1, <2>4, <2>5
  <2> QED BY <2>2, <2>6
<1> QED BY <1>1, <1>2, <1>4, <1>7, <1>8

(* Undoing a merge gives the graph back. *)
LEMMA UndoneInverts ==
  ASSUME NEW es, Orderly(es)
  PROVE  \A n \in 1..Len(es) :
           es[n].type = "undone" /\ CancelledIn(es, es[n].merge, n) =>
             FoldOf(es)[n] = FoldOf(es)[es[n].merge - 1]
<1> DEFINE Holds(n) == es[n].type = "undone" /\ CancelledIn(es, es[n].merge, n) =>
                         FoldOf(es)[n] = FoldOf(es)[es[n].merge - 1]
           Bad == {n \in 1..Len(es) : ~ Holds(n)}
<1>0. Len(es) \in Nat BY DEF Orderly, LogFits
<1> SUFFICES ASSUME Bad # {} PROVE FALSE OBVIOUS
<1>1. PICK n \in Bad : \A k \in Bad : n <= k
  <2>1. Bad \in SUBSET Nat BY <1>0
  <2> HIDE DEF Bad
  <2> QED BY <2>1, LeastNatural
<1>2. \A k \in 1..(n - 1) : Holds(k)
  <2> SUFFICES ASSUME NEW k \in 1..(n - 1), ~ Holds(k) PROVE FALSE OBVIOUS
  <2>1. k \in Bad BY <1>0
  <2>2. n <= k BY <1>1, <2>1
  <2> QED BY <1>0, <2>2
<1>3. n \in 1..Len(es) /\ es[n].type = "undone" /\ CancelledIn(es, es[n].merge, n) OBVIOUS
<1>4. PICK i : i = es[n].merge OBVIOUS
<1>5. i \in 1..Len(es) /\ i <= n - 1 BY <1>3, <1>4, UndoneMerge
<1> DEFINE Same == {k \in i..(n - 1) : FoldOf(es)[k] = FoldOf(es)[n - 1] /\ UndoneBy(es, i, k)}
<1>6. n - 1 \in Same
  <2>1. UndoneBy(es, i, n - 1)
    BY <1>3, <1>4 DEF CancelledIn, UndoneBy
  <2>2. n - 1 \in i..(n - 1) BY <1>0, <1>5
  <2> QED BY <2>1, <2>2
<1>7. PICK k \in Same : \A p \in Same : k <= p
  <2>1. Same \in SUBSET Nat BY <1>0, <1>5
  <2> HIDE DEF Same
  <2> QED BY <1>6, <2>1, LeastNatural
<1>8. k \in i..(n - 1) /\ FoldOf(es)[k] = FoldOf(es)[n - 1] /\ UndoneBy(es, i, k) OBVIOUS
<1>9. k = i
  <2> SUFFICES ASSUME k # i PROVE FALSE OBVIOUS
  <2>1. k \in (i + 1)..(n - 1) /\ k \in 1..(n - 1) /\ k \in Nat BY <1>0, <1>3, <1>5, <1>8
  <2>2. PICK m : m = es[k].merge OBVIOUS
  <2>3. es[k].type = "undone" /\ m \in (i + 1)..(k - 1) /\ CancelledIn(es, m, k)
        /\ UndoneBy(es, i, m - 1)
    BY <1>3, <1>4, <1>5, <1>8, <2>1, <2>2, Nested
  <2>4. FoldOf(es)[k] = FoldOf(es)[m - 1] BY <1>2, <2>1, <2>2, <2>3
  <2>5. m - 1 \in i..(n - 1) /\ ~ (k <= m - 1) BY <1>3, <1>5, <2>1, <2>3
  <2>6. m - 1 \in Same BY <1>8, <2>3, <2>4, <2>5
  <2> QED BY <1>7, <2>5, <2>6
<1>10. FoldOf(es)[n] = FoldOf(es)[i - 1] BY <1>3, <1>4, <1>8, <1>9, UndoneNext
<1> QED BY <1>3, <1>4, <1>10

-----------------------------------------------------------------------------
(* Edges on canonical entities *)

LEMMA EdgeEnds ==
  ASSUME NEW g \in Graph, NEW c \in Claims, g.rels[c] # NoEdge
  PROVE  /\ g.rels[c] \in Edge
         /\ g.rels[c].source \in Entities /\ g.rels[c].target \in Entities
<1>1. g.rels[c] \in Edge BY GraphParts
<1> QED BY <1>1 DEF Edge

LEMMA OnCanonicals ==
  ASSUME NEW g \in Graph
  PROVE  EdgesOnCanonicalsIn(g) <=>
           \A c \in Claims : g.rels[c] # NoEdge =>
             /\ g.aliases[g.rels[c].source] = NotAlias
             /\ g.aliases[g.rels[c].target] = NotAlias
<1>1. \A c \in Claims : g.rels[c] # NoEdge => c \in RelationshipsFor(g, Entities)
  BY EdgeEnds DEF RelationshipsFor, Touches
<1>2. \A c \in RelationshipsFor(g, Entities) : c \in Claims /\ g.rels[c] # NoEdge
  BY DEF RelationshipsFor
<1> QED BY <1>1, <1>2 DEF EdgesOnCanonicalsIn

(* A document's edges are written where its claims resolve to. *)
LEMMA ExtractedOnCanonicals ==
  ASSUME NEW g \in Graph, NEW e, EventTidy(e), e.type = "extracted",
         EdgesOnCanonicalsIn(g), NoAliasCycleIn(g), NEW h \in Graph, h = Meant(g, e)
  PROVE  EdgesOnCanonicalsIn(h)
<1> SUFFICES ASSUME NEW c \in Claims, h.rels[c] # NoEdge
             PROVE  /\ h.aliases[h.rels[c].source] = NotAlias
                    /\ h.aliases[h.rels[c].target] = NotAlias
  BY OnCanonicals
<1>1. h.rels[c] = ExtractedEdge(g, e, c) BY DEF Meant, EdgeMeant
<1>2. \A x \in Entities : h.aliases[x] = g.aliases[x] BY DEF Meant, AliasMeant
<1>3. h.rels[c].source \in Entities /\ h.rels[c].target \in Entities BY EdgeEnds
<1>4. CASE h.rels[c] = ResolvedEdge(g, c)
  <2>1. c[1] \in Entities /\ c[2] \in Entities BY ClaimsAssumption
  <2>2. g.aliases[Resolve(g, c[1])] = NotAlias /\ g.aliases[Resolve(g, c[2])] = NotAlias
    BY <2>1 DEF NoAliasCycleIn, CyclicFrom
  <2> QED BY <1>2, <1>3, <1>4, <2>2 DEF ResolvedEdge
<1>5. CASE h.rels[c] = g.rels[c]
  BY <1>2, <1>3, <1>5, OnCanonicals
<1> QED BY <1>1, <1>4, <1>5 DEF ExtractedEdge, ClearedEdge

(* A merge planned on g moves every edge off what it absorbs. *)
LEMMA MergedOnCanonicals ==
  ASSUME NEW g \in Graph, NEW e, EventTidy(e), e.type = "merged",
         EdgesOnCanonicalsIn(g), g.aliases[e.canonical] = NotAlias,
         e.canonical \notin e.merged,
         e.redirections = PlanRedirections(g, e.canonical, e.merged),
         NEW h \in Graph, h = Meant(g, e)
  PROVE  EdgesOnCanonicalsIn(h)
<1> SUFFICES ASSUME NEW c \in Claims, h.rels[c] # NoEdge
             PROVE  /\ h.aliases[h.rels[c].source] = NotAlias
                    /\ h.aliases[h.rels[c].target] = NotAlias
  BY OnCanonicals
<1>1. h.rels[c] = EdgeMeant(g, e, c) BY DEF Meant
<1>2. e.canonical \in Entities /\ OneEach(e.redirections) BY TidyParts
<1>3. \A x \in Entities : x \notin e.merged /\ g.aliases[x] = NotAlias => h.aliases[x] = NotAlias
  BY DEF Meant, AliasMeant, BoundBy
<1>4. h.aliases[e.canonical] = NotAlias BY <1>2, <1>3
<1>5. CASE Redirects(e, c)
  <2>1. PICK d \in e.redirections : d.id = c BY <1>5 DEF Redirects
  <2>2. h.rels[c] = d.after
    BY <1>1, <1>2, <1>5, <2>1, OneRedirection DEF EdgeMeant, EdgeAfter
  <2>3. g.rels[c] # NoEdge /\ h.rels[c] = Moved(g.rels[c], e.canonical, e.merged)
    BY <2>1, <2>2, PlanEntries
  <2>4. /\ g.aliases[g.rels[c].source] = NotAlias /\ g.aliases[g.rels[c].target] = NotAlias
        /\ g.rels[c].source \in Entities /\ g.rels[c].target \in Entities
    BY <2>3, OnCanonicals, EdgeEnds
  <2> QED BY <1>3, <1>4, <2>3, <2>4 DEF Moved, Redirect
<1>6. CASE ~ Redirects(e, c)
  <2>1. h.rels[c] = g.rels[c] BY <1>1, <1>6 DEF EdgeMeant
  <2>2. ~ Touches(g.rels[c], e.merged) BY <1>6, <2>1, PlanEntries DEF Redirects
  <2>3. /\ g.aliases[g.rels[c].source] = NotAlias /\ g.aliases[g.rels[c].target] = NotAlias
        /\ g.rels[c].source \in Entities /\ g.rels[c].target \in Entities
    BY <2>1, OnCanonicals, EdgeEnds
  <2> QED BY <1>3, <2>1, <2>2, <2>3 DEF Touches
<1> QED BY <1>5, <1>6

(* An undo of the latest merge leaves as aliases only what were aliases when the
   merge was made, and puts its edges back where they were then. *)
LEMMA UndoneOnCanonicals ==
  ASSUME NEW es, Orderly(es), NEW n \in 1..Len(es), es[n].type = "undone", LatestAt(es, n),
         NEW i, i = es[n].merge,
         EdgesOnCanonicalsIn(FoldOf(es)[n - 1]), EdgesOnCanonicalsIn(FoldOf(es)[i - 1])
  PROVE  EdgesOnCanonicalsIn(FoldOf(es)[n])
<1>1. PICK f, g, h : f = FoldOf(es)[i - 1] /\ g = FoldOf(es)[n - 1] /\ h = FoldOf(es)[n] OBVIOUS
<1>2. PICK m, u : m = es[i] /\ u = es[n] OBVIOUS
<1>0. Len(es) \in Nat /\ LogFits(es) BY DEF Orderly, LogFits
<1>3. /\ i \in 1..Len(es) /\ i <= n - 1 /\ m.type = "merged" /\ u.type = "undone"
      /\ i \notin EffectiveIn(es, n)
      /\ u.canonical = m.canonical /\ u.redirections = m.redirections
  BY <1>2, UndoneMerge
<1>4. /\ f \in Graph /\ EventTidy(m) /\ PlannedAs(f, es, m)
      /\ \A x \in Entities : f.aliases[x] = AliasAt(es, i - 1, x)
  BY <1>1, <1>2, <1>3, OrderlyParts
<1>5. /\ g \in Graph /\ h \in Graph /\ h = Meant(g, u) /\ EventTidy(u)
      /\ \A x \in Entities : h.aliases[x] = AliasAt(es, n, x)
  BY <1>1, <1>2, OrderlyParts
<1>6. \A x \in Entities : h.aliases[x] = NotAlias \/ h.aliases[x] = g.aliases[x]
  BY <1>3, <1>5 DEF Meant, AliasMeant, BoundTo
<1>7. ASSUME NEW x \in Entities, f.aliases[x] = NotAlias PROVE h.aliases[x] = NotAlias
  <2> SUFFICES ASSUME h.aliases[x] # NotAlias PROVE FALSE OBVIOUS
  <2>1. PICK k \in EffectiveIn(es, n) : x \in es[k].merged BY <1>5 DEF AliasAt, AbsorbedIn
  <2>2. k \in 1..n /\ es[k].type = "merged" BY DEF EffectiveIn
  <2>3. k # n /\ k # i BY <1>2, <1>3, <2>2
  <2>4. k \in Nat /\ k <= n - 1 /\ n - 1 \in Nat BY <1>0, <2>2, <2>3
  <2>5. k \in EffectiveIn(es, n - 1) BY <1>0, <2>4, EffectiveBefore
  <2>6. k <= i - 1 /\ i - 1 \in Nat /\ i - 1 <= n BY <1>0, <1>3, <2>3, <2>4, <2>5 DEF LatestAt
  <2>7. k \in EffectiveIn(es, i - 1) BY <1>0, <2>4, <2>6, EffectiveBefore
  <2>8. AbsorbedIn(es, i - 1, x) BY <2>1, <2>7 DEF AbsorbedIn
  <2>9. AliasAt(es, i - 1, x) # NotAlias
    <3>1. PICK j : j = CHOOSE r \in EffectiveIn(es, i - 1) : x \in es[r].merged OBVIOUS
    <3>2. j \in EffectiveIn(es, i - 1) BY <2>7, <2>1, <3>1
    <3>3. j \in 1..Len(es) /\ es[j].type = "merged" BY <1>0, <1>3, <3>2 DEF EffectiveIn
    <3>4. es[j].canonical \in Entities BY <3>3, OrderlyParts, TidyParts
    <3> QED BY <2>8, <3>1, <3>4, SentinelAssumption DEF AliasAt
  <2> QED BY <1>4, <1>7, <2>9
<1> SUFFICES ASSUME NEW c \in Claims, h.rels[c] # NoEdge
             PROVE  /\ h.aliases[h.rels[c].source] = NotAlias
                    /\ h.aliases[h.rels[c].target] = NotAlias
  BY <1>1, <1>5, OnCanonicals
<1>8. h.rels[c] = EdgeMeant(g, u, c) BY <1>5 DEF Meant
<1>9. CASE Redirects(u, c)
  <2>1. PICK d \in u.redirections : d.id = c BY <1>9 DEF Redirects
  <2>2. OneEach(u.redirections) BY <1>3, <1>5 DEF EventTidy
  <2>3. h.rels[c] = d.before
    BY <1>3, <1>8, <1>9, <2>1, <2>2, OneRedirection DEF EdgeMeant, EdgeAfter
  <2>4. m.redirections = PlanRedirections(f, m.canonical, m.merged) BY <1>3, <1>4 DEF PlannedAs
  <2>5. f.rels[c] # NoEdge /\ h.rels[c] = f.rels[c] BY <1>3, <1>4, <2>1, <2>3, <2>4, PlanEntries
  <2>6. /\ f.aliases[f.rels[c].source] = NotAlias /\ f.aliases[f.rels[c].target] = NotAlias
        /\ f.rels[c].source \in Entities /\ f.rels[c].target \in Entities
    BY <1>1, <1>4, <2>5, OnCanonicals, EdgeEnds
  <2> QED BY <1>7, <2>5, <2>6
<1>10. CASE ~ Redirects(u, c)
  <2>1. h.rels[c] = g.rels[c] BY <1>3, <1>8, <1>10 DEF EdgeMeant
  <2>2. /\ g.aliases[g.rels[c].source] = NotAlias /\ g.aliases[g.rels[c].target] = NotAlias
        /\ g.rels[c].source \in Entities /\ g.rels[c].target \in Entities
    BY <1>1, <1>5, <2>1, OnCanonicals, EdgeEnds
  <2> QED BY <1>6, <2>1, <2>2
<1> QED BY <1>9, <1>10

LEMMA FoldOnCanonicals ==
  ASSUME NEW es, Orderly(es),
         \A j \in 1..Len(es) : es[j].type = "undone" => LatestAt(es, j)
  PROVE  \A n \in 0..Len(es) : EdgesOnCanonicalsIn(FoldOf(es)[n])
<1> DEFINE Bad == {n \in 0..Len(es) : ~ EdgesOnCanonicalsIn(FoldOf(es)[n])}
<1>0. Len(es) \in Nat /\ LogFits(es) /\ LogTidy(es) BY DEF Orderly, LogFits
<1> SUFFICES ASSUME Bad # {} PROVE FALSE OBVIOUS
<1>1. PICK n \in Bad : \A k \in Bad : n <= k
  <2>1. Bad \in SUBSET Nat BY <1>0
  <2> HIDE DEF Bad
  <2> QED BY <2>1, LeastNatural
<1>2. n \in 0..Len(es) /\ n \in Nat /\ ~ EdgesOnCanonicalsIn(FoldOf(es)[n]) BY <1>0
<1>3. ASSUME NEW k \in 0..(n - 1) PROVE EdgesOnCanonicalsIn(FoldOf(es)[k])
  <2> SUFFICES ASSUME ~ EdgesOnCanonicalsIn(FoldOf(es)[k]) PROVE FALSE OBVIOUS
  <2>1. k \in Bad BY <1>0, <1>2
  <2>2. n <= k BY <1>1, <2>1
  <2> QED BY <1>0, <1>2, <2>2
<1>4. n # 0
  <2>1. FoldOf(es)[0] = EmptyGraph BY <1>0, FoldSteps
  <2>2. EdgesOnCanonicalsIn(EmptyGraph) BY DEF EmptyGraph, EdgesOnCanonicalsIn, RelationshipsFor
  <2> QED BY <1>2, <2>1, <2>2
<1>5. n \in 1..Len(es) /\ n - 1 \in 0..Len(es) /\ n - 1 \in 0..(n - 1) BY <1>0, <1>2, <1>4
<1>6. PICK g, h, e : g = FoldOf(es)[n - 1] /\ h = FoldOf(es)[n] /\ e = es[n] OBVIOUS
<1>7. /\ g \in Graph /\ h \in Graph /\ h = Meant(g, e) /\ EventTidy(e)
      /\ EventFits(es, n - 1, e) /\ PlannedAs(g, es, e)
      /\ \A x \in Entities : g.aliases[x] = AliasAt(es, n - 1, x)
  BY <1>5, <1>6, OrderlyParts
<1>8. EdgesOnCanonicalsIn(g) BY <1>3, <1>5, <1>6
<1>9. CASE e.type = "extracted"
  <2>1. NoAliasCycleIn(g) BY <1>0, <1>5, <1>7, LogRowsEnd
  <2>2. EdgesOnCanonicalsIn(h) BY <1>7, <1>8, <1>9, <2>1, ExtractedOnCanonicals
  <2> QED BY <1>2, <1>6, <2>2
<1>10. CASE e.type = "merged"
  <2>1. e.canonical \in Entities /\ e.canonical \notin e.merged
    BY <1>0, <1>5, <1>6, <1>7, <1>10, TidyParts DEF LogFits
  <2>2. g.aliases[e.canonical] = NotAlias
    BY <1>7, <1>10, <2>1 DEF EventFits, MergeFits, AliasAt
  <2>3. e.redirections = PlanRedirections(g, e.canonical, e.merged) BY <1>7, <1>10 DEF PlannedAs
  <2>4. EdgesOnCanonicalsIn(h) BY <1>7, <1>8, <1>10, <2>1, <2>2, <2>3, MergedOnCanonicals
  <2> QED BY <1>2, <1>6, <2>4
<1>11. CASE e.type = "undone"
  <2>1. PICK i : i = e.merge OBVIOUS
  <2>2. i \in 1..Len(es) /\ i <= n - 1 BY <1>5, <1>6, <1>11, <2>1, UndoneMerge
  <2>3. i - 1 \in 0..(n - 1) BY <1>2, <2>2
  <2>4. LatestAt(es, n) BY <1>5, <1>6, <1>11
  <2>5. EdgesOnCanonicalsIn(FoldOf(es)[n - 1]) /\ EdgesOnCanonicalsIn(FoldOf(es)[i - 1])
    BY <1>3, <1>5, <2>3
  <2>6. EdgesOnCanonicalsIn(FoldOf(es)[n])
    BY <1>5, <1>6, <1>11, <2>1, <2>4, <2>5, UndoneOnCanonicals
  <2> QED BY <1>2, <2>6
<1> QED BY <1>7, <1>9, <1>10, <1>11, TidyParts

-----------------------------------------------------------------------------
(* Calls that do not overlap *)

(* What a call has planned is what the fold gives. *)
CallPlanned(g, c) ==
  c.undo = 0 /\ c.phase # "idle" =>
    /\ c.plan = PlanRedirections(g, c.canonical, c.merged)
    /\ c.phase # "edges" => c.before = g.rows[c.canonical]

(* While a call is being made the store holds the fold, and nobody else calls. *)
Alone(s) == caller[s].phase # "idle" =>
              Settled /\ \A t \in Callers \ {s} : caller[t].phase = "idle"

SoloInv ==
  /\ LogPlanned(log)
  /\ \A s \in Callers : Alone(s) /\ CallPlanned(Whole(log), caller[s])

LEMMA SettledFold ==
  ASSUME FollowsLog, Settled
  PROVE  graph = Whole(log)
<1>1. Len(log) \in Nat /\ cursor = Len(log) /\ work = <<>>
  BY StoreFacts DEF FollowsLog, Settled
<1> QED BY <1>1 DEF FollowsLog, FollowInv, Whole

LEMMA IdleAlone == ASSUME NEW g PROVE Idle.phase = "idle" /\ CallPlanned(g, Idle)
BY DEF CallPlanned, Idle

LEMMA InitSolo == Init => SoloInv
BY IdleAlone DEF Init, SoloInv, LogPlanned, Alone

(* Steps of the projection are taken while nobody calls. *)
LEMMA QuietSolo ==
  ASSUME SoloInv, UNCHANGED <<log, caller>>, AllIdle \/ UNCHANGED <<cursor, work>>
  PROVE  SoloInv'
<1>1. CASE AllIdle BY <1>1 DEF SoloInv, Alone, AllIdle
<1>2. CASE UNCHANGED <<cursor, work>> BY <1>2 DEF SoloInv, Alone, Settled
<1> QED BY <1>1, <1>2

(* Steps of a call that append nothing. *)
LEMMA CallerSolo ==
  ASSUME FollowsLog, SoloInv, NEW s \in Callers, NEW n, CallPlanned(Whole(log), n),
         n.phase # "idle" =>
           Settled /\ \A t \in Callers \ {s} : caller[t].phase = "idle",
         caller' = [caller EXCEPT ![s] = n], UNCHANGED <<log, cursor, work>>
  PROVE  SoloInv'
<1>1. caller \in [Callers -> CallerState] BY DEF FollowsLog, IInv, ServiceInv
<1>2. \A t \in Callers : caller'[t] = IF t = s THEN n ELSE caller[t] BY <1>1
<1>3. Settled' <=> Settled BY DEF Settled
<1>4. ASSUME NEW t \in Callers PROVE Alone(t)'
  <2>1. CASE t = s BY <1>2, <1>3, <2>1 DEF Alone
  <2>2. CASE t # s
    <3> SUFFICES ASSUME caller[t].phase # "idle"
                 PROVE  Settled /\ \A r \in Callers \ {t} : caller'[r].phase = "idle"
      BY <1>2, <1>3, <2>2 DEF Alone
    <3>1. Settled /\ \A r \in Callers \ {t} : caller[r].phase = "idle" BY DEF SoloInv, Alone
    <3>2. n.phase = "idle" BY <2>2
    <3> QED BY <1>2, <3>1, <3>2
  <2> QED BY <2>1, <2>2
<1>5. ASSUME NEW t \in Callers PROVE CallPlanned(Whole(log), caller'[t])
  BY <1>2 DEF SoloInv
<1> QED BY <1>4, <1>5 DEF SoloInv

(* An event more. *)
LEMMA AppendSolo ==
  ASSUME FollowsLog, FollowsLog', SoloInv, NEW e \in Event, log' = Append(log, e),
         PlannedAs(Whole(log), log, e),
         \A s \in Callers : caller'[s].phase = "idle"
  PROVE  SoloInv'
<1>1. /\ LogFits(log) /\ LogTidy(log) /\ log \in Seq(Event) /\ Len(log) \in Nat
  BY StoreFacts DEF FollowsLog, GroundInv
<1>2. PICK es : es = log' OBVIOUS
<1>3. LogFits(es) /\ LogTidy(es) BY <1>2 DEF FollowsLog, IInv, ServiceInv, GroundInv
<1>4. /\ es = Append(log, e) /\ Len(es) = Len(log) + 1 /\ es[Len(log) + 1] = e
      /\ \A n \in 1..Len(log) : es[n] = log[n]
  BY <1>1, <1>2, AppendKeeps
<1>5. \A n \in 0..Len(log) : FoldOf(es)[n] = FoldOf(log)[n] BY <1>1, <1>3, <1>4, FoldKept
<1>6. ASSUME NEW n \in 1..Len(es) PROVE PlannedAs(FoldOf(es)[n - 1], es, es[n])
  <2>1. PICK p : p = es[n] OBVIOUS
  <2>2. EventFits(es, n - 1, p) BY <1>3, <2>1 DEF LogFits
  <2>3. p.type = "undone" => p.merge \in 1..(n - 1)
    BY <2>2 DEF EventFits, UndoFits, EffectiveIn
  <2>4. p.type = "undone" => es[p.merge] = log[p.merge]
    <3>1. 1..(n - 1) \in SUBSET (1..Len(log)) BY <1>1, <1>4
    <3> QED BY <1>4, <2>3, <3>1
  <2>5. n - 1 \in 0..Len(log) BY <1>1, <1>4
  <2>6. PICK g : g = FoldOf(log)[n - 1] OBVIOUS
  <2>7. PlannedAs(g, log, p)
    <3>1. CASE n \in 1..Len(log) BY <1>4, <2>1, <2>6, <3>1 DEF SoloInv, LogPlanned
    <3>2. CASE n = Len(log) + 1
      <4>1. n - 1 = Len(log) BY <1>1, <3>2
      <4> QED BY <1>4, <2>1, <2>6, <3>2, <4>1 DEF Whole
    <3> QED BY <1>1, <1>4, <3>1, <3>2
  <2> QED BY <1>5, <2>1, <2>4, <2>5, <2>6, <2>7 DEF PlannedAs
<1>7. LogPlanned(log') BY <1>2, <1>6 DEF LogPlanned
<1>8. \A s \in Callers : Alone(s)' /\ CallPlanned(Whole(log'), caller'[s])
  BY DEF Alone, CallPlanned
<1> QED BY <1>7, <1>8 DEF SoloInv

LEMMA ExtractSolo ==
  ASSUME OneAtATime, FollowsLog, FollowsLog', SoloInv, NEW r \in Extractions, Extract(r)
  PROVE  SoloInv'
<1>1. PICK e : e = [type |-> "extracted", entities |-> r.entities, claims |-> r.claims,
                    retracted |-> found[r.doc] \ r.entities]
  OBVIOUS
<1>2. log' = Append(log, e) /\ caller' = caller /\ AllIdle BY <1>1 DEF Extract, MayStart
<1>3. e.type = "extracted" BY <1>1
<1>4. e \in Event
  <2>1. found \in [Documents -> SUBSET Entities] BY DEF FollowsLog, IInv, ServiceInv
  <2>2. found[r.doc] \in SUBSET Entities BY <2>1, ExtractionsAssumption
  <2> QED BY <1>1, <2>2, ExtractionsAssumption DEF Event, ExtractedEvent
<1>5. PlannedAs(Whole(log), log, e) BY <1>3 DEF PlannedAs
<1> QED BY <1>2, <1>4, <1>5, AppendSolo DEF AllIdle

LEMMA SaveSolo ==
  ASSUME FollowsLog, FollowsLog', SoloInv, NEW s \in Callers, Save(s)
  PROVE  SoloInv'
<1>1. PICK c, e : c = caller[s] /\ e = EventOf(c) OBVIOUS
<1>2. /\ CallFits(log, c) /\ c.phase = "loaded" /\ caller \in [Callers -> CallerState]
      /\ c.version = VersionAt(log, Len(log)) /\ CallPlanned(Whole(log), c) /\ Alone(s)
  BY <1>1, LogIsTheLog DEF FollowsLog, IInv, ServiceInv, SoloInv, Save
<1>3. log' = Append(log, e) /\ caller' = [caller EXCEPT ![s] = Idle] BY <1>1 DEF Save
<1>4. e \in Event BY <1>1, <1>2, EventOfFits, StoreFacts DEF FollowsLog
<1>5. PlannedAs(Whole(log), log, e)
  <2>1. CASE c.undo = 0
    <3>1. e = [type |-> "merged", canonical |-> c.canonical, merged |-> c.merged,
               redirections |-> c.plan, before |-> c.before, after |-> c.after]
      BY <1>1, <2>1 DEF EventOf
    <3> QED BY <1>2, <2>1, <3>1 DEF PlannedAs, CallPlanned
  <2>2. CASE c.undo # 0
    <3>1. e = [type |-> "undone", merge |-> c.undo, canonical |-> log[c.undo].canonical,
               unmerged |-> log[c.undo].merged,
               redirections |-> log[c.undo].redirections, before |-> log[c.undo].before]
      BY <1>1, <2>2 DEF EventOf
    <3> QED BY <3>1 DEF PlannedAs
  <2> QED BY <2>1, <2>2
<1>6. ASSUME NEW t \in Callers PROVE caller'[t].phase = "idle"
  BY <1>1, <1>2, <1>3, IdleAlone DEF Alone
<1> QED BY <1>3, <1>4, <1>5, <1>6, AppendSolo

LEMMA PlanSolo ==
  ASSUME FollowsLog, SoloInv, NEW s \in Callers, NEW canonical, NEW merged, NEW attempt,
         Plan(s, canonical, merged, attempt), UNCHANGED <<log, cursor, work>>, Settled,
         \A t \in Callers \ {s} : caller[t].phase = "idle"
  PROVE  SoloInv'
<1>1. PICK p : p = PlanRedirections(graph, canonical, merged) OBVIOUS
<1>2. PICK n : n = [Idle EXCEPT !.phase = "edges", !.canonical = canonical,
                                !.merged = merged, !.plan = p, !.attempt = attempt]
  OBVIOUS
<1>3. Idle \in CallerState BY DEF Idle, CallerState, Phases
<1>4. caller' = [caller EXCEPT ![s] = n] BY <1>1, <1>2 DEF Plan
<1>5. n.phase = "edges" /\ n.canonical = canonical /\ n.merged = merged /\ n.plan = p
  BY <1>2, <1>3, Zenon DEF CallerState
<1>6. graph = Whole(log) BY SettledFold
<1>7. CallPlanned(Whole(log), n) BY <1>1, <1>5, <1>6 DEF CallPlanned
<1> QED BY <1>4, <1>7, CallerSolo

LEMMA ReadEntitiesSolo ==
  ASSUME FollowsLog, SoloInv, NEW s \in Callers, ReadEntities(s)
  PROVE  SoloInv'
<1>1. PICK c : c = caller[s] OBVIOUS
<1>2. /\ c.phase = "edges" /\ c \in CallerState /\ CallPlanned(Whole(log), c) /\ Alone(s)
      /\ c.undo = 0
  BY <1>1 DEF ReadEntities, FollowsLog, IInv, ServiceInv, SoloInv, CallFits
<1>3. UNCHANGED <<log, cursor, work>> BY DEF ReadEntities
<1>4. CASE ~ HasRow(graph, c.canonical)
  <2>1. caller' = [caller EXCEPT ![s] = Idle] BY <1>1, <1>4 DEF ReadEntities
  <2> QED BY <1>3, <2>1, IdleAlone, CallerSolo
<1>5. CASE HasRow(graph, c.canonical)
  <2>1. PICK b, a : /\ b = graph.rows[c.canonical]
                    /\ a = PlanRow(graph, c.canonical, c.merged)
    OBVIOUS
  <2>2. PICK n : n = [c EXCEPT !.phase = "planned", !.before = b, !.after = a] OBVIOUS
  <2>3. /\ n.phase = "planned" /\ n.canonical = c.canonical /\ n.merged = c.merged
        /\ n.plan = c.plan /\ n.before = b
    BY <1>2, <2>2, Zenon DEF CallerState
  <2>4. caller' = [caller EXCEPT ![s] = n] BY <1>1, <1>5, <2>1, <2>2 DEF ReadEntities
  <2>5. Settled /\ \A t \in Callers \ {s} : caller[t].phase = "idle" BY <1>1, <1>2 DEF Alone
  <2>6. graph = Whole(log) BY <2>5, SettledFold
  <2>7. CallPlanned(Whole(log), n) BY <1>2, <2>1, <2>3, <2>6 DEF CallPlanned
  <2> QED BY <1>3, <2>4, <2>5, <2>7, CallerSolo
<1> QED BY <1>4, <1>5

LEMMA LoadSolo ==
  ASSUME OneAtATime, FollowsLog, SoloInv, NEW s \in Callers,
         LoadAndMerge(s) \/ \E i \in EffectiveMerges(Len(log)) : LoadAndUndo(s, i)
  PROVE  SoloInv'
<1>1. CASE LoadAndMerge(s)
  <2>1. PICK c : c = caller[s] OBVIOUS
  <2>2. /\ c.phase = "planned" /\ c \in CallerState /\ CallPlanned(Whole(log), c) /\ Alone(s)
        /\ c.undo = 0
    BY <1>1, <2>1 DEF LoadAndMerge, FollowsLog, IInv, ServiceInv, SoloInv, CallFits
  <2>3. UNCHANGED <<log, cursor, work>> BY <1>1 DEF LoadAndMerge
  <2>4. CASE MergeRefused(c.canonical, c.merged)
    <3>1. caller' = [caller EXCEPT ![s] = Idle] BY <1>1, <2>1, <2>4 DEF LoadAndMerge
    <3> QED BY <2>3, <3>1, IdleAlone, CallerSolo
  <2>5. CASE ~ MergeRefused(c.canonical, c.merged)
    <3>1. PICK v : v = Version OBVIOUS
    <3>2. PICK n : n = [c EXCEPT !.phase = "loaded", !.version = v] OBVIOUS
    <3>3. /\ n.canonical = c.canonical /\ n.merged = c.merged /\ n.plan = c.plan
          /\ n.before = c.before
      BY <2>2, <3>2, Zenon DEF CallerState
    <3>4. caller' = [caller EXCEPT ![s] = n] BY <1>1, <2>1, <2>5, <3>1, <3>2 DEF LoadAndMerge
    <3>5. Settled /\ \A t \in Callers \ {s} : caller[t].phase = "idle" BY <2>1, <2>2 DEF Alone
    <3>6. CallPlanned(Whole(log), n) BY <2>2, <3>3 DEF CallPlanned
    <3> QED BY <2>3, <3>4, <3>5, <3>6, CallerSolo
  <2> QED BY <2>4, <2>5
<1>2. ASSUME NEW i \in EffectiveMerges(Len(log)), LoadAndUndo(s, i) PROVE SoloInv'
  <2>1. PICK v : v = Version OBVIOUS
  <2>2. PICK n : n = [Idle EXCEPT !.phase = "loaded", !.undo = i, !.version = v] OBVIOUS
  <2>3. Idle \in CallerState BY DEF Idle, CallerState, Phases
  <2>4. caller' = [caller EXCEPT ![s] = n] /\ UNCHANGED <<log, cursor, work>>
    BY <1>2, <2>1, <2>2 DEF LoadAndUndo
  <2>5. n.undo = i BY <2>2, <2>3, Zenon DEF CallerState
  <2>6. i # 0
    <3>1. i \in 1..Len(log) BY DEF EffectiveMerges
    <3> QED BY <3>1, StoreFacts DEF FollowsLog
  <2>7. CallPlanned(Whole(log), n) BY <2>5, <2>6 DEF CallPlanned
  <2>8. Settled /\ AllIdle BY <1>2 DEF LoadAndUndo, MayStart
  <2> QED BY <2>4, <2>7, <2>8, CallerSolo DEF AllIdle
<1> QED BY <1>1, <1>2

LEMMA NextSolo ==
  ASSUME OneAtATime, FollowsLog, FollowsLog', SoloInv, [Next]_vars
  PROVE  SoloInv'
<1>1. ASSUME NEW r \in Extractions, Extract(r) PROVE SoloInv' BY <1>1, ExtractSolo
<1>2. Settled \/ AllIdle BY DEF SoloInv, Alone, AllIdle
<1>3. CASE Deliver \/ StoreCall \/ DeadLetter
  <2>1. ~ Settled
    <3>1. Deliver => cursor < Len(log) BY DEF Deliver
    <3>2. StoreCall \/ DeadLetter => work # <<>> BY DEF StoreCall, DeadLetter
    <3>3. cursor \in Nat /\ Len(log) \in Nat BY StoreFacts DEF FollowsLog
    <3> QED BY <1>3, <3>1, <3>2, <3>3 DEF Settled
  <2>2. UNCHANGED <<log, caller>> BY <1>3 DEF Deliver, StoreCall, DeadLetter
  <2> QED BY <1>2, <2>1, <2>2, QuietSolo
<1>4. CASE Restart \/ Rebuild
  <2>1. AllIdle /\ UNCHANGED <<log, caller>> BY <1>4 DEF Restart, Rebuild
  <2> QED BY <2>1, QuietSolo
<1>5. ASSUME NEW s \in Callers, NEW q \in Requests, ReadEdges(s, q) PROVE SoloInv'
  <2>1. Settled /\ AllIdle /\ UNCHANGED <<log, cursor, work>> BY <1>5 DEF ReadEdges, MayStart
  <2>2. Plan(s, q.canonical, q.merged, 1) BY <1>5 DEF ReadEdges
  <2> QED BY <2>1, <2>2, PlanSolo DEF AllIdle
<1>6. ASSUME NEW s \in Callers, caller' = [caller EXCEPT ![s] = Idle],
             UNCHANGED <<log, cursor, work>>
      PROVE  SoloInv'
  BY <1>6, IdleAlone, CallerSolo
<1>7. ASSUME NEW s \in Callers, SaveConflict(s) PROVE SoloInv'
  <2>1. PICK c : c = caller[s] OBVIOUS
  <2>2. UNCHANGED <<log, cursor, work>> /\ c.phase = "loaded" BY <1>7, <2>1 DEF SaveConflict
  <2>3. Settled /\ \A t \in Callers \ {s} : caller[t].phase = "idle"
    BY <2>1, <2>2 DEF SoloInv, Alone
  <2>4. \/ Plan(s, c.canonical, c.merged, c.attempt + 1)
        \/ caller' = [caller EXCEPT ![s] = Idle]
    BY <1>7, <2>1 DEF SaveConflict
  <2> QED BY <1>6, <2>2, <2>3, <2>4, PlanSolo
<1>8. ASSUME NEW s \in Callers, Abandon(s) PROVE SoloInv' BY <1>6, <1>8 DEF Abandon
<1>9. ASSUME NEW s \in Callers, ReadEntities(s) PROVE SoloInv' BY <1>9, ReadEntitiesSolo
<1>10. ASSUME NEW s \in Callers,
              LoadAndMerge(s) \/ \E i \in EffectiveMerges(Len(log)) : LoadAndUndo(s, i)
       PROVE  SoloInv'
  BY <1>10, LoadSolo
<1>11. ASSUME NEW s \in Callers, Save(s) PROVE SoloInv' BY <1>11, SaveSolo
<1>12. CASE UNCHANGED vars BY <1>12, QuietSolo DEF vars
<1> QED BY <1>1, <1>3, <1>4, <1>5, <1>7, <1>8, <1>9, <1>10, <1>11, <1>12 DEF Next

LEMMA SoloFollows ==
  ASSUME Lag <= 1, OneAtATime
  PROVE  Spec => [](FollowsLog /\ SoloInv)
<1>1. Init => FollowsLog /\ SoloInv
  BY InitFits, InitNear, InitFollows, InitSolo DEF FollowsLog
<1>2. FollowsLog /\ SoloInv /\ [Next]_vars => (FollowsLog /\ SoloInv)'
  BY NextFollows, NextSolo
<1> QED BY <1>1, <1>2, PTL DEF Spec

LEMMA SoloLog ==
  ASSUME FollowsLog, SoloInv
  PROVE  /\ Orderly(log) /\ Len(log) \in Nat
         /\ \A j : ReversesLatest(j) <=> LatestAt(log, j)
         /\ \A i, j : Cancelled(i, j) => CancelledIn(log, i, j)
<1>1. Orderly(log) /\ Len(log) \in Nat
  BY StoreFacts DEF FollowsLog, GroundInv, SoloInv, Orderly
<1>2. \A j : ReversesLatest(j) <=> LatestAt(log, j)
  BY LogIsTheLog DEF ReversesLatest, LatestAt
<1>3. \A i, j : Cancelled(i, j) => CancelledIn(log, i, j)
  BY <1>2 DEF Cancelled, CancelledIn
<1> QED BY <1>1, <1>2, <1>3

(* When calls wait for the projection, a merge and its undo, with nothing but
   merges undone last first between them, give back the graph the merge found,
   rows, edges and aliases, whatever had been extracted, merged or refused
   before (planning.py:31-32). *)
THEOREM UndoGivesBack == Lag <= 1 /\ OneAtATime => (Spec => []UndoIsInverse)
<1> SUFFICES ASSUME Lag <= 1, OneAtATime PROVE Spec => []UndoIsInverse OBVIOUS
<1>1. Spec => [](FollowsLog /\ SoloInv) BY SoloFollows
<1>2. FollowsLog /\ SoloInv => UndoIsInverse
  BY SoloLog, UndoneInverts DEF UndoIsInverse
<1> QED BY <1>1, <1>2, PTL

(* When calls wait for the projection and undo the latest merge first, no edge
   of the settled store is left on an entity that was merged away, late
   documents included; and at no moment does one lack an end
   (projections/graph.py). *)
THEOREM EdgesStayOnCanonicals == Lag <= 1 /\ OneAtATime => (Spec => []EdgesOnCanonicals)
<1> SUFFICES ASSUME Lag <= 1, OneAtATime PROVE Spec => []EdgesOnCanonicals OBVIOUS
<1>1. Spec => [](FollowsLog /\ SoloInv) BY SoloFollows
<1>2. FollowsLog /\ SoloInv => EdgesOnCanonicals
  <2> SUFFICES ASSUME FollowsLog, SoloInv PROVE EdgesOnCanonicals OBVIOUS
  <2>1. EdgesWellFormed BY EdgesHold DEF FollowsLog
  <2>2. ASSUME Settled, UndoneInOrder PROVE EdgesOnCanonicalsIn(graph)
    <3>1. \A j \in 1..Len(log) : log[j].type = "undone" => LatestAt(log, j)
      BY <2>2, SoloLog DEF UndoneInOrder
    <3>2. EdgesOnCanonicalsIn(FoldOf(log)[Len(log)]) BY <3>1, SoloLog, FoldOnCanonicals
    <3> QED BY <2>2, <3>2, SettledFold DEF Whole
  <2> QED BY <2>1, <2>2 DEF EdgesOnCanonicals
<1> QED BY <1>1, <1>2, PTL

=============================================================================
