----------------------- MODULE ConsolidationLogProofs -----------------------
(***************************************************************************)
(* Proofs about ConsolidationLog, for every set of entities and sessions,  *)
(* every snapshot interval and every bound on the stream.                  *)
(*                                                                         *)
(* The argument: a well-formed log stays well formed when an event a       *)
(* command allowed on a replay of the WHOLE log is appended; the expected  *)
(* version check is what makes the saved copy such a replay.               *)
(***************************************************************************)
EXTENDS ConsolidationLog, TLAPS

(* A log on which replay is meaningful, at every prefix. *)
WellFormed(log) ==
  /\ \A v \in 0..Len(log) : SingleParentAt(log, v)
  /\ \A j \in 1..Len(log) : log[j].type = "undone" => RestoresItsMerge(log, j)

(* What a command's guards establish of the event it builds from a copy. *)
MergeAllowed(st, e) ==
  /\ e \in MergedEvent
  /\ e.merged # {}
  /\ e.canonical \notin e.merged
  /\ CanonicalAllowed(st, e.canonical)
  /\ AbsorbedAllowed(st, e.merged)

UndoAllowed(st, e) ==
  /\ e \in UndoneEvent
  /\ \E r \in st.merges :
       /\ ~ r.undone
       /\ e.merge = r.id /\ e.canonical = r.canonical
       /\ e.unmerged = r.merged /\ e.restored = r.redirections

Allowed(st, e) == MergeAllowed(st, e) \/ UndoAllowed(st, e)

(* An uncommitted copy is a replay plus one event its guards allowed. *)
OneAhead(log, copy, e) ==
  \E st \in State :
    /\ ReplayOf(log, st)
    /\ Allowed(st, e)
    /\ copy = Apply(st, e)
    /\ copy.version <= MaxEvents

PendingAllowed ==
  \A s \in Sessions :
    phase[s] = "pending" => OneAhead(stream, agg[s], pending[s])

IInv ==
  /\ TypeOK
  /\ WellFormed(stream)
  /\ ChainsGoForward
  /\ CopiesAreReplays
  /\ PendingAllowed

-----------------------------------------------------------------------------
(* Events and their application *)

LEMMA EventKinds ==
  ASSUME NEW e \in Event
  PROVE  /\ e.type \in {"merged", "undone"}
         /\ e.type = "merged" => e \in MergedEvent
         /\ e.type = "undone" => e \in UndoneEvent
BY DEF Event, MergedEvent, UndoneEvent

LEMMA ApplyMergedIsState ==
  ASSUME NEW st \in State, NEW e \in MergedEvent
  PROVE  ApplyMerged(st, e) \in State
<1> DEFINE record == [id |-> st.version + 1, canonical |-> e.canonical,
                      merged |-> e.merged, redirections |-> e.redirections,
                      undone |-> FALSE]
<1>1. st.version + 1 \in Nat
  BY DEF State
<1>2. record \in MergeRecord
  BY <1>1 DEF MergeRecord, MergedEvent
<1>3. st.merges \union {record} \subseteq MergeRecord
  BY <1>2 DEF State
<1>4. [x \in Entities |-> IF x \in e.merged THEN e.canonical ELSE st.alias_of[x]]
        \in [Entities -> Entities \union {NotAlias}]
  BY DEF State, MergedEvent
<1> HIDE DEF record
<1>5. ApplyMerged(st, e) =
        [version |-> st.version + 1, merges |-> st.merges \union {record},
         alias_of |-> [x \in Entities |->
                         IF x \in e.merged THEN e.canonical ELSE st.alias_of[x]]]
  BY DEF ApplyMerged, record
<1> QED BY <1>1, <1>3, <1>4, <1>5 DEF State

LEMMA ApplyUndoneIsState ==
  ASSUME NEW st \in State, NEW e \in UndoneEvent
  PROVE  ApplyUndone(st, e) \in State
<1> DEFINE mark(r) == IF r.id = e.merge THEN [r EXCEPT !.undone = TRUE] ELSE r
<1>1. ASSUME NEW r \in st.merges
      PROVE  mark(r) \in MergeRecord
  BY DEF State, MergeRecord
<1>2. {mark(r) : r \in st.merges} \subseteq MergeRecord
  BY <1>1
<1>3. [x \in Entities |-> IF x \in e.unmerged THEN NotAlias ELSE st.alias_of[x]]
        \in [Entities -> Entities \union {NotAlias}]
  BY DEF State
<1>4. st.version + 1 \in Nat
  BY DEF State
<1> QED BY <1>2, <1>3, <1>4 DEF State, ApplyUndone

LEMMA ApplyIsState ==
  ASSUME NEW st \in State, NEW e \in Event
  PROVE  Apply(st, e) \in State
BY ApplyMergedIsState, ApplyUndoneIsState, EventKinds DEF Apply

LEMMA InitialIsState == InitialState \in State
BY DEF InitialState, State

LEMMA InitialIsReplay ==
  ASSUME NEW log \in Seq(Event)
  PROVE  ReplayOf(log, InitialState)
<1>1. /\ InitialState.version = 0
      /\ InitialState.merges = {}
      /\ \A x \in Entities : InitialState.alias_of[x] = NotAlias
  BY DEF InitialState
<1>2. EffectiveAt(log, 0) = {}
  BY DEF EffectiveAt
<1>3. RecordsAgree(log, InitialState)
  BY <1>1 DEF RecordsAgree
<1>4. AliasesAgree(log, InitialState)
  BY <1>1, <1>2 DEF AliasesAgree
<1>5. 0 \in 0..Len(log)
  OBVIOUS
<1> QED BY <1>1, <1>3, <1>4, <1>5 DEF ReplayOf

-----------------------------------------------------------------------------
(* Appending leaves what the log said about its prefixes alone *)

Extends(longer, log) ==
  /\ Len(log) <= Len(longer)
  /\ \A i \in 1..Len(log) : longer[i] = log[i]

LEMMA AppendExtends ==
  ASSUME NEW log \in Seq(Event), NEW e \in Event
  PROVE  /\ Append(log, e) \in Seq(Event)
         /\ Len(Append(log, e)) = Len(log) + 1
         /\ Append(log, e)[Len(log) + 1] = e
         /\ Extends(Append(log, e), log)
BY DEF Extends

LEMMA PrefixEffective ==
  ASSUME NEW log \in Seq(Event), NEW longer \in Seq(Event), Extends(longer, log),
         NEW v \in 0..Len(log)
  PROVE  /\ EffectiveAt(longer, v) = EffectiveAt(log, v)
         /\ \A i \in 1..v : IsMerge(longer, i) = IsMerge(log, i)
         /\ \A i \in 1..v : UndoneBy(longer, i, v) = UndoneBy(log, i, v)
<1>1. \A i \in 1..v : longer[i] = log[i]
  <2>1. Len(log) \in Nat /\ 1..v \subseteq 1..Len(log) OBVIOUS
  <2> QED BY <2>1 DEF Extends
<1>2. \A i \in 1..v : IsMerge(longer, i) = IsMerge(log, i) BY <1>1 DEF IsMerge
<1>3. \A i \in 1..v : UndoneBy(longer, i, v) = UndoneBy(log, i, v) BY <1>1 DEF UndoneBy
<1> QED BY <1>1, <1>2, <1>3 DEF EffectiveAt

LEMMA PrefixReplay ==
  ASSUME NEW log \in Seq(Event), NEW longer \in Seq(Event), Extends(longer, log),
         NEW st \in State, ReplayOf(log, st)
  PROVE  ReplayOf(longer, st)
<1>1. st.version \in 0..Len(log) /\ st.version \in 0..Len(longer)
  BY DEF ReplayOf, Extends
<1>2. /\ EffectiveAt(longer, st.version) = EffectiveAt(log, st.version)
      /\ \A i \in 1..st.version : IsMerge(longer, i) = IsMerge(log, i)
      /\ \A i \in 1..st.version :
           UndoneBy(longer, i, st.version) = UndoneBy(log, i, st.version)
      /\ \A i \in 1..st.version : longer[i] = log[i]
  BY <1>1, PrefixEffective DEF Extends
<1>3. RecordsAgree(longer, st)
  BY <1>2 DEF ReplayOf, RecordsAgree
<1>4. AliasesAgree(longer, st)
  BY <1>2 DEF ReplayOf, AliasesAgree, EffectiveAt
<1> QED BY <1>1, <1>3, <1>4 DEF ReplayOf

-----------------------------------------------------------------------------
(* What one more event does to the merges in effect *)

LEMMA EffectiveStep ==
  ASSUME NEW log \in Seq(Event), NEW v \in 0..(Len(log) - 1)
  PROVE  /\ log[v + 1].type = "merged" =>
              EffectiveAt(log, v + 1) \subseteq EffectiveAt(log, v) \union {v + 1}
         /\ log[v + 1].type = "merged" =>
              EffectiveAt(log, v) \subseteq EffectiveAt(log, v + 1)
         /\ log[v + 1].type = "undone" =>
              EffectiveAt(log, v + 1) = EffectiveAt(log, v) \ {log[v + 1].merge}
<1>1. \A j \in 1..(v + 1) : j \in 1..v \/ j = v + 1
  OBVIOUS
<1>2. \A j \in 1..v : j \in 1..(v + 1)
  OBVIOUS
<1> QED BY <1>1, <1>2 DEF EffectiveAt, IsMerge, UndoneBy

(* A merge cannot have been undone by the events up to its own. *)
LEMMA NotYetUndone ==
  ASSUME NEW log \in Seq(Event), NEW v \in 1..Len(log), WellFormed(log),
         log[v].type = "merged"
  PROVE  ~ UndoneBy(log, v, v)
<1> SUFFICES ASSUME NEW j \in 1..v, log[j].type = "undone", log[j].merge = v
             PROVE  FALSE
  BY DEF UndoneBy
<1>1. j \in 1..Len(log) /\ RestoresItsMerge(log, j)
  BY DEF WellFormed
<1>2. v \in 1..(j - 1)
  BY <1>1 DEF RestoresItsMerge, EffectiveAt
<1> QED BY <1>2

(* Replaying the next event of a well-formed log keeps a copy a replay. *)
LEMMA ReplayMerged ==
  ASSUME NEW log \in Seq(Event), NEW st \in State, ReplayOf(log, st),
         st.version < Len(log), WellFormed(log),
         log[st.version + 1].type = "merged"
  PROVE  ReplayOf(log, ApplyMerged(st, log[st.version + 1]))
<1> DEFINE v == st.version
           e == log[v + 1]
           nx == ApplyMerged(st, e)
<1>1. /\ v \in Nat /\ v + 1 \in 1..Len(log) /\ v \in 0..(Len(log) - 1)
      /\ e \in MergedEvent
  BY EventKinds DEF State
<1>2. /\ nx.version = v + 1
      /\ nx.merges = st.merges \union
           {[id |-> v + 1, canonical |-> e.canonical, merged |-> e.merged,
             redirections |-> e.redirections, undone |-> FALSE]}
      /\ \A x \in Entities :
           nx.alias_of[x] = IF x \in e.merged THEN e.canonical ELSE st.alias_of[x]
  BY DEF ApplyMerged
<1>3. /\ EffectiveAt(log, v + 1) \subseteq EffectiveAt(log, v) \union {v + 1}
      /\ EffectiveAt(log, v) \subseteq EffectiveAt(log, v + 1)
  BY <1>1, EffectiveStep
<1>4. /\ ~ UndoneBy(log, v + 1, v + 1)
      /\ v + 1 \in EffectiveAt(log, v + 1)
  BY <1>1, NotYetUndone DEF EffectiveAt, IsMerge
<1>5. \A i \in 1..v : UndoneBy(log, i, v + 1) = UndoneBy(log, i, v)
  BY <1>1 DEF UndoneBy
<1>6. RecordsAgree(log, nx)
  <2> DEFINE Agrees(r) ==
               /\ r.id \in 1..(v + 1) /\ IsMerge(log, r.id)
               /\ r.canonical = log[r.id].canonical
               /\ r.merged = log[r.id].merged
               /\ r.redirections = log[r.id].redirections
               /\ r.undone = UndoneBy(log, r.id, v + 1)
             new == [id |-> v + 1, canonical |-> e.canonical,
                     merged |-> e.merged, redirections |-> e.redirections,
                     undone |-> FALSE]
  <2>1. ASSUME NEW r \in st.merges
        PROVE  Agrees(r)
    BY <2>1, <1>1, <1>5 DEF ReplayOf, RecordsAgree
  <2>4. Agrees(new)
    <3>1. (FALSE) = UndoneBy(log, v + 1, v + 1)
      BY <1>4 DEF UndoneBy
    <3>2. v + 1 \in 1..(v + 1) /\ IsMerge(log, v + 1)
      BY <1>1 DEF IsMerge
    <3>3. /\ new.id = v + 1 /\ new.canonical = log[v + 1].canonical
          /\ new.merged = log[v + 1].merged
          /\ new.redirections = log[v + 1].redirections
          /\ new.undone = FALSE
      OBVIOUS
    <3> HIDE DEF new
    <3> QED BY <3>1, <3>2, <3>3
  <2>2. \A i \in 1..v : IsMerge(log, i) => \E r \in st.merges : r.id = i
    BY DEF ReplayOf, RecordsAgree
  <2>3. \A i \in 1..(v + 1) : i \in 1..v \/ i = v + 1
    BY <1>1
  <2>5. nx.merges = st.merges \union {new} /\ new.id = v + 1
    BY <1>2
  <2>6. \A r \in nx.merges : Agrees(r)
    <3> HIDE DEF Agrees, new, nx
    <3> QED BY <2>1, <2>4, <2>5
  <2>7. \A i \in 1..(v + 1) : IsMerge(log, i) => \E r \in nx.merges : r.id = i
    <3> HIDE DEF new, nx
    <3> QED BY <2>2, <2>3, <2>5
  <2>8. nx.version = v + 1
    BY <1>2
  <2> HIDE DEF nx
  <2> QED BY <2>6, <2>7, <2>8 DEF RecordsAgree
<1>7. SingleParentAt(log, v + 1)
  BY <1>1 DEF WellFormed
<1>8. AliasesAgree(log, nx)
  <2>1. ASSUME NEW i \in EffectiveAt(log, v + 1), NEW x \in log[i].merged
        PROVE  nx.alias_of[x] = log[i].canonical
    <3>1. i \in 1..Len(log) /\ log[i] \in MergedEvent /\ x \in Entities
      BY <1>1, EventKinds DEF EffectiveAt, IsMerge, MergedEvent
    <3>2. CASE i = v + 1
      BY <3>1, <3>2, <1>2
    <3>3. CASE i # v + 1
      <4>1. i \in EffectiveAt(log, v) /\ st.alias_of[x] = log[i].canonical
        BY <3>3, <1>3 DEF ReplayOf, AliasesAgree
      <4>2. x \notin e.merged
        BY <3>3, <1>4, <1>7 DEF SingleParentAt
      <4> QED BY <4>1, <4>2, <3>1, <1>2
    <3> QED BY <3>2, <3>3
  <2>2. ASSUME NEW x \in Entities, nx.alias_of[x] # NotAlias
        PROVE  \E i \in EffectiveAt(log, v + 1) : x \in log[i].merged
    BY <2>2, <1>2, <1>3, <1>4 DEF ReplayOf, AliasesAgree
  <2> QED BY <2>1, <2>2, <1>2 DEF AliasesAgree
<1> QED BY <1>1, <1>2, <1>6, <1>8 DEF ReplayOf

LEMMA ReplayUndone ==
  ASSUME NEW log \in Seq(Event), NEW st \in State, ReplayOf(log, st),
         st.version < Len(log), WellFormed(log),
         log[st.version + 1].type = "undone"
  PROVE  ReplayOf(log, ApplyUndone(st, log[st.version + 1]))
<1> DEFINE v == st.version
           e == log[v + 1]
           nx == ApplyUndone(st, e)
           mark(r) == IF r.id = e.merge THEN [r EXCEPT !.undone = TRUE] ELSE r
<1>1. /\ v \in Nat /\ v + 1 \in 1..Len(log) /\ v \in 0..(Len(log) - 1)
      /\ e \in UndoneEvent
  BY EventKinds DEF State
<1>2. /\ nx.version = v + 1
      /\ nx.merges = {mark(r) : r \in st.merges}
      /\ \A x \in Entities :
           nx.alias_of[x] = IF x \in e.unmerged THEN NotAlias ELSE st.alias_of[x]
  BY DEF ApplyUndone
<1>3. /\ e.merge \in EffectiveAt(log, v)
      /\ e.unmerged = log[e.merge].merged
  BY <1>1 DEF WellFormed, RestoresItsMerge
<1>4. EffectiveAt(log, v + 1) = EffectiveAt(log, v) \ {e.merge}
  BY <1>1, EffectiveStep
<1>5. \A i \in 1..v : UndoneBy(log, i, v + 1) <=> (UndoneBy(log, i, v) \/ i = e.merge)
  <2>1. e.type = "undone"
    OBVIOUS
  <2>2. v + 1 \in 1..(v + 1) /\ \A j \in 1..(v + 1) : j \in 1..v \/ j = v + 1
    BY <1>1
  <2>3. \A j \in 1..v : j \in 1..(v + 1)
    BY <1>1
  <2> QED BY <2>1, <2>2, <2>3 DEF UndoneBy
<1>6. RecordsAgree(log, nx)
  <2> DEFINE Agrees(r) ==
               /\ r.id \in 1..(v + 1) /\ IsMerge(log, r.id)
               /\ r.canonical = log[r.id].canonical
               /\ r.merged = log[r.id].merged
               /\ r.redirections = log[r.id].redirections
               /\ r.undone = UndoneBy(log, r.id, v + 1)
  <2>1. ASSUME NEW r \in st.merges
        PROVE  Agrees(mark(r)) /\ mark(r).id = r.id
    <3>1. /\ r.id \in 1..v /\ IsMerge(log, r.id)
          /\ r.canonical = log[r.id].canonical /\ r.merged = log[r.id].merged
          /\ r.redirections = log[r.id].redirections
          /\ r.undone = UndoneBy(log, r.id, v)
      BY DEF ReplayOf, RecordsAgree
    <3>2. r \in MergeRecord /\ r.id \in 1..(v + 1)
      BY <3>1, <1>1 DEF State
    <3>3. CASE r.id = e.merge
      <4>1. UndoneBy(log, r.id, v + 1) = TRUE
        BY <3>1, <3>3, <1>5 DEF UndoneBy
      <4>2. /\ mark(r).id = r.id /\ mark(r).canonical = r.canonical
            /\ mark(r).merged = r.merged /\ mark(r).redirections = r.redirections
            /\ mark(r).undone = TRUE
        BY <3>2, <3>3 DEF MergeRecord
      <4> HIDE DEF mark
      <4> QED BY <3>1, <3>2, <4>1, <4>2
    <3>4. CASE r.id # e.merge
      <4>1. UndoneBy(log, r.id, v + 1) = UndoneBy(log, r.id, v)
        <5>1. UndoneBy(log, r.id, v + 1) <=> UndoneBy(log, r.id, v)
          BY <3>1, <3>4, <1>5
        <5> QED BY <5>1 DEF UndoneBy
      <4>2. mark(r) = r
        BY <3>4
      <4> HIDE DEF mark
      <4> QED BY <3>1, <3>2, <4>1, <4>2
    <3> QED BY <3>3, <3>4
  <2>2. \A i \in 1..v : IsMerge(log, i) => \E r \in st.merges : r.id = i
    BY DEF ReplayOf, RecordsAgree
  <2>3. \A i \in 1..(v + 1) : IsMerge(log, i) => i \in 1..v
    BY <1>1 DEF IsMerge
  <2>4. \A r \in nx.merges : Agrees(r)
    <3> HIDE DEF Agrees, mark, nx
    <3> QED BY <2>1, <1>2
  <2>5. \A i \in 1..(v + 1) : IsMerge(log, i) => \E r \in nx.merges : r.id = i
    <3> HIDE DEF Agrees, mark, nx
    <3> QED BY <2>1, <2>2, <2>3, <1>2
  <2>6. nx.version = v + 1
    BY <1>2
  <2> HIDE DEF nx
  <2> QED BY <2>4, <2>5, <2>6 DEF RecordsAgree
<1>7. SingleParentAt(log, v)
  BY <1>1 DEF WellFormed
<1>8. AliasesAgree(log, nx)
  <2>1. ASSUME NEW i \in EffectiveAt(log, v + 1), NEW x \in log[i].merged
        PROVE  nx.alias_of[x] = log[i].canonical
    <3>1. i \in 1..Len(log) /\ log[i] \in MergedEvent /\ x \in Entities
      BY <1>1, EventKinds DEF EffectiveAt, IsMerge, MergedEvent
    <3>2. i \in EffectiveAt(log, v) /\ st.alias_of[x] = log[i].canonical
      BY <1>4 DEF ReplayOf, AliasesAgree
    <3>3. x \notin e.unmerged
      BY <3>2, <1>3, <1>4, <1>7 DEF SingleParentAt
    <3> QED BY <3>1, <3>2, <3>3, <1>2
  <2>2. ASSUME NEW x \in Entities, nx.alias_of[x] # NotAlias
        PROVE  \E i \in EffectiveAt(log, v + 1) : x \in log[i].merged
    <3>1. x \notin e.unmerged /\ st.alias_of[x] # NotAlias
      BY <2>2, <1>2
    <3>2. PICK i \in EffectiveAt(log, v) : x \in log[i].merged
      BY <3>1 DEF ReplayOf, AliasesAgree
    <3> QED BY <3>1, <3>2, <1>3, <1>4
  <2> QED BY <2>1, <2>2, <1>2 DEF AliasesAgree
<1> QED BY <1>1, <1>2, <1>6, <1>8 DEF ReplayOf

LEMMA ReplayStep ==
  ASSUME NEW log \in Seq(Event), NEW st \in State, ReplayOf(log, st),
         st.version < Len(log), WellFormed(log)
  PROVE  ReplayOf(log, Apply(st, log[st.version + 1]))
<1>1. st.version + 1 \in 1..Len(log)
  BY DEF State
<1>2. log[st.version + 1].type \in {"merged", "undone"}
  BY <1>1, EventKinds
<1> QED BY <1>2, ReplayMerged, ReplayUndone DEF Apply

-----------------------------------------------------------------------------
(* Appending an event that a command allowed on a replay of the whole log *)

LEMMA MergeKeepsOrder ==
  ASSUME NEW log \in Seq(Event), NEW st \in State, ReplayOf(log, st),
         st.version = Len(log), NEW e \in Event, MergeAllowed(st, e),
         SingleParentAt(log, Len(log)), ChainsForwardAt(log, Len(log))
  PROVE  /\ SingleParentAt(Append(log, e), Len(log) + 1)
         /\ ChainsForwardAt(Append(log, e), Len(log) + 1)
<1> DEFINE n == Len(log)
           longer == Append(log, e)
<1>1. /\ n \in Nat /\ longer \in Seq(Event) /\ Len(longer) = n + 1
      /\ longer[n + 1] = e /\ Extends(longer, log)
      /\ \A i \in 1..n : longer[i] = log[i]
      /\ n \in 0..(Len(longer) - 1) /\ n \in 0..n
  BY AppendExtends DEF Extends
<1> HIDE DEF longer
<1>2. /\ e.type = "merged" /\ e.canonical \in Entities /\ e.canonical \notin e.merged
      /\ e.merged \subseteq Entities
      /\ st.alias_of[e.canonical] = NotAlias
      /\ \A x \in e.merged : st.alias_of[x] = NotAlias
  BY DEF MergeAllowed, MergedEvent, CanonicalAllowed, AbsorbedAllowed
<1>3. EffectiveAt(longer, n + 1) \subseteq EffectiveAt(log, n) \union {n + 1}
  <2>1. EffectiveAt(longer, n + 1) \subseteq EffectiveAt(longer, n) \union {n + 1}
    BY <1>1, <1>2, EffectiveStep
  <2>2. EffectiveAt(longer, n) = EffectiveAt(log, n)
    BY <1>1, PrefixEffective
  <2> QED BY <2>1, <2>2
<1>4. \A i \in EffectiveAt(log, n) :
        /\ i \in 1..n /\ longer[i] = log[i]
        /\ log[i].canonical \in Entities /\ log[i].merged \subseteq Entities
        /\ \A x \in log[i].merged : st.alias_of[x] # NotAlias
  <2> SUFFICES ASSUME NEW i \in EffectiveAt(log, n)
               PROVE  /\ i \in 1..n /\ longer[i] = log[i]
                      /\ log[i].canonical \in Entities
                      /\ log[i].merged \subseteq Entities
                      /\ \A x \in log[i].merged : st.alias_of[x] # NotAlias
    OBVIOUS
  <2>1. i \in 1..n /\ longer[i] = log[i] /\ log[i] \in MergedEvent
    BY <1>1, EventKinds DEF EffectiveAt, IsMerge
  <2>2. log[i].canonical \in Entities /\ log[i].merged \subseteq Entities
    BY <2>1 DEF MergedEvent
  <2>3. \A x \in log[i].merged : st.alias_of[x] = log[i].canonical
    BY DEF ReplayOf, AliasesAgree
  <2> QED BY <2>1, <2>2, <2>3, NotAliasAssumption
<1>5. SingleParentAt(longer, n + 1)
  <2> SUFFICES ASSUME NEW i \in EffectiveAt(longer, n + 1),
                      NEW k \in EffectiveAt(longer, n + 1),
                      longer[i].merged \intersect longer[k].merged # {}
               PROVE  i = k
    BY DEF SingleParentAt
  <2>1. CASE i \in EffectiveAt(log, n) /\ k \in EffectiveAt(log, n)
    BY <2>1, <1>4 DEF SingleParentAt
  <2>2. CASE i = n + 1 /\ k \in EffectiveAt(log, n)
    BY <2>2, <1>1, <1>2, <1>4
  <2>3. CASE i \in EffectiveAt(log, n) /\ k = n + 1
    BY <2>3, <1>1, <1>2, <1>4
  <2> QED BY <2>1, <2>2, <2>3, <1>3
<1>6. ChainsForwardAt(longer, n + 1)
  <2> SUFFICES ASSUME NEW i \in EffectiveAt(longer, n + 1),
                      NEW k \in EffectiveAt(longer, n + 1),
                      longer[i].canonical \in longer[k].merged
               PROVE  i < k
    BY DEF ChainsForwardAt
  <2>1. CASE i \in EffectiveAt(log, n) /\ k \in EffectiveAt(log, n)
    BY <2>1, <1>4 DEF ChainsForwardAt
  <2>2. CASE i = n + 1 /\ k \in EffectiveAt(log, n)
    BY <2>2, <1>1, <1>2, <1>4
  <2>3. CASE i \in EffectiveAt(log, n) /\ k = n + 1
    BY <2>3, <1>1, <1>4
  <2>4. CASE i = n + 1 /\ k = n + 1
    BY <2>4, <1>1, <1>2
  <2> QED BY <2>1, <2>2, <2>3, <2>4, <1>3
<1> QED BY <1>5, <1>6 DEF longer

LEMMA UndoKeepsOrder ==
  ASSUME NEW log \in Seq(Event), NEW st \in State, ReplayOf(log, st),
         st.version = Len(log), NEW e \in Event, UndoAllowed(st, e),
         SingleParentAt(log, Len(log)), ChainsForwardAt(log, Len(log))
  PROVE  /\ SingleParentAt(Append(log, e), Len(log) + 1)
         /\ ChainsForwardAt(Append(log, e), Len(log) + 1)
         /\ RestoresItsMerge(Append(log, e), Len(log) + 1)
<1> DEFINE n == Len(log)
           longer == Append(log, e)
<1>1. /\ n \in Nat /\ longer \in Seq(Event) /\ Len(longer) = n + 1
      /\ longer[n + 1] = e /\ Extends(longer, log)
      /\ \A i \in 1..n : longer[i] = log[i]
      /\ n \in 0..(Len(longer) - 1) /\ n \in 0..n
  BY AppendExtends DEF Extends
<1> HIDE DEF longer
<1>2. EffectiveAt(longer, n) = EffectiveAt(log, n)
  BY <1>1, PrefixEffective
<1>3. e.type = "undone"
  BY DEF UndoAllowed, UndoneEvent
<1>4. EffectiveAt(longer, n + 1) = EffectiveAt(log, n) \ {e.merge}
  BY <1>1, <1>2, <1>3, EffectiveStep
<1>5. \A i \in EffectiveAt(log, n) : i \in 1..n /\ longer[i] = log[i]
  BY <1>1 DEF EffectiveAt
<1>6. PICK r \in st.merges :
        /\ ~ r.undone
        /\ e.merge = r.id /\ e.canonical = r.canonical
        /\ e.unmerged = r.merged /\ e.restored = r.redirections
  BY DEF UndoAllowed
<1>7. /\ r.id \in EffectiveAt(log, n)
      /\ r.canonical = log[r.id].canonical /\ r.merged = log[r.id].merged
      /\ r.redirections = log[r.id].redirections
  BY <1>6 DEF ReplayOf, RecordsAgree, EffectiveAt
<1>8. RestoresItsMerge(longer, n + 1)
  BY <1>1, <1>2, <1>5, <1>6, <1>7 DEF RestoresItsMerge
<1>9. SingleParentAt(longer, n + 1) /\ ChainsForwardAt(longer, n + 1)
  BY <1>4, <1>5 DEF SingleParentAt, ChainsForwardAt
<1> QED BY <1>8, <1>9 DEF longer

LEMMA AppendWellFormed ==
  ASSUME NEW log \in Seq(Event), NEW st \in State, ReplayOf(log, st),
         st.version = Len(log), NEW e \in Event, Allowed(st, e),
         WellFormed(log), ChainsForwardAt(log, Len(log))
  PROVE  /\ WellFormed(Append(log, e))
         /\ ChainsForwardAt(Append(log, e), Len(Append(log, e)))
<1> DEFINE n == Len(log)
           longer == Append(log, e)
<1>1. /\ n \in Nat /\ longer \in Seq(Event) /\ Len(longer) = n + 1
      /\ longer[n + 1] = e /\ Extends(longer, log)
      /\ \A i \in 1..n : longer[i] = log[i]
      /\ n \in 0..(Len(longer) - 1) /\ n \in 0..n
  BY AppendExtends DEF Extends
<1> HIDE DEF longer
<1>2. SingleParentAt(log, n)
  BY <1>1 DEF WellFormed
<1>3. /\ SingleParentAt(longer, n + 1) /\ ChainsForwardAt(longer, n + 1)
      /\ e.type = "undone" => RestoresItsMerge(longer, n + 1)
  <2>1. CASE MergeAllowed(st, e)
    BY <2>1, <1>2, MergeKeepsOrder DEF MergeAllowed, MergedEvent, longer
  <2>2. CASE UndoAllowed(st, e)
    BY <2>2, <1>2, UndoKeepsOrder DEF longer
  <2> QED BY <2>1, <2>2 DEF Allowed
<1>4. ASSUME NEW v \in 0..(n + 1)
      PROVE  SingleParentAt(longer, v)
  <2>1. CASE v \in 0..n
    <3>1. EffectiveAt(longer, v) = EffectiveAt(log, v) /\ SingleParentAt(log, v)
      BY <2>1, <1>1, PrefixEffective DEF WellFormed
    <3>2. \A i \in EffectiveAt(log, v) : longer[i] = log[i]
      BY <2>1, <1>1 DEF EffectiveAt
    <3> QED BY <3>1, <3>2 DEF SingleParentAt
  <2> QED BY <2>1, <1>1, <1>3
<1>5. ASSUME NEW j \in 1..(n + 1), longer[j].type = "undone"
      PROVE  RestoresItsMerge(longer, j)
  <2>1. CASE j \in 1..n
    <3>1. longer[j] = log[j] /\ RestoresItsMerge(log, j) /\ j - 1 \in 0..n
      BY <2>1, <1>1, <1>5 DEF WellFormed
    <3>2. EffectiveAt(longer, j - 1) = EffectiveAt(log, j - 1)
      BY <3>1, <1>1, PrefixEffective
    <3>3. \A i \in EffectiveAt(log, j - 1) : longer[i] = log[i]
      BY <2>1, <1>1 DEF EffectiveAt
    <3> QED BY <3>1, <3>2, <3>3 DEF RestoresItsMerge
  <2> QED BY <2>1, <1>1, <1>3, <1>5
<1> QED BY <1>1, <1>3, <1>4, <1>5 DEF WellFormed, longer

LEMMA SavedCopy ==
  ASSUME NEW log \in Seq(Event), NEW copy \in State, NEW e \in Event,
         OneAhead(log, copy, e), Len(log) = copy.version - 1,
         WellFormed(log), ChainsForwardAt(log, Len(log))
  PROVE  /\ WellFormed(Append(log, e))
         /\ ChainsForwardAt(Append(log, e), Len(Append(log, e)))
         /\ ReplayOf(Append(log, e), copy)
<1>1. PICK st \in State : ReplayOf(log, st) /\ Allowed(st, e) /\ copy = Apply(st, e)
  BY DEF OneAhead
<1>2. st.version \in Nat /\ copy.version = st.version + 1
  BY <1>1 DEF State, Apply, ApplyMerged, ApplyUndone
<1>3. st.version = Len(log)
  BY <1>2
<1>4. /\ WellFormed(Append(log, e))
      /\ ChainsForwardAt(Append(log, e), Len(Append(log, e)))
  BY <1>1, <1>3, AppendWellFormed
<1>5. /\ Append(log, e) \in Seq(Event) /\ st.version < Len(Append(log, e))
      /\ Append(log, e)[st.version + 1] = e /\ Extends(Append(log, e), log)
  BY <1>2, <1>3, AppendExtends
<1>6. ReplayOf(Append(log, e), st)
  BY <1>1, <1>5, PrefixReplay
<1> QED BY <1>1, <1>4, <1>5, <1>6, ReplayStep

LEMMA OneAheadExtends ==
  ASSUME NEW log \in Seq(Event), NEW longer \in Seq(Event), Extends(longer, log),
         NEW copy, NEW e, OneAhead(log, copy, e)
  PROVE  OneAhead(longer, copy, e)
BY PrefixReplay DEF OneAhead

-----------------------------------------------------------------------------
(* The inductive invariant *)

LEMMA CommandEvents ==
  ASSUME TypeOK, NEW s \in Sessions
  PROVE  /\ \A c \in Entities, m \in SUBSET Entities, p \in Redirections :
              [type |-> "merged", canonical |-> c, merged |-> m,
               redirections |-> p] \in MergedEvent
         /\ \A r \in agg[s].merges :
              [type |-> "undone", merge |-> r.id, canonical |-> r.canonical,
               unmerged |-> r.merged, restored |-> r.redirections] \in UndoneEvent
<1>1. agg[s].merges \subseteq MergeRecord
  BY DEF TypeOK, State
<1>2. \A r \in MergeRecord :
        /\ r.id \in Nat /\ r.canonical \in Entities
        /\ r.merged \in SUBSET Entities /\ r.redirections \in Redirections
  BY DEF MergeRecord
<1> QED BY <1>1, <1>2 DEF MergedEvent, UndoneEvent

LEMMA InitEstablishes == Init => IInv
<1> SUFFICES ASSUME Init PROVE IInv
  OBVIOUS
<1>1. InitialState \in State
  BY InitialIsState
<1>2. stream \in Seq(Event) /\ Len(stream) = 0 /\ stream = <<>>
  BY DEF Init
<1>3. TypeOK
  BY <1>1, <1>2 DEF Init, TypeOK, Phases
<1>4. \A v \in 0..0 : EffectiveAt(stream, v) = {}
  BY DEF EffectiveAt
<1>5. WellFormed(stream)
  BY <1>2, <1>4 DEF WellFormed, SingleParentAt
<1>6. ChainsGoForward
  BY <1>2, <1>4 DEF ChainsGoForward, ChainsForwardAt
<1>7. CopiesAreReplays
  BY <1>2, InitialIsReplay DEF Init, CopiesAreReplays
<1>8. PendingAllowed
  BY DEF Init, PendingAllowed
<1> QED BY <1>3, <1>5, <1>6, <1>7, <1>8 DEF IInv

(* Each step keeps the types ... *)
LEMMA TypeStep == IInv /\ [Next]_vars => TypeOK'
<1> SUFFICES ASSUME IInv, [Next]_vars PROVE TypeOK'
  OBVIOUS
<1> USE DEF IInv, TypeOK, Phases
<1>1. InitialState \in State
  BY InitialIsState
<1>2. ASSUME NEW s \in Sessions, StartLoad(s) PROVE TypeOK'
  BY <1>2 DEF StartLoad
<1>3. ASSUME NEW s \in Sessions, ReplayNext(s) PROVE TypeOK'
  <2>1. stream[agg[s].version + 1] \in Event
    BY <1>3 DEF ReplayNext, State
  <2>2. Apply(agg[s], stream[agg[s].version + 1]) \in State
    BY <2>1, ApplyIsState
  <2> QED BY <1>3, <2>2 DEF ReplayNext
<1>4. ASSUME NEW s \in Sessions, EndLoad(s) PROVE TypeOK'
  BY <1>4 DEF EndLoad
<1>5. ASSUME NEW s \in Sessions, NEW c \in Entities, NEW m \in SUBSET Entities,
             NEW p \in Redirections, MergeCommand(s, c, m, p)
      PROVE  TypeOK'
  <2> DEFINE e == [type |-> "merged", canonical |-> c, merged |-> m,
                   redirections |-> p]
  <2>1. e \in Event
    BY CommandEvents DEF Event
  <2>2. Apply(agg[s], e) \in State
    BY <2>1, ApplyIsState
  <2>3. /\ phase' = [phase EXCEPT ![s] = "pending"]
        /\ pending' = [pending EXCEPT ![s] = e]
        /\ agg' = [agg EXCEPT ![s] = Apply(agg[s], e)]
        /\ UNCHANGED <<stream, snapshot>>
    BY <1>5 DEF MergeCommand
  <2> HIDE DEF e
  <2> QED BY <2>1, <2>2, <2>3
<1>6. ASSUME NEW s \in Sessions, NEW r \in agg[s].merges, UndoCommand(s, r)
      PROVE  TypeOK'
  <2> DEFINE e == [type |-> "undone", merge |-> r.id, canonical |-> r.canonical,
                   unmerged |-> r.merged, restored |-> r.redirections]
  <2>1. e \in Event
    BY CommandEvents DEF Event
  <2>2. Apply(agg[s], e) \in State
    BY <2>1, ApplyIsState
  <2>3. /\ phase' = [phase EXCEPT ![s] = "pending"]
        /\ pending' = [pending EXCEPT ![s] = e]
        /\ agg' = [agg EXCEPT ![s] = Apply(agg[s], e)]
        /\ UNCHANGED <<stream, snapshot>>
    BY <1>6 DEF UndoCommand
  <2> HIDE DEF e
  <2> QED BY <2>1, <2>2, <2>3
<1>7. ASSUME NEW s \in Sessions, Save(s) PROVE TypeOK'
  BY <1>7 DEF Save
<1>8. ASSUME NEW s \in Sessions, SaveConflict(s) PROVE TypeOK'
  BY <1>1, <1>8 DEF SaveConflict, EndSession
<1>9. ASSUME NEW s \in Sessions, WriteSnapshot(s) PROVE TypeOK'
  BY <1>1, <1>9 DEF WriteSnapshot, EndSession
<1>10. ASSUME NEW s \in Sessions, Leave(s) PROVE TypeOK'
  BY <1>1, <1>10 DEF Leave, EndSession
<1>11. CASE UNCHANGED vars
  BY <1>11 DEF vars
<1> QED BY <1>2, <1>3, <1>4, <1>5, <1>6, <1>7, <1>8, <1>9, <1>10, <1>11 DEF Next

(* ... and the stream, the copies and the pending events. *)
LEMMA ReplayedStep ==
  ASSUME IInv, NEW s \in Sessions, ReplayNext(s)
  PROVE  WellFormed(stream)' /\ ChainsGoForward' /\ CopiesAreReplays' /\ PendingAllowed'
<1>1. /\ stream \in Seq(Event) /\ agg[s] \in State /\ WellFormed(stream)
      /\ ReplayOf(stream, agg[s]) /\ agg[s].version < Len(stream)
  BY DEF IInv, TypeOK, CopiesAreReplays, ReplayNext
<1>2. ReplayOf(stream, Apply(agg[s], stream[agg[s].version + 1]))
  BY <1>1, ReplayStep
<1>3. agg'[s] = Apply(agg[s], stream[agg[s].version + 1])
  BY DEF ReplayNext, IInv, TypeOK
<1>4. \A z \in Sessions : z # s => agg'[z] = agg[z]
  BY DEF ReplayNext, IInv, TypeOK
<1>5. stream' = stream /\ snapshot' = snapshot /\ phase' = phase /\ pending' = pending
  BY DEF ReplayNext
<1>6. WellFormed(stream)' /\ ChainsGoForward'
  BY <1>5 DEF IInv, ChainsGoForward
<1>7. CopiesAreReplays'
  BY <1>2, <1>3, <1>4, <1>5 DEF IInv, CopiesAreReplays
<1>8. PendingAllowed'
  <2>1. phase[s] # "pending"
    BY DEF ReplayNext
  <2> QED BY <2>1, <1>4, <1>5 DEF IInv, PendingAllowed
<1> QED BY <1>6, <1>7, <1>8

LEMMA CommandStep ==
  ASSUME IInv, NEW s \in Sessions, phase[s] = "loaded", NEW e,
         Allowed(agg[s], e), Apply(agg[s], e).version <= MaxEvents,
         phase' = [phase EXCEPT ![s] = "pending"],
         pending' = [pending EXCEPT ![s] = e],
         agg' = [agg EXCEPT ![s] = Apply(agg[s], e)],
         UNCHANGED <<stream, snapshot>>
  PROVE  WellFormed(stream)' /\ ChainsGoForward' /\ CopiesAreReplays' /\ PendingAllowed'
<1>1. agg[s] \in State /\ ReplayOf(stream, agg[s])
  BY DEF IInv, TypeOK, CopiesAreReplays
<1>2. /\ agg'[s] = Apply(agg[s], e) /\ pending'[s] = e /\ phase'[s] = "pending"
      /\ \A z \in Sessions : z # s =>
           agg'[z] = agg[z] /\ pending'[z] = pending[z] /\ phase'[z] = phase[z]
  BY DEF IInv, TypeOK
<1>3. OneAhead(stream, agg'[s], pending'[s])
  BY <1>1, <1>2 DEF OneAhead
<1>4. WellFormed(stream)' /\ ChainsGoForward'
  BY DEF IInv, ChainsGoForward
<1>5. CopiesAreReplays'
  BY <1>2 DEF IInv, CopiesAreReplays
<1>6. PendingAllowed'
  BY <1>2, <1>3 DEF IInv, PendingAllowed
<1> QED BY <1>4, <1>5, <1>6

LEMMA SaveStep ==
  ASSUME IInv, NEW s \in Sessions, Save(s)
  PROVE  WellFormed(stream)' /\ ChainsGoForward' /\ CopiesAreReplays' /\ PendingAllowed'
<1>1. /\ stream \in Seq(Event) /\ agg[s] \in State /\ pending[s] \in Event
      /\ snapshot \in State /\ \A z \in Sessions : agg[z] \in State
      /\ phase[s] = "pending" /\ OneAhead(stream, agg[s], pending[s])
      /\ Len(stream) = agg[s].version - 1
      /\ WellFormed(stream) /\ ChainsForwardAt(stream, Len(stream))
  BY DEF IInv, TypeOK, PendingAllowed, Save, VersionMatches, ChainsGoForward
<1>2. stream' = Append(stream, pending[s]) /\ snapshot' = snapshot /\ agg' = agg
  BY DEF Save
<1>3. /\ phase'[s] = "saved"
      /\ \A z \in Sessions : z # s => phase'[z] = phase[z] /\ pending'[z] = pending[z]
  BY DEF Save, IInv, TypeOK
<1>4. WellFormed(stream') /\ ChainsForwardAt(stream', Len(stream'))
      /\ ReplayOf(stream', agg[s])
  BY <1>1, <1>2, SavedCopy
<1>5. stream' \in Seq(Event) /\ Extends(stream', stream)
  BY <1>1, <1>2, AppendExtends
<1>6. CopiesAreReplays'
  BY <1>1, <1>2, <1>3, <1>4, <1>5, PrefixReplay DEF IInv, CopiesAreReplays
<1>7. PendingAllowed'
  <2> SUFFICES ASSUME NEW z \in Sessions, phase'[z] = "pending"
               PROVE  OneAhead(stream', agg'[z], pending'[z])
    BY DEF PendingAllowed
  <2>1. z # s /\ phase[z] = "pending" /\ pending'[z] = pending[z]
    BY <1>3
  <2>2. OneAhead(stream, agg[z], pending[z])
    BY <2>1 DEF IInv, PendingAllowed
  <2> QED BY <2>1, <2>2, <1>1, <1>2, <1>5, OneAheadExtends
<1> QED BY <1>4, <1>6, <1>7 DEF ChainsGoForward

LEMMA StepPreserves == IInv /\ [Next]_vars => IInv'
<1> SUFFICES ASSUME IInv, [Next]_vars PROVE IInv'
  OBVIOUS
<1> DEFINE Rest == /\ WellFormed(stream)' /\ ChainsGoForward'
                   /\ CopiesAreReplays' /\ PendingAllowed'
<1>1. TypeOK'
  BY TypeStep
<1>2. ASSUME NEW s \in Sessions, StartLoad(s) PROVE Rest
  BY <1>2 DEF StartLoad, IInv, TypeOK, CopiesAreReplays, PendingAllowed, ChainsGoForward
<1>3. ASSUME NEW s \in Sessions, ReplayNext(s) PROVE Rest
  BY <1>3, ReplayedStep
<1>4. ASSUME NEW s \in Sessions, EndLoad(s) PROVE Rest
  BY <1>4 DEF EndLoad, IInv, TypeOK, CopiesAreReplays, PendingAllowed, ChainsGoForward
<1>5. ASSUME NEW s \in Sessions, NEW c \in Entities, NEW m \in SUBSET Entities,
             NEW p \in Redirections, MergeCommand(s, c, m, p)
      PROVE  Rest
  <2> DEFINE e == [type |-> "merged", canonical |-> c, merged |-> m,
                   redirections |-> p]
  <2>1. e \in MergedEvent
    BY CommandEvents DEF IInv
  <2>2. MergeAllowed(agg[s], e)
    BY <1>5, <2>1 DEF MergeAllowed, MergeCommand
  <2>3. agg[s].version \in Nat /\ agg[s].version < MaxEvents
    BY <1>5 DEF MergeCommand, IInv, TypeOK, State
  <2>4. Apply(agg[s], e).version <= MaxEvents
    BY <2>3, BoundAssumption DEF Apply, ApplyMerged
  <2>5. /\ phase[s] = "loaded" /\ phase' = [phase EXCEPT ![s] = "pending"]
        /\ pending' = [pending EXCEPT ![s] = e]
        /\ agg' = [agg EXCEPT ![s] = Apply(agg[s], e)]
        /\ UNCHANGED <<stream, snapshot>>
    BY <1>5 DEF MergeCommand
  <2> HIDE DEF e
  <2> QED BY <2>2, <2>4, <2>5, CommandStep DEF Allowed
<1>6. ASSUME NEW s \in Sessions, NEW r \in agg[s].merges, UndoCommand(s, r)
      PROVE  Rest
  <2> DEFINE e == [type |-> "undone", merge |-> r.id, canonical |-> r.canonical,
                   unmerged |-> r.merged, restored |-> r.redirections]
  <2>1. e \in UndoneEvent
    BY CommandEvents DEF IInv
  <2>2. UndoAllowed(agg[s], e)
    BY <1>6, <2>1 DEF UndoAllowed, UndoCommand, InEffect
  <2>3. agg[s].version \in Nat /\ agg[s].version < MaxEvents
    BY <1>6 DEF UndoCommand, IInv, TypeOK, State
  <2>4. Apply(agg[s], e).version <= MaxEvents
    BY <2>3, BoundAssumption DEF Apply, ApplyUndone
  <2>5. /\ phase[s] = "loaded" /\ phase' = [phase EXCEPT ![s] = "pending"]
        /\ pending' = [pending EXCEPT ![s] = e]
        /\ agg' = [agg EXCEPT ![s] = Apply(agg[s], e)]
        /\ UNCHANGED <<stream, snapshot>>
    BY <1>6 DEF UndoCommand
  <2> HIDE DEF e
  <2> QED BY <2>2, <2>4, <2>5, CommandStep DEF Allowed
<1>7. ASSUME NEW s \in Sessions, Save(s) PROVE Rest
  BY <1>7, SaveStep
<1>8. ASSUME NEW s \in Sessions, SaveConflict(s) \/ Leave(s) PROVE Rest
  BY <1>8 DEF SaveConflict, Leave, EndSession, IInv, TypeOK, CopiesAreReplays,
              PendingAllowed, ChainsGoForward
<1>9. ASSUME NEW s \in Sessions, WriteSnapshot(s) PROVE Rest
  BY <1>9 DEF WriteSnapshot, EndSession, IInv, TypeOK, CopiesAreReplays,
              PendingAllowed, ChainsGoForward
<1>10. ASSUME UNCHANGED vars PROVE Rest
  BY <1>10 DEF vars, IInv, CopiesAreReplays, PendingAllowed, ChainsGoForward
<1>11. Rest
  <2> HIDE DEF Rest
  <2> QED BY <1>2, <1>3, <1>4, <1>5, <1>6, <1>7, <1>8, <1>9, <1>10 DEF Next
<1> QED BY <1>1, <1>11 DEF IInv

LEMMA InvariantHolds == Spec => []IInv
BY InitEstablishes, StepPreserves, PTL DEF Spec

(***************************************************************************)
(* For every number of sessions and entities: what load_or_create gives a  *)
(* caller, from a snapshot and a tail or from the whole stream, is the     *)
(* replay of the events up to its version, and the variables keep their    *)
(* types.                                                                  *)
(***************************************************************************)
THEOREM LogSafe == Spec => [](TypeOK /\ CopiesAreReplays)
<1>1. IInv => TypeOK /\ CopiesAreReplays
  BY DEF IInv
<1> QED BY <1>1, InvariantHolds, PTL

(***************************************************************************)
(* However many sessions decide on copies that have fallen behind, no      *)
(* entity ever has two canonical parents, and alias chains go forward.     *)
(***************************************************************************)
THEOREM OneParentEach == Spec => [](SingleParent /\ ChainsGoForward)
<1>1. ASSUME IInv
      PROVE  SingleParent /\ ChainsGoForward
  <2>1. Len(stream) \in 0..Len(stream)
    BY <1>1 DEF IInv, TypeOK
  <2> QED BY <1>1, <2>1 DEF IInv, WellFormed, SingleParent
<1> QED BY <1>1, InvariantHolds, PTL

(***************************************************************************)
(* An undo that reached the stream reverses a merge that was in effect     *)
(* where it stands, once, with what that merge recorded.                   *)
(***************************************************************************)
THEOREM UndosReverse == Spec => []UndoRestoresItsMerge
<1>1. IInv => UndoRestoresItsMerge
  BY DEF IInv, WellFormed, UndoRestoresItsMerge
<1> QED BY <1>1, InvariantHolds, PTL

-----------------------------------------------------------------------------
(* The log implements the ledger *)

LEMMA LiveAfterMerge ==
  ASSUME NEW log \in Seq(Event), NEW longer \in Seq(Event), Extends(longer, log),
         Len(longer) = Len(log) + 1, WellFormed(longer),
         longer[Len(longer)].type = "merged"
  PROVE  LedgerLive(longer) =
           LedgerLive(log) \union {LiveMergeOf(longer, Len(log) + 1)}
<1> DEFINE n == Len(log)
<1>1. /\ n \in Nat /\ n \in 0..n /\ n \in 0..(Len(longer) - 1)
      /\ n + 1 \in 1..Len(longer) /\ longer[n + 1].type = "merged"
  OBVIOUS
<1>2. EffectiveAt(longer, n) = EffectiveAt(log, n)
  BY <1>1, PrefixEffective
<1>3. n + 1 \in EffectiveAt(longer, n + 1)
  BY <1>1, NotYetUndone DEF EffectiveAt, IsMerge
<1>4. EffectiveAt(longer, n + 1) = EffectiveAt(log, n) \union {n + 1}
  BY <1>1, <1>2, <1>3, EffectiveStep
<1>5. \A i \in EffectiveAt(log, n) : LiveMergeOf(longer, i) = LiveMergeOf(log, i)
  BY <1>1 DEF EffectiveAt, Extends, LiveMergeOf
<1> HIDE DEF n
<1> QED BY <1>4, <1>5 DEF LedgerLive, n

LEMMA LiveAfterUndo ==
  ASSUME NEW log \in Seq(Event), NEW longer \in Seq(Event), Extends(longer, log),
         Len(longer) = Len(log) + 1, WellFormed(longer),
         longer[Len(longer)].type = "undone"
  PROVE  \E r \in LedgerLive(log) : LedgerLive(longer) = LedgerLive(log) \ {r}
<1> DEFINE n == Len(log)
           k == longer[n + 1].merge
<1>1. /\ n \in Nat /\ n \in 0..n /\ n \in 0..(Len(longer) - 1)
      /\ n + 1 \in 1..Len(longer) /\ longer[n + 1].type = "undone"
  OBVIOUS
<1>2. EffectiveAt(longer, n) = EffectiveAt(log, n)
  BY <1>1, PrefixEffective
<1>3. k \in EffectiveAt(log, n)
  BY <1>1, <1>2 DEF WellFormed, RestoresItsMerge
<1>4. EffectiveAt(longer, n + 1) = EffectiveAt(log, n) \ {k}
  BY <1>1, <1>2, EffectiveStep
<1>5. \A i \in EffectiveAt(log, n) : LiveMergeOf(longer, i) = LiveMergeOf(log, i)
  BY <1>1 DEF EffectiveAt, Extends, LiveMergeOf
<1>6. \A i : LiveMergeOf(log, i).id = i
  BY DEF LiveMergeOf
<1>7. LedgerLive(longer) = {LiveMergeOf(log, i) : i \in EffectiveAt(log, n) \ {k}}
  <2> HIDE DEF n, k
  <2> QED BY <1>4, <1>5 DEF LedgerLive, n
<1>8. LedgerLive(log) = {LiveMergeOf(log, i) : i \in EffectiveAt(log, n)}
  BY DEF LedgerLive
<1> HIDE DEF n, k
<1>9. LiveMergeOf(log, k) \in LedgerLive(log)
  BY <1>3, <1>8
<1> QED BY <1>6, <1>7, <1>8, <1>9

(* The aggregate's guards are the ledger's: a live merge's entities are
   aliases in any replay of the whole log. *)
LEMMA LiveIsAlias ==
  ASSUME NEW log \in Seq(Event), NEW st \in State, ReplayOf(log, st),
         st.version = Len(log), NEW r \in LedgerLive(log), NEW x \in r.merged
  PROVE  st.alias_of[x] # NotAlias
<1>1. PICK i \in EffectiveAt(log, Len(log)) : r = LiveMergeOf(log, i)
  BY DEF LedgerLive
<1>2. i \in 1..Len(log) /\ log[i] \in MergedEvent
  BY EventKinds DEF EffectiveAt, IsMerge
<1>3. log[i].canonical \in Entities /\ x \in log[i].merged
  BY <1>1, <1>2 DEF MergedEvent, LiveMergeOf
<1>4. st.alias_of[x] = log[i].canonical
  BY <1>3 DEF ReplayOf, AliasesAgree
<1> QED BY <1>3, <1>4, NotAliasAssumption

LEMMA SaveIsLedgerStep ==
  ASSUME IInv, IInv', NEW s \in Sessions, Save(s)
  PROVE  Ledger!Next
<1> DEFINE e == pending[s]
           n == Len(stream)
<1>1. /\ stream \in Seq(Event) /\ stream' \in Seq(Event) /\ agg[s] \in State
      /\ e \in Event /\ n \in Nat
      /\ OneAhead(stream, agg[s], e) /\ n = agg[s].version - 1
      /\ WellFormed(stream')
  BY DEF IInv, TypeOK, PendingAllowed, Save, VersionMatches
<1>2. stream' = Append(stream, e)
  BY DEF Save
<1>3. /\ Len(stream') = n + 1 /\ stream'[n + 1] = e /\ Extends(stream', stream)
  BY <1>1, <1>2, AppendExtends
<1>4. PICK st \in State : /\ ReplayOf(stream, st) /\ Allowed(st, e)
                          /\ agg[s] = Apply(st, e) /\ agg[s].version <= MaxEvents
  BY <1>1 DEF OneAhead
<1>5. st.version = n
  <2>1. st.version \in Nat /\ agg[s].version = st.version + 1
    BY <1>4 DEF State, Apply, ApplyMerged, ApplyUndone
  <2> QED BY <1>1, <2>1
<1>6. CASE MergeAllowed(st, e)
  <2>1. /\ e.type = "merged" /\ e.merged # {} /\ e.canonical \notin e.merged
        /\ e.canonical \in Entities /\ e.merged \in SUBSET Entities
        /\ e.redirections \in Redirections
        /\ st.alias_of[e.canonical] = NotAlias
        /\ \A x \in e.merged : st.alias_of[x] = NotAlias
    BY <1>6 DEF MergeAllowed, MergedEvent, CanonicalAllowed, AbsorbedAllowed
  <2>2. \A r \in LedgerLive(stream) : \A x \in r.merged : st.alias_of[x] # NotAlias
    BY <1>1, <1>4, <1>5, LiveIsAlias
  <2>3. LedgerLive(stream') = LedgerLive(stream) \union {LiveMergeOf(stream', n + 1)}
    BY <1>1, <1>3, <2>1, LiveAfterMerge
  <2>4. LiveMergeOf(stream', n + 1) =
          [id |-> n + 1, canonical |-> e.canonical, merged |-> e.merged,
           redirections |-> e.redirections]
    BY <1>3 DEF LiveMergeOf
  <2>5. Ledger!Merge(e.canonical, e.merged, e.redirections)
    BY <1>3, <1>5, <2>1, <2>2, <2>3, <2>4 DEF Ledger!Merge, Ledger!IsAlias
  <2> QED BY <2>1, <2>5 DEF Ledger!Next
<1>7. CASE UndoAllowed(st, e)
  <2>1. e.type = "undone"
    BY <1>7 DEF UndoAllowed, UndoneEvent
  <2>2. PICK r \in LedgerLive(stream) : LedgerLive(stream') = LedgerLive(stream) \ {r}
    BY <1>1, <1>3, <2>1, LiveAfterUndo
  <2>3. Ledger!Undo(r)
    BY <1>3, <1>5, <2>2 DEF Ledger!Undo
  <2> QED BY <2>2, <2>3 DEF Ledger!Next
<1> QED BY <1>4, <1>6, <1>7 DEF Allowed

LEMMA OnlySaveAppends ==
  ASSUME [Next]_vars, \A s \in Sessions : ~ Save(s)
  PROVE  stream' = stream
<1>1. CASE UNCHANGED vars BY <1>1 DEF vars
<1>2. ASSUME NEW s \in Sessions,
             StartLoad(s) \/ ReplayNext(s) \/ EndLoad(s) \/ SaveConflict(s)
               \/ WriteSnapshot(s) \/ Leave(s)
      PROVE  stream' = stream
  BY <1>2 DEF StartLoad, ReplayNext, EndLoad, SaveConflict, WriteSnapshot, Leave
<1>3. ASSUME NEW s \in Sessions, NEW c, NEW m, NEW p, MergeCommand(s, c, m, p)
      PROVE  stream' = stream
  BY <1>3 DEF MergeCommand
<1>4. ASSUME NEW s \in Sessions, NEW r, UndoCommand(s, r)
      PROVE  stream' = stream
  BY <1>4 DEF UndoCommand
<1> QED BY <1>1, <1>2, <1>3, <1>4 DEF Next

(***************************************************************************)
(* The log, with its concurrent sessions, expected versions, snapshots and *)
(* callers that die, implements the ledger of merges in effect: a saved    *)
(* event is one merge or one undo the ledger allows, and nothing else a    *)
(* session does is visible in it.                                          *)
(***************************************************************************)
THEOREM LogImplementsLedger == Spec => ImplementsLedger
<1>1. Init => Ledger!Init
  <2> SUFFICES ASSUME Init PROVE Ledger!Init
    OBVIOUS
  <2>1. Len(stream) = 0 /\ EffectiveAt(stream, 0) = {}
    BY DEF Init, EffectiveAt
  <2> QED BY <2>1 DEF Ledger!Init, LedgerLive
<1>2. IInv /\ IInv' /\ [Next]_vars => [Ledger!Next]_(Ledger!vars)
  <2> SUFFICES ASSUME IInv, IInv', [Next]_vars PROVE [Ledger!Next]_(Ledger!vars)
    OBVIOUS
  <2>1. CASE \E s \in Sessions : Save(s)
    BY <2>1, SaveIsLedgerStep
  <2>2. CASE \A s \in Sessions : ~ Save(s)
    <3>1. stream' = stream
      BY <2>2, OnlySaveAppends
    <3> QED BY <3>1 DEF Ledger!vars
  <2> QED BY <2>1, <2>2
<1> QED BY <1>1, <1>2, InitEstablishes, StepPreserves, PTL
        DEF Spec, ImplementsLedger, Ledger!Spec

(***************************************************************************)
(* MergeLedger, by itself, for every set of entities and every kind of     *)
(* edge plan.                                                              *)
(*                                                                         *)
(* SingleParent and ChainsGoForward are each inductive once it is known    *)
(* that the merges in effect have ids no later than `count`: a new merge   *)
(* takes an id after all of them, and its guards say that neither its      *)
(* canonical nor anything it absorbs was absorbed before.                  *)
(***************************************************************************)

VARIABLES live, count

Abstract == INSTANCE MergeLedger

(* Merges in effect were recorded already, and an id names one merge. *)
IdsRecorded ==
  /\ \A r \in live : r.id \in 1..count
  /\ \A r, q \in live : r.id = q.id => r = q

LedgerInv == Abstract!TypeOK /\ IdsRecorded /\ Abstract!SingleParent /\ Abstract!ChainsGoForward

LEMMA LedgerInit == Abstract!Init => LedgerInv
BY DEF Abstract!Init, LedgerInv, Abstract!TypeOK, IdsRecorded, Abstract!SingleParent, Abstract!ChainsGoForward

(* Absorbing entities that are not aliases keeps every part of LedgerInv. *)
LEMMA LedgerMerge ==
  ASSUME LedgerInv, NEW c \in Entities, NEW m \in SUBSET Entities,
         NEW p \in Redirections, Abstract!Merge(c, m, p)
  PROVE  LedgerInv'
<1> DEFINE new == [id |-> count + 1, canonical |-> c, merged |-> m,
                   redirections |-> p]
<1> USE DEF LedgerInv
<1>1. /\ new \in Abstract!LiveMerge
      /\ new.id = count + 1 /\ new.canonical = c /\ new.merged = m
  BY DEF Abstract!LiveMerge, Abstract!TypeOK
<1>2. live' = live \union {new} /\ count' = count + 1
  BY DEF Abstract!Merge
<1>3. \A r \in live : c \notin r.merged /\ m \intersect r.merged = {}
  BY DEF Abstract!Merge, Abstract!IsAlias
<1>4. c \notin m
  BY DEF Abstract!Merge
<1> HIDE DEF new
<1>5. Abstract!TypeOK'
  BY <1>1, <1>2 DEF Abstract!TypeOK
<1>6. IdsRecorded'
  BY <1>1, <1>2 DEF Abstract!TypeOK, IdsRecorded
<1>7. Abstract!SingleParent'
  BY <1>1, <1>2, <1>3 DEF Abstract!SingleParent
<1>8. Abstract!ChainsGoForward'
  <2> SUFFICES ASSUME NEW r \in live', NEW q \in live', r.canonical \in q.merged
               PROVE  r.id < q.id
    BY DEF Abstract!ChainsGoForward
  <2>1. CASE r \in live /\ q \in live
    BY <2>1 DEF Abstract!ChainsGoForward
  <2>2. CASE r \in live /\ q = new
    BY <2>2, <1>1 DEF Abstract!TypeOK, IdsRecorded
  <2>3. CASE r = new
    BY <2>3, <1>1, <1>2, <1>3, <1>4
  <2> QED BY <2>1, <2>2, <2>3, <1>2
<1> QED BY <1>5, <1>6, <1>7, <1>8

(* Reversing a merge only takes one away. *)
LEMMA LedgerUndo ==
  ASSUME LedgerInv, NEW r \in live, Abstract!Undo(r)
  PROVE  LedgerInv'
BY DEF LedgerInv, Abstract!TypeOK, IdsRecorded, Abstract!SingleParent,
       Abstract!ChainsGoForward, Abstract!Undo

LEMMA LedgerNext == LedgerInv /\ [Abstract!Next]_(Abstract!vars) => LedgerInv'
<1> SUFFICES ASSUME LedgerInv, [Abstract!Next]_(Abstract!vars)
             PROVE  LedgerInv'
  OBVIOUS
<1>1. ASSUME NEW c \in Entities, NEW m \in SUBSET Entities,
             NEW p \in Redirections, Abstract!Merge(c, m, p)
      PROVE  LedgerInv'
  BY <1>1, LedgerMerge
<1>2. ASSUME NEW r \in live, Abstract!Undo(r)
      PROVE  LedgerInv'
  BY <1>2, LedgerUndo
<1>3. CASE UNCHANGED Abstract!vars
  BY <1>3 DEF LedgerInv, Abstract!TypeOK, IdsRecorded, Abstract!SingleParent,
              Abstract!ChainsGoForward, Abstract!vars
<1> QED BY <1>1, <1>2, <1>3 DEF Abstract!Next

(***************************************************************************)
(* For any entities and any number of events, no entity ever has two       *)
(* canonical parents and alias chains only go forward in the log.          *)
(***************************************************************************)
THEOREM LedgerSafe ==
  Abstract!Spec => [](Abstract!TypeOK /\ Abstract!SingleParent /\ Abstract!ChainsGoForward)
<1>1. LedgerInv => Abstract!TypeOK /\ Abstract!SingleParent /\ Abstract!ChainsGoForward
  BY DEF LedgerInv
<1> QED BY LedgerInit, LedgerNext, <1>1, PTL DEF Abstract!Spec
=============================================================================
