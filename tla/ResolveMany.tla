---------------------------- MODULE ResolveMany ----------------------------
(***************************************************************************)
(* One consolidation pass over a corpus, `execute_resolve_many`:           *)
(* src/src/redstring/consolidation/{resolve_many,banded,policy,candidates, *)
(* service}.py, with the tenant's log and projected graph it works on.     *)
(*                                                                         *)
(* The pass scores its subjects in wavefronts, asks a model about the      *)
(* uncertain pairs in batches that span subjects, and then emits merges    *)
(* one by one.  Between any two of its awaits another process may merge,   *)
(* the projection may deliver, or a write may change what a score would be.*)
(***************************************************************************)
EXTENDS GraphFold, Sorting

Ext == INSTANCE SequencesExt

CONSTANTS
  SubjectLists,  \* what a caller may pass: sequences of entities
  Scorings,      \* what scoring may give: [Entities -> [Entities -> Nat]]
  High, Low,     \* HIGH_SIMILARITY, LOW_SIMILARITY
  IdOrder,       \* str(entity.id): a total order
  Concurrency,   \* subjects scored at once
  BatchSize,     \* ADJUDICATION_BATCH_SIZE
  EarlierMerges, \* merges already in the log: {[canonical, merged]}
  MaxOutside,    \* bound on what other processes do during the pass
  Deferred       \* Consolidator.resolve_many: projected after the pass

ASSUME ThresholdsAssumption == High \in Nat /\ Low \in Nat /\ Low <= High
ASSUME SizesAssumption == Concurrency \in Nat \ {0} /\ BatchSize \in Nat \ {0}
ASSUME IdOrderAssumption ==
  /\ IdOrder \in [Entities -> Nat]
  /\ \A x, y \in Entities : IdOrder[x] = IdOrder[y] => x = y

ASSUME ArgumentsAssumption ==
  /\ SubjectLists \subseteq Seq(Entities)
  /\ Scorings \subseteq [Entities -> [Entities -> Nat]]
  /\ \A q \in EarlierMerges :
       q.canonical \in Entities /\ q.merged \in SUBSET (Entities \ {q.canonical})

VARIABLES
  log, graph, cursor,  \* the tenant's merges, its graph, how many are projected
  score,     \* what scoring a subject against a candidate gives now
  subjects,  \* the argument of the call
  phase,     \* where the pass is
  wave,      \* the first subject of the wavefront being scored
  scoring,   \* each subject's decision so far
  banded,    \* the decisions, in emit order
  verdicts,  \* the flat list of adjudicate_many
  next,      \* the decision being emitted
  merging,   \* the merge being made for it
  consumed,  \* the keys of in_pass_alias_of
  evidence,  \* pairs scored above High or answered `same` (for checking)
  emitted,   \* the merges made, with the subject they were decided for
  outside    \* how much others did

world == <<log, graph, cursor, score, outside>>
decided == <<subjects, wave, scoring, banded, verdicts, evidence>>
emission == <<next, merging, consumed, emitted>>
vars == <<world, decided, emission, phase>>

NoDecision == [step |-> "todo", subject |-> NotAlias, confirmed |-> <<>>, undecided |-> <<>>]
NoMerge == [canonical |-> NotAlias, merged |-> {}, retried |-> FALSE,
            plan |-> {}, before |-> {}, after |-> {}]

MergeEvent(m) == [type |-> "merged", canonical |-> m.canonical, merged |-> m.merged,
                  redirections |-> m.plan, before |-> m.before, after |-> m.after]

(* ConsolidationService.merge reads the graph and plans. *)
Planned(g, m) ==
  [m EXCEPT !.plan = PlanRedirections(g, m.canonical, m.merged),
            !.before = g.rows[m.canonical],
            !.after = PlanRow(g, m.canonical, m.merged)]

(* alias_of, replayed from the log. *)
IsAlias(x) == \E i \in 1..Len(log) : x \in log[i].merged

(* Every entity and claim has been extracted. *)
Extracted == [EmptyGraph EXCEPT !.rows = [x \in Entities |-> {x}],
                                !.rels = [c \in Claims |-> ClaimedEdge(c)]]

HistoryOf(q) == MergeEvent(Planned(Extracted, [NoMerge EXCEPT !.canonical = q.canonical,
                                                              !.merged = q.merged]))
Histories == {<<>>} \union {<<HistoryOf(q)>> : q \in EarlierMerges}

Init ==
  /\ log \in Histories
  /\ graph = IF log = <<>> THEN Extracted ELSE FoldEvent(Extracted, log[1])
  /\ cursor = Len(log)
  /\ score \in Scorings
  /\ subjects \in SubjectLists
  /\ phase = "score"
  /\ wave = 1
  /\ scoring = [i \in DOMAIN subjects |-> NoDecision]
  /\ banded = <<>> /\ verdicts = <<>>
  /\ next = 1 /\ merging = NoMerge
  /\ consumed = {} /\ evidence = {} /\ emitted = {}
  /\ outside = 0

-----------------------------------------------------------------------------
(* Phase 1: score and band, in wavefronts *)

Wavefront == {i \in DOMAIN subjects : wave <= i /\ i < wave + Concurrency}

Scored(i, d) == scoring' = [scoring EXCEPT ![i] = d]

(* _resolved_subject: a subject merged away stands for its canonical. *)
ResolveSubject(i) ==
  /\ phase = "score" /\ i \in Wavefront /\ scoring[i].step = "todo"
  /\ Scored(i, [NoDecision EXCEPT !.step = "resolved", !.subject = Resolve(graph, subjects[i])])
  /\ UNCHANGED <<world, emission, phase, subjects, wave, banded, verdicts, evidence>>

(* CandidateFinder.candidates: the canonical entities scoring Low or more.
   A score below Low stands for not sharing a blocking key too. *)
Candidates(s) == {x \in Entities \ {s} : Resolve(graph, x) = x /\ score[s][x] >= Low}

(* ... best first. *)
Better(s, x, y) ==
  \/ score[s][x] > score[s][y]
  \/ score[s][x] = score[s][y] /\ IdOrder[x] < IdOrder[y]

BestFirst(s, xs) == Ranked(xs, {p \in xs \X xs : Better(s, p[1], p[2])})

(* decide *)
Merges(s, x) == score[s][x] >= High

FindCandidates(i) ==
  LET s == scoring[i].subject
      confirmed == BestFirst(s, {x \in Candidates(s) : Merges(s, x)})
      undecided == BestFirst(s, {x \in Candidates(s) : ~ Merges(s, x)})
  IN /\ phase = "score" /\ scoring[i].step = "resolved"
     /\ Scored(i, [step |-> IF Candidates(s) = {} THEN "none" ELSE "banded", subject |-> s,
                   confirmed |-> confirmed, undecided |-> undecided])
     /\ evidence' = evidence \union {<<s, confirmed[k]>> : k \in DOMAIN confirmed}
     /\ UNCHANGED <<world, emission, phase, subjects, wave, banded, verdicts>>

(* The decisions by subject id; `sort` is stable. *)
EmitsBefore(i, j) ==
  \/ IdOrder[scoring[i].subject] < IdOrder[scoring[j].subject]
  \/ scoring[i].subject = scoring[j].subject /\ i < j

InEmitOrder ==
  LET found == {i \in DOMAIN scoring : scoring[i].step = "banded"}
      order == Ranked(found, {p \in found \X found : EmitsBefore(p[1], p[2])})
  IN [k \in DOMAIN order |-> scoring[order[k]]]

(* gather returns: the next wavefront, or the barrier. *)
EndWave ==
  /\ phase = "score" /\ \A i \in Wavefront : scoring[i].step \in {"banded", "none"}
  /\ IF wave + Concurrency <= Len(subjects)
     THEN wave' = wave + Concurrency /\ UNCHANGED <<phase, banded>>
     ELSE phase' = "adjudicate" /\ banded' = InEmitOrder /\ UNCHANGED wave
  /\ UNCHANGED <<world, emission, subjects, scoring, verdicts, evidence>>

-----------------------------------------------------------------------------
(* Phase 2: adjudicate_many *)

(* The pairs asked about, subject by subject. *)
Questions ==
  Ext!FlattenSeq([k \in DOMAIN banded |->
    [j \in DOMAIN banded[k].undecided |-> <<banded[k].subject, banded[k].undecided[j]>>]])

(* The answers to the questions from number n + 1 on, one batch. *)
BatchEnd(n) == IF n + BatchSize <= Len(Questions) THEN n + BatchSize ELSE Len(Questions)

Batch == SubSeq(Questions, Len(verdicts) + 1, BatchEnd(Len(verdicts)))

(* _one_mixed_batch: the model answers every pair, or the call fails or the
   answers do not match the questions in number and none is used. *)
Adjudicate ==
  /\ phase = "adjudicate" /\ Len(verdicts) < Len(Questions)
  /\ \E answers \in [DOMAIN Batch -> {"same", "different"}]
                      \union {[j \in DOMAIN Batch |-> "none"]} :
       /\ verdicts' = verdicts \o answers
       /\ evidence' = evidence
            \union {Batch[j] : j \in {k \in DOMAIN Batch : answers[k] = "same"}}
  /\ UNCHANGED <<world, emission, phase, subjects, wave, scoring, banded>>

(* Mutant: the cursor moves on one decision late. *)
BeforeTheLast(k) ==
  IF k = 1 THEN 0 ELSE Len(Ext!FlattenSeq([j \in 1..(k - 2) |-> banded[j].undecided]))

(* The cursor of adjudicate_many when it reaches decision k. *)
Before(k) == Len(Ext!FlattenSeq([j \in 1..(k - 1) |-> banded[j].undecided]))

(* Decision k's share of the flat list. *)
VerdictsOf(k) == SubSeq(verdicts, Before(k) + 1, Before(k) + Len(banded[k].undecided))

(* by_subject: one list per subject id; a later decision for the same subject
   replaces an earlier one's.  0 if the subject was not asked about. *)
BySubject(s) ==
  LET asked == {k \in DOMAIN banded : banded[k].subject = s /\ banded[k].undecided # <<>>}
  IN IF asked = {} THEN 0 ELSE CHOOSE k \in asked : \A j \in asked : j <= k

Mismatched(k) ==
  LET from == BySubject(banded[k].subject)
  IN from # 0 /\ Len(banded[k].undecided) # Len(banded[from].undecided)

(* confirmed_per_subject *)
Confirmed(k) ==
  LET d == banded[k]
      from == BySubject(d.subject)
      yes == {j \in DOMAIN d.undecided : VerdictsOf(from)[j] = "same"}
  IN IF from = 0 THEN d
     ELSE [d EXCEPT !.confirmed =
             @ \o [n \in 1..Cardinality(yes) |->
                     d.undecided[Ranked(yes, Ascending(yes))[n]]]]

(* Verdicts meet their decisions; lists of unequal length are a ValueError. *)
PairVerdicts ==
  /\ phase = "adjudicate" /\ Len(verdicts) = Len(Questions)
  /\ IF \E k \in DOMAIN banded : Mismatched(k)
     THEN phase' = "failed" /\ UNCHANGED banded
     ELSE phase' = "emit" /\ banded' = [k \in DOMAIN banded |-> Confirmed(k)]
  /\ UNCHANGED <<world, emission, subjects, wave, scoring, verdicts, evidence>>

-----------------------------------------------------------------------------
(* Phase 3: emit *)

Skip == next' = next + 1 /\ UNCHANGED <<phase, merging>>

(* Mutant: only the graph is asked, which lags. *)
StaleInGraph(x) == Resolve(graph, x) # x

(* _still_mergeable: merged away before the pass, or by it. *)
Stale(x) == Resolve(graph, x) # x \/ x \in consumed

Recheck ==
  /\ phase = "emit" /\ next <= Len(banded)
  /\ LET d == banded[next]
         fresh == {x \in Ext!ToSet(d.confirmed) : ~ Stale(x)}
     IN IF fresh = {} \/ Stale(d.subject)
        THEN Skip
        ELSE /\ phase' = "plan"
             /\ merging' = [NoMerge EXCEPT !.canonical = d.subject, !.merged = fresh]
             /\ UNCHANGED next
  /\ UNCHANGED <<world, decided, consumed, emitted>>

(* service.merge: the reads and the plan ... *)
PlanMerge ==
  /\ phase = "plan"
  /\ phase' = "append"
  /\ merging' = Planned(graph, merging)
  /\ UNCHANGED <<world, decided, next, consumed, emitted>>

(* ... the append, when neither end is an alias in the log ... *)
AppendMerge ==
  /\ phase = "append"
  /\ ~ \E x \in merging.merged \union {merging.canonical} : IsAlias(x)
  /\ merging.canonical \notin merging.merged
  /\ log' = Append(log, MergeEvent(merging))
  /\ emitted' = emitted \union
       {[subject |-> banded[next].subject, canonical |-> merging.canonical,
         merged |-> merging.merged]}
  /\ consumed' = consumed \union merging.merged
  /\ next' = next + 1
  /\ phase' = "emit" /\ merging' = NoMerge
  /\ UNCHANGED <<graph, cursor, score, outside, decided>>

(* ... MergeIntoAliasError, once: the same candidates for what the graph now
   says the subject stands for ... *)

(* Mutant: it is tried for as long as it takes. *)
RetryAlways ==
  /\ phase = "append" /\ IsAlias(merging.canonical)
  /\ phase' = "plan"
  /\ merging' = [merging EXCEPT !.canonical = Resolve(graph, @), !.retried = TRUE]
  /\ UNCHANGED <<world, decided, next, consumed, emitted>>

RetryResolved ==
  /\ phase = "append" /\ IsAlias(merging.canonical) /\ ~ merging.retried
  /\ phase' = "plan"
  /\ merging' = [merging EXCEPT !.canonical = Resolve(graph, @), !.retried = TRUE]
  /\ UNCHANGED <<world, decided, next, consumed, emitted>>

(* ... or the whole pass raises: MergeIntoAliasError again, DoubleMergeError,
   or an entity merged into itself. *)
Raise ==
  /\ phase = "append"
  /\ IF IsAlias(merging.canonical) THEN merging.retried
     ELSE \/ \E x \in merging.merged : IsAlias(x)
          \/ merging.canonical \in merging.merged
  /\ phase' = "failed"
  /\ UNCHANGED <<world, decided, emission>>

Finish ==
  /\ phase = "emit" /\ next > Len(banded)
  /\ phase' = "done"
  /\ UNCHANGED <<world, decided, emission>>

-----------------------------------------------------------------------------
(* The rest of the world *)

(* The projection delivers the next merge.  The composition root projects the
   events the pass returned, so only once it returned. *)
Project ==
  /\ cursor < Len(log)
  /\ Deferred => phase = "done"
  /\ graph' = FoldEvent(graph, log[cursor + 1])
  /\ cursor' = cursor + 1
  /\ UNCHANGED <<log, score, outside, decided, emission, phase>>

(* Another process merges what the log allows. *)
OutsideMerge(x, y) ==
  /\ outside < MaxOutside
  /\ x # y /\ ~ IsAlias(x) /\ ~ IsAlias(y)
  /\ log' = Append(log, MergeEvent(Planned(graph, [NoMerge EXCEPT !.canonical = x,
                                                                  !.merged = {y}])))
  /\ outside' = outside + 1
  /\ UNCHANGED <<graph, cursor, score, decided, emission, phase>>

(* An edge, a name or an embedding is written: scores change. *)
Rescore ==
  /\ outside < MaxOutside
  /\ score' \in Scorings \ {score}
  /\ outside' = outside + 1
  /\ UNCHANGED <<log, graph, cursor, decided, emission, phase>>

PassStep ==
  \/ \E i \in DOMAIN subjects : ResolveSubject(i) \/ FindCandidates(i)
  \/ EndWave \/ Adjudicate \/ PairVerdicts
  \/ Recheck \/ PlanMerge \/ AppendMerge \/ RetryResolved \/ Raise \/ Finish

Next ==
  \/ PassStep
  \/ Project
  \/ \E x, y \in Entities : OutsideMerge(x, y)
  \/ Rescore

(* The pass's coroutine keeps being run and the model's calls time out. *)
Spec == Init /\ [][Next]_vars /\ WF_vars(PassStep)

-----------------------------------------------------------------------------
(* Properties *)

Ended == phase \in {"done", "failed"}

(* No two decisions are about one entity. *)
DistinctSubjects ==
  \A i, j \in DOMAIN scoring :
    scoring[i].subject = scoring[j].subject /\ scoring[i].subject # NotAlias => i = j

(* Whatever was absorbed for a subject scored High against that subject, or
   the model said `same` of that very pair: answers are matched with their
   questions across batches, failed batches and subjects nothing was asked
   about (policy.py:264-277, resolve_many.py:106-120). *)
VerdictsMatchQuestions ==
  DistinctSubjects =>
    \A m \in emitted : \A x \in m.merged : <<m.subject, x>> \in evidence

(* The same, also when two subjects have become one entity. *)
VerdictsAlwaysMatch ==
  \A m \in emitted : \A x \in m.merged : <<m.subject, x>> \in evidence

(* A pass nobody disturbs never raises, however its own merges overlap and
   however late they are projected: what an earlier merge consumed is left
   out of a later one (resolve_many.py:42-45). *)
AloneNeverFails == phase = "failed" => outside > 0

(* Every pass ends (service.py:360-376: one retry). *)
PassEnds == <>Ended

(* Once a pass's merges are projected no edge points at what was merged away
   (build_graph.py, Consolidator.resolve_many: "this folds every event through
   the projection as it goes, exactly as `resolve` does for one"). *)
EdgesFollowThePass ==
  phase = "done" /\ cursor = Len(log) => EdgesOnCanonicalsIn(graph)
=============================================================================
