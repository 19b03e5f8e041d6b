--------------------------- MODULE Consolidation ---------------------------
(***************************************************************************)
(* One tenant's event log, the graph projection that follows it, and the   *)
(* consolidation service that plans merges against the projected graph:    *)
(* src/src/redstring/consolidation/service.py, projections/graph.py and    *)
(* aggregates/{consolidation_log,document}.py, composed.                   *)
(*                                                                         *)
(* Documents are extracted and extracted again; the projection makes one   *)
(* store call at a time, and after a crash is given a suffix of the log    *)
(* again; callers of `merge` read the graph, plan, load the consolidation  *)
(* stream and append.  ConsolidationLog.tla shows that a loaded aggregate  *)
(* is a replay of its stream, so here a load reads the stream in one step. *)
(***************************************************************************)
EXTENDS GraphFold

CONSTANTS
  Documents,    \* source documents
  Extractions,  \* what runs may find: {[doc, entities, claims]}
  Requests,     \* the merges callers ask for: {[canonical, merged]}
  Callers,      \* concurrent calls of the consolidation service
  MaxAttempts,  \* DEFAULT_MAX_MERGE_RETRIES
  MaxEvents,    \* bound on the log
  MaxRestarts,  \* bound on projection restarts and rebuilds
  Lag,          \* how many of the events delivered a checkpoint may miss
  OneAtATime    \* the wiring projects before it returns, and calls do not overlap

ASSUME BoundsAssumption ==
  /\ MaxAttempts \in Nat \ {0} /\ MaxEvents \in Nat
  /\ MaxRestarts \in Nat /\ Lag \in Nat

ASSUME ExtractionsAssumption ==
  \A r \in Extractions :
    r.doc \in Documents /\ r.entities \in SUBSET Entities /\ r.claims \in SUBSET Claims

ASSUME RequestsAssumption ==
  \A q \in Requests :
    /\ q.canonical \in Entities /\ q.merged \in SUBSET Entities
    /\ q.merged # {} /\ q.canonical \notin q.merged

VARIABLES
  log,       \* the tenant's committed events, in feed order
  found,     \* last_extracted_entity_ids of each document
  graph,     \* the graph store
  cursor,    \* the event the projection was given last
  checkpoint, \* the earliest event its checkpoint may be at
  work,      \* the store calls left of the event being handled
  restarts,  \* how often the projection was restarted or rebuilt
  caller     \* each service call in progress

vars == <<log, found, graph, cursor, checkpoint, work, restarts, caller>>

Phases == {"idle", "edges", "planned", "loaded"}

(* plan: the redirections; before, after: the canonical's row, as read and as
   resolved; undo: the merge to reverse, 0 for a merge; version: the
   consolidation stream's version when loaded. *)
Idle == [phase |-> "idle", canonical |-> NotAlias, merged |-> {}, plan |-> {},
         before |-> {}, after |-> {}, undo |-> 0, version |-> 0, attempt |-> 0]

CallerState ==
  [phase : Phases, canonical : Entities \union {NotAlias}, merged : SUBSET Entities,
   plan : SUBSET Redirection, before : SUBSET Keys, after : SUBSET Keys, undo : Nat,
   version : Nat, attempt : Nat]

-----------------------------------------------------------------------------
(* The consolidation stream, read from the log *)

IsConsolidation(e) == e.type \in {"merged", "undone"}

Version == Cardinality({i \in 1..Len(log) : IsConsolidation(log[i])})

(* Merges not yet undone among the first n events. *)
EffectiveMerges(n) ==
  {i \in 1..n : /\ log[i].type = "merged"
                /\ ~ \E j \in 1..n : log[j].type = "undone" /\ log[j].merge = i}

(* alias_of, replayed. *)
AliasOf(x) ==
  IF \E i \in EffectiveMerges(Len(log)) : x \in log[i].merged
  THEN log[CHOOSE i \in EffectiveMerges(Len(log)) : x \in log[i].merged].canonical
  ELSE NotAlias

(* Every event is projected. *)
Settled == cursor = Len(log) /\ work = <<>>

AllIdle == \A s \in Callers : caller[s].phase = "idle"

(* When calls do not overlap, one starts on a settled graph. *)
MayStart == OneAtATime => Settled /\ AllIdle

-----------------------------------------------------------------------------
Init ==
  /\ log = <<>>
  /\ found = [d \in Documents |-> {}]
  /\ graph = EmptyGraph
  /\ cursor = 0
  /\ checkpoint = 0
  /\ work = <<>>
  /\ restarts = 0
  /\ caller = [s \in Callers |-> Idle]

(* record_extraction under a new model version: what the document's previous
   run found and this one did not is retracted. *)
Extract(r) ==
  /\ MayStart
  /\ Len(log) < MaxEvents
  /\ log' = Append(log, [type |-> "extracted", entities |-> r.entities,
                         claims |-> r.claims,
                         retracted |-> found[r.doc] \ r.entities])
  /\ found' = [found EXCEPT ![r.doc] = r.entities]
  /\ UNCHANGED <<graph, cursor, checkpoint, work, restarts, caller>>

(* The projection takes the next event of the feed ... *)
Deliver ==
  /\ work = <<>>
  /\ cursor < Len(log)
  /\ work' = HandlerCalls(log[cursor + 1])
  /\ cursor' = cursor + 1
  /\ checkpoint' = IF checkpoint + Lag < cursor' THEN cursor' - Lag ELSE checkpoint
  /\ UNCHANGED <<log, found, graph, restarts, caller>>

(* ... makes its handler's next store call ... *)
StoreCall ==
  /\ work # <<>>
  /\ \E k \in Head(work) :
       /\ ~ Poisons(graph, k)
       /\ graph' = Write(graph, k)
       /\ work' = Remaining(graph, work, k)
  /\ UNCHANGED <<log, found, cursor, checkpoint, restarts, caller>>

(* Mutant: a poison event is tried again for ever. *)
RetryForEver ==
  /\ work # <<>>
  /\ \E k \in Head(work) : Poisons(graph, k)
  /\ UNCHANGED vars

(* ... or gives the event up to the dead-letter queue and carries on. *)
DeadLetter ==
  /\ work # <<>>
  /\ \E k \in Head(work) : Poisons(graph, k)
  /\ work' = <<>>
  /\ UNCHANGED <<log, found, graph, cursor, checkpoint, restarts, caller>>

(* The events whose handler has returned. *)
Handled == IF work = <<>> THEN cursor ELSE cursor - 1

(* Mutant: the checkpoint is written before the handler runs. *)
RestartAfterDelivery ==
  /\ restarts < MaxRestarts
  /\ OneAtATime => AllIdle
  /\ restarts' = restarts + 1
  /\ work' = <<>>
  /\ UNCHANGED <<log, found, graph, cursor, checkpoint, caller>>

(* The projection dies, between events or in the middle of one, and is given
   the events after its checkpoint again. *)
Restart ==
  /\ restarts < MaxRestarts
  /\ OneAtATime => AllIdle
  /\ restarts' = restarts + 1
  /\ \E k \in checkpoint..Handled : cursor' = k /\ checkpoint' = k
  /\ work' = <<>>
  /\ UNCHANGED <<log, found, graph, caller>>

(* rebuild: wipe the tenant, then replay from the beginning. *)
Rebuild ==
  /\ restarts < MaxRestarts
  /\ OneAtATime => AllIdle
  /\ restarts' = restarts + 1
  /\ graph' = EmptyGraph
  /\ cursor' = 0
  /\ checkpoint' = 0
  /\ work' = <<>>
  /\ UNCHANGED <<log, found, caller>>

-----------------------------------------------------------------------------
(* ConsolidationService.merge, one step per await *)

Plan(s, canonical, merged, attempt) ==
  caller' = [caller EXCEPT ![s] =
    [Idle EXCEPT !.phase = "edges", !.canonical = canonical, !.merged = merged,
                 !.plan = PlanRedirections(graph, canonical, merged),
                 !.attempt = attempt]]

(* get_relationships_for, and the edge plan made of its answer. *)
ReadEdges(s, q) ==
  /\ MayStart
  /\ caller[s].phase = "idle"
  /\ Plan(s, q.canonical, q.merged, 1)
  /\ UNCHANGED <<log, found, graph, cursor, checkpoint, work, restarts>>

(* get_entities, and the canonical's resolved row. MissingEntityError when it
   has none. *)
ReadEntities(s) ==
  LET c == caller[s] IN
    /\ c.phase = "edges"
    /\ caller' = [caller EXCEPT ![s] =
         IF HasRow(graph, c.canonical)
         THEN [c EXCEPT !.phase = "planned",
                        !.before = graph.rows[c.canonical],
                        !.after = PlanRow(graph, c.canonical, c.merged)]
         ELSE Idle]
    /\ UNCHANGED <<log, found, graph, cursor, checkpoint, work, restarts>>

(* MergeIntoAliasError, DoubleMergeError *)
MergeRefused(canonical, merged) ==
  \E x \in merged \union {canonical} : AliasOf(x) # NotAlias

(* load_or_create and ConsolidationLog.merge. *)
LoadAndMerge(s) ==
  LET c == caller[s] IN
    /\ c.phase = "planned"
    /\ caller' = [caller EXCEPT ![s] =
         IF MergeRefused(c.canonical, c.merged) THEN Idle
         ELSE [c EXCEPT !.phase = "loaded", !.version = Version]]
    /\ UNCHANGED <<log, found, graph, cursor, checkpoint, work, restarts>>

(* ConsolidationService.undo: load_or_create and undo_merge, no graph read. *)
LoadAndUndo(s, i) ==
  /\ MayStart
  /\ caller[s].phase = "idle"
  /\ caller' = [caller EXCEPT ![s] =
       [Idle EXCEPT !.phase = "loaded", !.undo = i, !.version = Version]]
  /\ UNCHANGED <<log, found, graph, cursor, checkpoint, work, restarts>>

(* The event a loaded call appends: an undo's payload is the merge's record. *)
EventOf(c) ==
  IF c.undo = 0
  THEN [type |-> "merged", canonical |-> c.canonical, merged |-> c.merged,
        redirections |-> c.plan, before |-> c.before, after |-> c.after]
  ELSE [type |-> "undone", merge |-> c.undo, canonical |-> log[c.undo].canonical,
        unmerged |-> log[c.undo].merged,
        redirections |-> log[c.undo].redirections, before |-> log[c.undo].before]

(* Mutant: the append does not compare versions. *)
SaveUnchecked(s) ==
  /\ caller[s].phase = "loaded"
  /\ Len(log) < MaxEvents
  /\ log' = Append(log, EventOf(caller[s]))
  /\ caller' = [caller EXCEPT ![s] = Idle]
  /\ UNCHANGED <<found, graph, cursor, checkpoint, work, restarts>>

Save(s) ==
  /\ caller[s].phase = "loaded"
  /\ Version = caller[s].version
  /\ Len(log) < MaxEvents
  /\ log' = Append(log, EventOf(caller[s]))
  /\ caller' = [caller EXCEPT ![s] = Idle]
  /\ UNCHANGED <<found, graph, cursor, checkpoint, work, restarts>>

(* OptimisticLockError: a merge reads the graph and plans again, up to
   MaxAttempts times; an undo gives up. *)
SaveConflict(s) ==
  LET c == caller[s] IN
    /\ c.phase = "loaded"
    /\ Version # c.version
    /\ IF c.undo = 0 /\ c.attempt < MaxAttempts
       THEN Plan(s, c.canonical, c.merged, c.attempt + 1)
       ELSE caller' = [caller EXCEPT ![s] = Idle]
    /\ UNCHANGED <<log, found, graph, cursor, checkpoint, work, restarts>>

(* The caller is cancelled or dies. *)
Abandon(s) ==
  /\ caller[s].phase # "idle"
  /\ caller' = [caller EXCEPT ![s] = Idle]
  /\ UNCHANGED <<log, found, graph, cursor, checkpoint, work, restarts>>

Next ==
  \/ \E r \in Extractions : Extract(r)
  \/ Deliver \/ StoreCall \/ DeadLetter \/ Restart \/ Rebuild
  \/ \E s \in Callers :
       \/ \E q \in Requests : ReadEdges(s, q)
       \/ ReadEntities(s) \/ LoadAndMerge(s)
       \/ \E i \in EffectiveMerges(Len(log)) : LoadAndUndo(s, i)
       \/ Save(s) \/ SaveConflict(s) \/ Abandon(s)

Spec == Init /\ [][Next]_vars

(* The projection's subscription keeps being driven. *)
Projecting == WF_vars(Deliver) /\ WF_vars(StoreCall \/ DeadLetter)

FairSpec == Spec /\ Projecting

-----------------------------------------------------------------------------
(* Properties *)

TypeOK ==
  /\ log \in Seq(Event)
  /\ found \in [Documents -> SUBSET Entities]
  /\ graph \in Graph
  /\ cursor \in 0..Len(log)
  /\ checkpoint \in 0..cursor
  /\ work \in Seq(SUBSET Call)
  /\ restarts \in 0..MaxRestarts
  /\ caller \in [Callers -> CallerState]

(* No stored edge points at an entity without a row or at itself: not half way
   through a handler, not after a crash, a rebuild or a dead-lettered event,
   however old the graph a merge was planned against
   (projections/graph.py, planning.py:150-157). *)
EdgesWellFormed == NoDanglingIn(graph) /\ NoSelfLoopIn(graph)

(* What an undo restores was an edge between two different entities. *)
LogEdgesWellFormed ==
  \A i \in 1..Len(log) : IsConsolidation(log[i]) =>
    \A d \in log[i].redirections :
      /\ d.before.source # d.before.target
      /\ d.after # NoEdge => d.after.source # d.after.target

(* Once every event is projected, the alias rows are those of the merges in
   effect: whatever was redelivered, rebuilt, or planned on a stale graph
   (projections/graph.py). *)
AliasesMatchLog ==
  Settled => \A x \in Entities : graph.aliases[x] = AliasOf(x)

(* Once every event is projected, the store holds what folding the log into an
   empty store gives: redelivering a suffix changes nothing in the end
   (projections/graph.py:58-64 "the final state is the log's"). *)
ReplayEquivalence == Settled => graph = FoldOf(log)[Len(log)]

(* Undo j reversed the latest merge then in effect. *)
ReversesLatest(j) == \A k \in EffectiveMerges(j - 1) : k <= log[j].merge

UndoneInOrder ==
  \A j \in 1..Len(log) : log[j].type = "undone" => ReversesLatest(j)

(* No stored edge ever points at nothing or at itself, and once every event is
   projected, none points at an entity that was merged away
   (projections/graph.py: an edge on B belongs on C), as long as merges were
   undone last first. *)
EdgesOnCanonicals ==
  /\ EdgesWellFormed
  /\ Settled /\ UndoneInOrder => EdgesOnCanonicalsIn(graph)

(* Between events i and j there are only merges that were also undone there,
   last first. *)
Cancelled(i, j) ==
  \A k \in (i + 1)..(j - 1) :
    \/ /\ log[k].type = "merged"
       /\ \E u \in (k + 1)..(j - 1) : log[u].type = "undone" /\ log[u].merge = k
    \/ log[k].type = "undone" /\ log[k].merge > i /\ ReversesLatest(k)

(* Undoing a merge, with nothing but other merges made and undone since, gives
   back the graph the merge found: edges, aliases and rows
   (planning.py:31-32 "merge-then-undo still reproduces the pre-merge graph
   exactly"). *)
UndoIsInverse ==
  \A j \in 1..Len(log) :
    log[j].type = "undone" /\ Cancelled(log[j].merge, j) =>
      FoldOf(log)[j] = FoldOf(log)[log[j].merge - 1]

(* No two edges make the same claim once every event is projected
   (planning.py:64-70, BACKLOG.md:131-210). *)
OneEdgePerClaim == Settled => OneEdgePerClaimIn(graph)

(* Following alias rows always ends, at every moment
   (service.py, resolve: "no chain can point back on itself"). *)
NoAliasCycle == NoAliasCycleIn(graph)

(* At every moment, whatever raced, whatever was planned on a stale graph,
   redelivered or dead-lettered: alias rows lead somewhere, stored edges join
   two different entities that have rows, and so did those an undo would
   restore. *)
GraphWellFormed == NoAliasCycle /\ EdgesWellFormed /\ LogEdgesWellFormed

(* The projection never wedges: it gets through any log, dead-lettering what
   it cannot apply. *)
CatchesUp == <>[](work = <<>> /\ cursor = Len(log))
=============================================================================
