-------------------------- MODULE ConsolidationLog --------------------------
(***************************************************************************)
(* One tenant's `ConsolidationLog` aggregate behind its repository:        *)
(* src/src/redstring/aggregates/consolidation_log.py and repositories.py,  *)
(* events/merge.py.                                                        *)
(*                                                                         *)
(* Several sessions (service calls, possibly in several processes) run     *)
(* load - command - save against one stream.  A load starts from the       *)
(* latest snapshot and replays the events after it; a command checks the   *)
(* replayed state and applies its event to that copy; a save appends only  *)
(* if nobody else appended since the load (optimistic concurrency).        *)
(*                                                                         *)
(* A merge's event id is a fresh UUID in the code.  Here it is the stream  *)
(* position the event takes, which is as unique and is only ever visible   *)
(* once the event is in the stream.                                        *)
(***************************************************************************)
EXTENDS Integers, Sequences

CONSTANTS
  Entities,       \* the tenant's entity ids
  Redirections,   \* the edge plan a merge records, opaque to the aggregate
  NotAlias,       \* "no entry in alias_of"
  NoEvent,        \* no uncommitted event
  Sessions,       \* concurrent callers of the repository
  SnapshotEvery,  \* CONSOLIDATION_SNAPSHOT_EVERY
  MaxEvents       \* bound on the length of the stream

ASSUME NotAliasAssumption == NotAlias \notin Entities
ASSUME SnapshotAssumption == SnapshotEvery \in Nat \ {0}
ASSUME BoundAssumption == MaxEvents \in Nat

VARIABLES
  stream,    \* the committed events of the tenant's consolidation stream
  snapshot,  \* the latest snapshot: a state and the version it was taken at
  phase,     \* what each session is doing
  agg,       \* each session's copy of the aggregate, with its version
  pending    \* each session's uncommitted event

vars == <<stream, snapshot, phase, agg, pending>>

-----------------------------------------------------------------------------
(* Events and aggregate state *)

MergedEvent == [type : {"merged"}, canonical : Entities,
                merged : SUBSET Entities, redirections : Redirections]
UndoneEvent == [type : {"undone"}, merge : Nat, canonical : Entities,
                unmerged : SUBSET Entities, restored : Redirections]
Event == MergedEvent \union UndoneEvent

MergeRecord == [id : Nat, canonical : Entities, merged : SUBSET Entities,
                redirections : Redirections, undone : BOOLEAN]

State == [version : Nat, merges : SUBSET MergeRecord,
          alias_of : [Entities -> Entities \union {NotAlias}]]

InitialState ==
  [version |-> 0, merges |-> {}, alias_of |-> [x \in Entities |-> NotAlias]]

Phases == {"idle", "replaying", "loaded", "pending", "saved"}

(* _apply_merged: remember the merge and make each absorbed entity an alias. *)
ApplyMerged(st, e) ==
  [version  |-> st.version + 1,
   merges   |-> st.merges \union
                  {[id |-> st.version + 1, canonical |-> e.canonical,
                    merged |-> e.merged, redirections |-> e.redirections,
                    undone |-> FALSE]},
   alias_of |-> [x \in Entities |->
                   IF x \in e.merged THEN e.canonical ELSE st.alias_of[x]]]

(* Mutant: an undo leaves its alias entries behind. *)
ApplyUndoneKeepsAliases(st, e) ==
  [version  |-> st.version + 1,
   merges   |-> {IF r.id = e.merge THEN [r EXCEPT !.undone = TRUE] ELSE r :
                   r \in st.merges},
   alias_of |-> st.alias_of]

(* _apply_undone: mark the merge undone and drop its alias entries, whoever
   they point to. *)
ApplyUndone(st, e) ==
  [version  |-> st.version + 1,
   merges   |-> {IF r.id = e.merge THEN [r EXCEPT !.undone = TRUE] ELSE r :
                   r \in st.merges},
   alias_of |-> [x \in Entities |->
                   IF x \in e.unmerged THEN NotAlias ELSE st.alias_of[x]]]

Apply(st, e) ==
  IF e.type = "merged" THEN ApplyMerged(st, e) ELSE ApplyUndone(st, e)

-----------------------------------------------------------------------------
Init ==
  /\ stream = <<>>
  /\ snapshot = InitialState
  /\ phase = [s \in Sessions |-> "idle"]
  /\ agg = [s \in Sessions |-> InitialState]
  /\ pending = [s \in Sessions |-> NoEvent]

(* Back to idle, dropping the session's copy and anything uncommitted. *)
EndSession(s) ==
  /\ phase' = [phase EXCEPT ![s] = "idle"]
  /\ agg' = [agg EXCEPT ![s] = InitialState]
  /\ pending' = [pending EXCEPT ![s] = NoEvent]

(* load_or_create reads the snapshot first ... *)
StartLoad(s) ==
  /\ phase[s] = "idle"
  /\ phase' = [phase EXCEPT ![s] = "replaying"]
  /\ agg' = [agg EXCEPT ![s] = snapshot]
  /\ UNCHANGED <<stream, snapshot, pending>>

(* ... then folds the events after it, oldest first. *)
ReplayNext(s) ==
  /\ phase[s] = "replaying"
  /\ agg[s].version < Len(stream)
  /\ agg' = [agg EXCEPT ![s] = Apply(agg[s], stream[agg[s].version + 1])]
  /\ UNCHANGED <<stream, snapshot, phase, pending>>

EndLoad(s) ==
  /\ phase[s] = "replaying"
  /\ agg[s].version = Len(stream)
  /\ phase' = [phase EXCEPT ![s] = "loaded"]
  /\ UNCHANGED <<stream, snapshot, agg, pending>>

(* The canonical entity must not be an alias (MergeIntoAliasError) ... *)
CanonicalAllowed(st, canonical) == st.alias_of[canonical] = NotAlias

(* Mutant: the batch is accepted if one of it may be absorbed. *)
SomeAbsorbedAllowed(st, merged) == \E x \in merged : st.alias_of[x] = NotAlias

(* ... and no absorbed entity may be one either, the whole batch being
   checked (DoubleMergeError). *)
AbsorbedAllowed(st, merged) == \A x \in merged : st.alias_of[x] = NotAlias

(* merge(): both checks, then the event's own validator (a merge is never
   empty and never into itself), then the event is applied to the copy. *)
MergeCommand(s, canonical, merged, redirections) ==
  LET e == [type |-> "merged", canonical |-> canonical, merged |-> merged,
            redirections |-> redirections]
  IN /\ phase[s] = "loaded"
     /\ agg[s].version < MaxEvents
     /\ CanonicalAllowed(agg[s], canonical)
     /\ AbsorbedAllowed(agg[s], merged)
     /\ merged # {}
     /\ canonical \notin merged
     /\ phase' = [phase EXCEPT ![s] = "pending"]
     /\ pending' = [pending EXCEPT ![s] = e]
     /\ agg' = [agg EXCEPT ![s] = Apply(agg[s], e)]
     /\ UNCHANGED <<stream, snapshot>>

(* Mutant: a merge already undone may be undone again. *)
Recorded(st, r) == r \in st.merges

(* _merge_in_effect: the record an undo may reverse. *)
InEffect(st, r) == r \in st.merges /\ ~ r.undone

(* undo_merge(): the payload is derived from the replayed record. *)
UndoCommand(s, r) ==
  LET e == [type |-> "undone", merge |-> r.id, canonical |-> r.canonical,
            unmerged |-> r.merged, restored |-> r.redirections]
  IN /\ phase[s] = "loaded"
     /\ agg[s].version < MaxEvents
     /\ InEffect(agg[s], r)
     /\ phase' = [phase EXCEPT ![s] = "pending"]
     /\ pending' = [pending EXCEPT ![s] = e]
     /\ agg' = [agg EXCEPT ![s] = Apply(agg[s], e)]
     /\ UNCHANGED <<stream, snapshot>>

(* Mutant: whoever saves last wins. *)
NoVersionCheck(s) == TRUE

(* The append succeeds only at the version the aggregate was loaded at. *)
VersionMatches(s) == Len(stream) = agg[s].version - 1

Save(s) ==
  /\ phase[s] = "pending"
  /\ VersionMatches(s)
  /\ stream' = Append(stream, pending[s])
  /\ phase' = [phase EXCEPT ![s] = "saved"]
  /\ pending' = [pending EXCEPT ![s] = NoEvent]
  /\ UNCHANGED <<snapshot, agg>>

(* OptimisticLockError: nothing is written and the copy is thrown away. *)
SaveConflict(s) ==
  /\ phase[s] = "pending"
  /\ ~ VersionMatches(s)
  /\ EndSession(s)
  /\ UNCHANGED <<stream, snapshot>>

(* Every SnapshotEvery events a save is followed by a snapshot write. *)
WriteSnapshot(s) ==
  /\ phase[s] = "saved"
  /\ agg[s].version % SnapshotEvery = 0
  /\ snapshot' = agg[s]
  /\ EndSession(s)
  /\ UNCHANGED stream

(* A command refused by its checks, a save with no snapshot due, and a caller
   that dies between any two steps all end the same way: the copy is gone and
   the stream is what it was. *)
Leave(s) ==
  /\ phase[s] # "idle"
  /\ EndSession(s)
  /\ UNCHANGED <<stream, snapshot>>

Next ==
  \E s \in Sessions :
    \/ StartLoad(s) \/ ReplayNext(s) \/ EndLoad(s)
    \/ \E c \in Entities, m \in SUBSET Entities, p \in Redirections :
         MergeCommand(s, c, m, p)
    \/ \E r \in agg[s].merges : UndoCommand(s, r)
    \/ Save(s) \/ SaveConflict(s) \/ WriteSnapshot(s) \/ Leave(s)

Spec == Init /\ [][Next]_vars

-----------------------------------------------------------------------------
(* What a log says, read declaratively rather than by folding it *)

IsMerge(log, i) == log[i].type = "merged"

UndoneBy(log, i, v) ==
  \E j \in 1..v : log[j].type = "undone" /\ log[j].merge = i

(* The merges in effect after the first v events. *)
EffectiveAt(log, v) == {i \in 1..v : IsMerge(log, i) /\ ~ UndoneBy(log, i, v)}

(* A copy of the aggregate remembers the merges among the first st.version
   events, and which of them were undone ... *)
RecordsAgree(log, st) ==
  /\ \A r \in st.merges :
       /\ r.id \in 1..st.version
       /\ IsMerge(log, r.id)
       /\ r.canonical = log[r.id].canonical
       /\ r.merged = log[r.id].merged
       /\ r.redirections = log[r.id].redirections
       /\ r.undone = UndoneBy(log, r.id, st.version)
  /\ \A i \in 1..st.version : IsMerge(log, i) => \E r \in st.merges : r.id = i

(* ... and its aliases are those of the merges in effect. *)
AliasesAgree(log, st) ==
  /\ \A i \in EffectiveAt(log, st.version) : \A x \in log[i].merged :
       st.alias_of[x] = log[i].canonical
  /\ \A x \in Entities :
       st.alias_of[x] # NotAlias =>
         \E i \in EffectiveAt(log, st.version) : x \in log[i].merged

ReplayOf(log, st) ==
  /\ st.version \in 0..Len(log)
  /\ RecordsAgree(log, st)
  /\ AliasesAgree(log, st)

SingleParentAt(log, v) ==
  \A i, k \in EffectiveAt(log, v) :
    log[i].merged \intersect log[k].merged # {} => i = k

ChainsForwardAt(log, v) ==
  \A i, k \in EffectiveAt(log, v) :
    log[i].canonical \in log[k].merged => i < k

(* The j-th event, an undo, reverses an earlier merge that is still in effect
   and carries exactly what that merge recorded. *)
RestoresItsMerge(log, j) ==
  LET i == log[j].merge IN
    /\ i \in EffectiveAt(log, j - 1)
    /\ log[j].canonical = log[i].canonical
    /\ log[j].unmerged = log[i].merged
    /\ log[j].restored = log[i].redirections

-----------------------------------------------------------------------------
(* Properties *)

(* Every variable has its type; a session with nothing pending has no event. *)
TypeOK ==
  /\ stream \in Seq(Event)
  /\ snapshot \in State
  /\ phase \in [Sessions -> Phases]
  /\ agg \in [Sessions -> State]
  /\ pending \in [Sessions -> Event \union {NoEvent}]
  /\ \A s \in Sessions : phase[s] = "pending" => pending[s] \in Event

(* Rehydration is replay: the snapshot, and every copy that has no uncommitted
   event, says what the events up to its version say -- whatever snapshots,
   conflicts and deaths came before (consolidation_log.py:197-224). *)
CopiesAreReplays ==
  /\ ReplayOf(stream, snapshot)
  /\ \A s \in Sessions :
       phase[s] \in {"replaying", "loaded", "saved"} => ReplayOf(stream, agg[s])

(* No entity has two canonical parents: merges in effect at the head of the
   stream absorbed disjoint sets of entities, although concurrent sessions
   checked stale copies (consolidation_log.py:1-31). *)
SingleParent == SingleParentAt(stream, Len(stream))

(* The canonical of a merge in effect was absorbed, if at all, by a later
   merge: alias chains go forward in the stream and cannot close into a cycle
   (consolidation_log.py:129-135). *)
ChainsGoForward == ChainsForwardAt(stream, Len(stream))

(* Every undo in the stream reverses an earlier merge that was then in effect,
   so never twice, and carries what that merge recorded
   (consolidation_log.py:159-188). *)
UndoRestoresItsMerge ==
  \A j \in 1..Len(stream) :
    stream[j].type = "undone" => RestoresItsMerge(stream, j)

(* The abstract ledger this log implements: its merges in effect are the ones
   the stream says are in effect. *)
LiveMergeOf(log, i) ==
  [id |-> i, canonical |-> log[i].canonical, merged |-> log[i].merged,
   redirections |-> log[i].redirections]

LedgerLive(log) == {LiveMergeOf(log, i) : i \in EffectiveAt(log, Len(log))}

Ledger == INSTANCE MergeLedger WITH live <- LedgerLive(stream), count <- Len(stream)

(* Every behaviour of the log is a behaviour of the ledger: a save appends one
   merge or undo the ledger allows, every other step leaves the ledger alone
   (aggregates/repositories.py, consolidation_log.py). *)
ImplementsLedger == Ledger!Spec

(* docs/how-to/use-the-write-model.md says MergeIntoAliasError "is what keeps
   `alias_of` one level deep": the canonical of an alias is never an alias. *)
AliasOfOneLevelDeep ==
  \A s \in Sessions : phase[s] = "loaded" =>
    \A x \in Entities :
      LET parent == agg[s].alias_of[x]
      IN parent # NotAlias => agg[s].alias_of[parent] = NotAlias
=============================================================================
