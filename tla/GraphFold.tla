----------------------------- MODULE GraphFold -----------------------------
(***************************************************************************)
(* How `GraphProjection` folds an event into the graph store:              *)
(* src/src/redstring/projections/graph.py.                                 *)
(*                                                                         *)
(* A handler is a sequence of store calls with an await between any two.   *)
(* Here it is a sequence of stages, each a set of calls made in any order  *)
(* (the order of a payload's list is not meaningful); a call that reads    *)
(* the store puts the calls its answer leads to in front of the rest.      *)
(***************************************************************************)
EXTENDS MergePlan, Sequences

(* The payloads.  A merge's id is its position in the log; source documents
   and reasons are not read by the fold. *)
ExtractedEvent == [type : {"extracted"}, entities : SUBSET Entities,
                   claims : SUBSET Claims, retracted : SUBSET Entities]
MergedEvent == [type : {"merged"}, canonical : Entities,
                merged : SUBSET Entities, redirections : SUBSET Redirection,
                before : Row, after : Row]
UndoneEvent == [type : {"undone"}, merge : Nat, canonical : Entities,
                unmerged : SUBSET Entities, redirections : SUBSET Redirection,
                before : Row]
Event == ExtractedEvent \union MergedEvent \union UndoneEvent

EdgeUpdate == [id : Claims, edge : Edge]

Call == [call : {"rows"}, entities : SUBSET Entities]
          \union [call : {"retract"}, entity : Entities]
          \union [call : {"delete"}, id : Claims]
          \union [call : {"resolve"}, claims : SUBSET Claims]
          \union [call : {"edges"}, batch : SUBSET EdgeUpdate]
          \union [call : {"alias"}, alias : Entities, canonical : Entities]
          \union [call : {"unalias"}, alias : Entities]
          \union [call : {"fields"}, entity : Entities, row : Row]

Stage(calls) == IF calls = {} THEN <<>> ELSE <<calls>>

Deletes(ids) == Stage({[call |-> "delete", id |-> c] : c \in ids})

(* Mutant: only moved edges are restored, not dropped ones. *)
RestoredMoves(redirections) ==
  {[id |-> d.id, edge |-> d.before] : d \in {m \in redirections : m.after # NoEdge}}

(* restored_relationships: every edge the merge changed, as it was before. *)
Restored(redirections) == {[id |-> d.id, edge |-> d.before] : d \in redirections}

(* _apply_extraction *)
ExtractionCalls(e) ==
  Stage({[call |-> "rows", entities |-> e.entities]})
    \o Stage({[call |-> "retract", entity |-> x] : x \in e.retracted})
    \o Stage({[call |-> "resolve", claims |-> e.claims]})

(* _apply_merge: aliases, redirections, then the canonical's fields. *)
MergeCalls(e) ==
  Stage({[call |-> "alias", alias |-> x, canonical |-> e.canonical] : x \in e.merged})
    \o Stage({IF d.after = NoEdge
              THEN [call |-> "delete", id |-> d.id]
              ELSE [call |-> "edges", batch |-> {[id |-> d.id, edge |-> d.after]}] :
                d \in e.redirections})
    \o Stage({[call |-> "fields", entity |-> e.canonical, row |-> e.after]})

(* Mutant: an undo forgets the alias rows. *)
UndoCallsKeepAliases(e) ==
  Stage({[call |-> "edges", batch |-> Restored(e.redirections)]})
    \o Stage({[call |-> "fields", entity |-> e.canonical, row |-> e.before]})

(* _apply_undo *)
UndoCalls(e) ==
  Stage({[call |-> "unalias", alias |-> x] : x \in e.unmerged})
    \o Stage({[call |-> "edges", batch |-> Restored(e.redirections)]})
    \o Stage({[call |-> "fields", entity |-> e.canonical, row |-> e.before]})

HandlerCalls(e) ==
  CASE e.type = "extracted" -> ExtractionCalls(e)
    [] e.type = "merged"    -> MergeCalls(e)
    [] e.type = "undone"    -> UndoCalls(e)

-----------------------------------------------------------------------------
(* _resolved: the document's edges on the canonical entities, without the
   ones whose endpoints collapsed into one. *)

(* Mutants: the edge is written where the document put it; edges whose
   endpoints became one entity are not dropped. *)
UnresolvedEdge(g, c) == ClaimedEdge(c)
NoneCollapsed(g, claims) == {}

ResolvedEdge(g, c) == [source |-> Resolve(g, c[1]), target |-> Resolve(g, c[2])]

Collapsed(g, claims) == {c \in claims : IsSelfLoop(ResolvedEdge(g, c))}

ResolvedBatch(g, claims) ==
  {[id |-> c, edge |-> ResolvedEdge(g, c)] : c \in claims \ Collapsed(g, claims)}

(* A call the store refuses: the event goes to the dead-letter queue and what
   its handler already wrote stays. *)
Poisons(g, k) ==
  \/ k.call = "resolve" /\ \E c \in k.claims : CyclicFrom(g, c[1]) \/ CyclicFrom(g, c[2])
  \/ k.call = "edges" /\ ~ EndpointsExist(g, k.batch)
  \/ k.call = "fields" /\ ~ HasRow(g, k.entity)

(* What a call writes ... *)
Write(g, k) ==
  CASE k.call = "rows" -> UpsertExtracted(g, k.entities)
    [] k.call = "retract" ->
         IF HasRow(g, k.entity)
         THEN UpsertEntity(g, k.entity, g.rows[k.entity] \union {Retracted})
         ELSE g
    [] k.call = "delete" -> DeleteRelationship(g, k.id)
    [] k.call = "resolve" -> g
    [] k.call = "edges" -> UpsertRelationships(g, k.batch)
    [] k.call = "alias" -> UpsertAlias(g, k.alias, k.canonical)
    [] k.call = "unalias" -> RemoveAlias(g, k.alias)
    [] k.call = "fields" -> UpsertEntity(g, k.entity, k.row)

(* ... and the calls its answer leads to. *)
FollowUps(g, k) ==
  CASE k.call = "retract" -> Deletes(RelationshipsFor(g, {k.entity}))
    [] k.call = "resolve" ->
         Deletes(Collapsed(g, k.claims))
           \o Stage({[call |-> "edges", batch |-> ResolvedBatch(g, k.claims)]})
    [] OTHER -> <<>>

(* The stages left once call k of the first stage has returned. *)
Remaining(g, work, k) ==
  FollowUps(g, k) \o Stage(Head(work) \ {k}) \o Tail(work)

-----------------------------------------------------------------------------
(* What an event means to the graph, all its calls at once: the fold a log
   has whoever delivers it.  A document whose edges are refused keeps its
   entities and retractions. *)

Without(g, ids) == [g EXCEPT !.rels = [c \in Claims |-> IF c \in ids THEN NoEdge ELSE @[c]]]

FoldExtracted(g, e) ==
  LET rows == [x \in Entities |->
                 LET row == IF x \in e.entities THEN {x} ELSE g.rows[x]
                 IN IF x \in e.retracted /\ row # {} THEN row \union {Retracted}
                    ELSE row]
      cleared == Without([g EXCEPT !.rows = rows], RelationshipsFor(g, e.retracted))
      collapsed == Without(cleared, Collapsed(cleared, e.claims))
      batch == ResolvedBatch(cleared, e.claims)
  IN IF \E c \in e.claims : CyclicFrom(cleared, c[1]) \/ CyclicFrom(cleared, c[2])
     THEN cleared
     ELSE IF EndpointsExist(collapsed, batch)
          THEN UpsertRelationships(collapsed, batch)
          ELSE collapsed

FoldMerged(g, e) ==
  LET kept == {d \in e.redirections : d.after # NoEdge}
      dropped == {d.id : d \in e.redirections \ kept}
      moved == {[id |-> d.id, edge |-> d.after] : d \in kept}
  IN UpsertEntity(
       UpsertRelationships(
         [Without(g, dropped) EXCEPT !.aliases =
            [x \in Entities |-> IF x \in e.merged THEN e.canonical ELSE @[x]]],
         moved),
       e.canonical, e.after)

FoldUndone(g, e) ==
  UpsertEntity(
    UpsertRelationships(
      [g EXCEPT !.aliases = [x \in Entities |-> IF x \in e.unmerged THEN NotAlias ELSE @[x]]],
      Restored(e.redirections)),
    e.canonical, e.before)

FoldEvent(g, e) ==
  CASE e.type = "extracted" -> FoldExtracted(g, e)
    [] e.type = "merged"    -> FoldMerged(g, e)
    [] e.type = "undone"    -> FoldUndone(g, e)

(* The graph after the first n events, starting from an empty store. *)
FoldOf(log) ==
  LET fold[n \in 0..Len(log)] ==
        IF n = 0 THEN EmptyGraph ELSE FoldEvent(fold[n - 1], log[n])
  IN fold
=============================================================================
