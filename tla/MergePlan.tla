----------------------------- MODULE MergePlan -----------------------------
(***************************************************************************)
(* What a merge decides, as a function of the graph the service read:      *)
(* src/src/redstring/consolidation/planning.py.                            *)
(***************************************************************************)
EXTENDS GraphStore

CONSTANT Rank   \* duplicate_preference: a total order on relationship ids

ASSUME RankAssumption ==
  /\ Rank \in [Claims -> Nat]
  /\ \A c, k \in Claims : Rank[c] = Rank[k] => c = k

Redirection == [id : Claims, before : Edge, after : Edge \union {NoEdge}]

Redirect(x, canonical, merged) == IF x \in merged THEN canonical ELSE x

(* The edge with its endpoints moved onto the canonical entity. *)
Moved(edge, canonical, merged) ==
  [source |-> Redirect(edge.source, canonical, merged),
   target |-> Redirect(edge.target, canonical, merged)]

IsSelfLoop(edge) == edge.source = edge.target

(* Among the edges that end up with the same endpoints, only the highest
   ranked survives; a self-loop never does. *)
Survives(g, canonical, merged, c) ==
  LET Final(k) == Moved(g.rels[k], canonical, merged)
      relevant == RelationshipsFor(g, {canonical} \union merged)
  IN /\ ~ IsSelfLoop(Final(c))
     /\ \A k \in relevant : Final(k) = Final(c) => Rank[k] <= Rank[c]

(* plan_redirections: one entry per edge that is moved or dropped. *)
PlanRedirections(g, canonical, merged) ==
  LET Final(k) == Moved(g.rels[k], canonical, merged)
      relevant == RelationshipsFor(g, {canonical} \union merged)
  IN {[id |-> c, before |-> g.rels[c], after |-> NoEdge] :
        c \in {k \in relevant : ~ Survives(g, canonical, merged, k)}}
     \union
     {[id |-> c, before |-> g.rels[c], after |-> Final(c)] :
        c \in {k \in relevant : Survives(g, canonical, merged, k)
                                  /\ Final(k) # g.rels[k]}}

(* plan_properties with the default policy: every key of the group; an
   absorbed entity without a row adds none. *)
PlanRow(g, canonical, merged) == UNION {g.rows[x] : x \in {canonical} \union merged}
=============================================================================
