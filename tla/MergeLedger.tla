---------------------------- MODULE MergeLedger ----------------------------
(***************************************************************************)
(* What one tenant's consolidation log promises, with everything about     *)
(* HOW it is stored left out: a set of merges in effect, each of which can *)
(* be reversed exactly once.  src/src/redstring/aggregates/                *)
(* consolidation_log.py states the three rules in its module docstring;    *)
(* here they are the two guards of Merge and the guard of Undo.            *)
(*                                                                         *)
(* ConsolidationLog.tla, with its concurrent sessions, expected versions   *)
(* and snapshots, is shown to implement this specification.                *)
(***************************************************************************)
EXTENDS Integers

CONSTANTS
  Entities,     \* the tenant's entity ids
  Redirections  \* what a merge records it did to the edges, left opaque

VARIABLES
  live,   \* the merges in effect
  count   \* how many events the tenant's log has recorded

vars == <<live, count>>

LiveMerge == [id : Nat, canonical : Entities, merged : SUBSET Entities,
              redirections : Redirections]

TypeOK ==
  /\ live \subseteq LiveMerge
  /\ count \in Nat

IsAlias(x) == \E r \in live : x \in r.merged

Init ==
  /\ live = {}
  /\ count = 0

(* Absorb `merged` into `canonical`; neither side may already be an alias. *)
Merge(canonical, merged, redirections) ==
  /\ merged # {}
  /\ canonical \notin merged
  /\ ~ IsAlias(canonical)
  /\ \A x \in merged : ~ IsAlias(x)
  /\ live' = live \union {[id |-> count + 1, canonical |-> canonical,
                           merged |-> merged, redirections |-> redirections]}
  /\ count' = count + 1

(* Reverse one merge that is in effect. *)
Undo(r) ==
  /\ live' = live \ {r}
  /\ count' = count + 1

Next ==
  \/ \E c \in Entities, m \in SUBSET Entities, p \in Redirections : Merge(c, m, p)
  \/ \E r \in live : Undo(r)

Spec == Init /\ [][Next]_vars

(***************************************************************************)
(* An entity has at most one canonical parent: two merges in effect never  *)
(* absorbed the same entity.                                               *)
(***************************************************************************)
SingleParent ==
  \A r, q \in live : r.merged \intersect q.merged # {} => r = q

(***************************************************************************)
(* The canonical of a merge can only have been absorbed by a LATER merge,  *)
(* so ids strictly increase along an alias chain: following aliases never  *)
(* returns to where it started and takes at most `count` steps.            *)
(***************************************************************************)
ChainsGoForward ==
  \A r, q \in live : r.canonical \in q.merged => r.id < q.id
=============================================================================
