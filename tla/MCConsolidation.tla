-------------------------- MODULE MCConsolidation --------------------------
(* Consolidation for TLC: three entities and the edges between them, found by
   runs over one document, each run finding something else. *)
EXTENDS Consolidation, TLC

CONSTANTS a, b, x, d1, s1, s2

MCClaims == {<<a, x>>, <<b, x>>, <<a, b>>}

MCRank == (<<a, x>> :> 1) @@ (<<b, x>> :> 2) @@ (<<a, b>> :> 3)

Run(entities, claims) == [doc |-> d1, entities |-> entities, claims |-> claims]

(* One run finds everything, one misses two edges, one misses b. *)
AllRuns == {Run({a, b, x}, MCClaims), Run({a, b, x}, {<<a, x>>}), Run({a, x}, {<<a, x>>})}

(* A run that names an entity no document has yielded yet. *)
DanglingRuns == {Run({a}, {<<a, x>>}), Run({a, b, x}, {<<a, x>>, <<b, x>>})}

EveryRun == AllRuns \union DanglingRuns

(* Every edge at once, or one late edge that makes a parallel claim. *)
LateEdgeRuns == {Run({a, b, x}, {<<a, x>>}), Run({a, b, x}, {<<a, x>>, <<b, x>>})}

(* An edge that a merge of b into a moves; then its ends are retracted. *)
RetractingRuns == {Run({a, b, x}, {<<b, x>>}), Run({a}, {})}

Request(canonical, merged) == [canonical |-> canonical, merged |-> merged]

AllRequests ==
  {q \in [canonical : Entities, merged : SUBSET Entities] :
     q.merged # {} /\ q.canonical \notin q.merged}

(* b into a, then a into x: the two that conflict and chain. *)
ChainRequests == {Request(a, {b}), Request(x, {a})}

(* b into a, or a into b. *)
SwapRequests == {Request(a, {b}), Request(b, {a})}

Symmetry == Permutations(Callers)
=============================================================================
