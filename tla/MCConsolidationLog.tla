------------------------- MODULE MCConsolidationLog -------------------------
(* ConsolidationLog for TLC: entities, edge plans and sessions are model
   values and interchangeable. *)
EXTENDS ConsolidationLog, TLC

Symmetry ==
  Permutations(Entities) \union Permutations(Redirections)
    \union Permutations(Sessions)
=============================================================================
