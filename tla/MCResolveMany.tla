--------------------------- MODULE MCResolveMany ---------------------------
(* ResolveMany for TLC: three entities and two edges. *)
EXTENDS ResolveMany, TLC

CONSTANTS a, b, x

MCClaims == {<<b, x>>, <<a, x>>}
MCRank == (<<a, x>> :> 1) @@ (<<b, x>> :> 2)
MCIdOrder == (a :> 1) @@ (b :> 2) @@ (x :> 3)

(* A whole sweep, one in another order, and an entity given twice. *)
Sweeps == {<<a, b, x>>, <<x, b>>, <<b, b, a>>}

Score(ab, ax, bx) ==
  (a :> ((a :> 0) @@ (b :> ab) @@ (x :> ax))) @@
  (b :> ((a :> ab) @@ (b :> 0) @@ (x :> bx))) @@
  (x :> ((a :> ax) @@ (b :> bx) @@ (x :> 0)))

(* 0: rejected, 1: asked about, 2: merged. *)
MCScorings == {Score(2, 1, 0), Score(1, 1, 1), Score(0, 1, 2), Score(1, 0, 1)}

(* Scores that an edge written meanwhile moves from one pair to another. *)
ShiftingScorings == {Score(1, 0, 0), Score(0, 0, 1)}

Earlier == {[canonical |-> a, merged |-> {x}]}
=============================================================================
