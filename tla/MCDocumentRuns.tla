--------------------------- MODULE MCDocumentRuns ---------------------------
(* DocumentRuns for TLC: two splits that share a passage, and three models: one
   finds both entities, one finds one of them and one finds nothing. *)
EXTENDS DocumentRuns, TLC

CONSTANTS m1, m2, m3, s1, s2, k1, k2, k3, a, b

MCPassagesOf == (s1 :> {k1, k2}) @@ (s2 :> {k2, k3})

MCAnswers == (m1 :> {{a, b}}) @@ (m2 :> {{b}}) @@ (m3 :> {{}})

Job(by, split, embeds) == [by |-> by, split |-> split, embeds |-> embeds]

(* Every model over the first split, with vectors of what it finds; one of them
   over the other; an index run with vectors of the passages. *)
MCJobs == {Job(m, s1, TRUE) : m \in Models} \union {Job(m1, s2, FALSE), Job(Index, s2, TRUE)}

Symmetry == Permutations(Workers)
=============================================================================
