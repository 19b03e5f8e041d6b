------------------------- MODULE MCExtractionBatch -------------------------
(* ExtractionBatch for TLC: a document whose third chunk repeats the first's
   text, one of a single chunk, and an item that is not a document. *)
EXTENDS ExtractionBatch

MCTexts == <<<<"t1", "t2", "t1">>, <<"t3">>, <<"t4">>>>

Named(name, type, rank, dated, bare) ==
  [name |-> name, type |-> type, rank |-> rank, dated |-> dated, bare |-> bare]

Ada == Named("Ada", "person", 1, FALSE, TRUE)
SureAda == Named("Ada", "person", 2, FALSE, TRUE)
AdaProgram == Named("Ada", "language", 1, FALSE, FALSE)
May1843 == Named("May 1843", "date", 2, FALSE, TRUE)
MayParade == Named("May 1843", "event", 1, FALSE, FALSE)
Nul == Named("nul", "person", 1, FALSE, TRUE)

Said(entities, edges) == [entities |-> entities, edges |-> edges]

Asked(skip, partial, continue) == [skip |-> skip, partial |-> partial, continue |-> continue]

MCOptions == {Asked(TRUE, TRUE, TRUE), Asked(TRUE, FALSE, FALSE), Asked(FALSE, FALSE, TRUE)}

(* What each chunk may yield. *)
MCAnswers(d, c) ==
  CASE d = 1 /\ c = 1 -> {Said(<<SureAda, May1843>>, {<<"Ada", "May 1843">>}), NoAnswer}
    [] d = 1 /\ c = 2 -> {Said(<<AdaProgram, Ada, MayParade>>, {<<"Ada", "May 1843">>, <<"Ada", "Ada">>})}
    [] d = 1 /\ c = 3 -> {Said(<<Ada, Nul>>, {<<"Ada", "nul">>})}
    [] OTHER -> {Said(<<Ada>>, {})}
=============================================================================
