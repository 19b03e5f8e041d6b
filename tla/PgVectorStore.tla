--------------------------- MODULE PgVectorStore ---------------------------
(***************************************************************************)
(* `PgVectorStore` over one table, as several processes open and use it:   *)
(* src/src/redstring/vector/adapters/pgvector.py and vector/provenance.py. *)
(*                                                                         *)
(* ensure_schema creates the table, checks its dimension, and reads the    *)
(* provenance row before it writes one, each a statement of its own.       *)
(***************************************************************************)
EXTENDS Integers, FiniteSets

CONSTANTS
  Stores,       \* the PgVectorStore objects, one in each process
  EntityIds,    \* entity ids
  Models,       \* embedding models
  Prefixes,     \* document prefixes
  Empty,        \* the prefix "", one of them
  Unset,        \* no model, no prefix, no dimension, no record
  ModelOf,      \* store -> the model it was given, or Unset
  PrefixOf,     \* store -> the document_prefix it was given, or Unset
  DimensionOf   \* store -> its dimension

VARIABLES
  declared,    \* the dimension of the embedding column, Unset before the table
  recorded,    \* the provenance row, or Unset
  opened,      \* store -> how far its ensure_schema has come
  provenance,  \* store -> _provenance
  vectors      \* entity -> the vector stored, or Unset

vars == <<declared, recorded, opened, provenance, vectors>>

Provenance == [model : Models \union {Unset}, dimension : Nat, prefix : Prefixes]

(* What a vector was made with, and, which no step reads, what its writer
   answered as its provenance when it wrote it. *)
Vector == [model : Models \union {Unset}, prefix : Prefixes \union {Unset},
           under : {Unset} \union Provenance]

Stages == {"new", "created", "checked", "recording", "ready", "refused"}

Init ==
  /\ declared = Unset
  /\ recorded = Unset
  /\ opened = [s \in Stores |-> "new"]
  /\ provenance = [s \in Stores |-> Unset]
  /\ vectors = [x \in EntityIds |-> Unset]

Goes(s, from, to) == opened[s] = from /\ opened' = [opened EXCEPT ![s] = to]

Own(s) ==
  [model |-> ModelOf[s], dimension |-> DimensionOf[s],
   prefix |-> IF PrefixOf[s] = Unset THEN Empty ELSE PrefixOf[s]]

(* CREATE TABLE IF NOT EXISTS; the column keeps the dimension it was created
   with. *)
CreateTable(s) ==
  /\ Goes(s, "new", "created")
  /\ declared' = IF declared = Unset THEN DimensionOf[s] ELSE declared
  /\ UNCHANGED <<recorded, provenance, vectors>>

CheckDimension(s) ==
  /\ Goes(s, "created", IF declared = DimensionOf[s] THEN "checked" ELSE "refused")
  /\ UNCHANGED <<declared, recorded, provenance, vectors>>

(* A side that names nothing is not compared. *)
Clash(known, given) == known # Unset /\ given # Unset /\ known # given

(* verify_vector_provenance, of the row and the store's own parameters *)
Verifies(record, s) ==
  /\ record.dimension = DimensionOf[s]
  /\ ~ Clash(record.model, ModelOf[s])
  /\ ~ Clash(record.prefix, PrefixOf[s])

(* The row as it is now: adopt it, refuse it, or find there is none.  A store
   with neither model nor prefix signs nothing. *)
AdoptRecord(s) ==
  /\ recorded # Unset /\ Verifies(recorded, s)
  /\ Goes(s, "checked", "ready")
  /\ provenance' = [provenance EXCEPT ![s] = recorded]

RefuseRecord(s) ==
  /\ recorded # Unset /\ ~ Verifies(recorded, s)
  /\ Goes(s, "checked", "refused")
  /\ UNCHANGED provenance

FindNoRecord(s) ==
  /\ recorded = Unset
  /\ IF ModelOf[s] = Unset /\ PrefixOf[s] = Unset
     THEN Goes(s, "checked", "ready") /\ provenance' = [provenance EXCEPT ![s] = Unset]
     ELSE Goes(s, "checked", "recording") /\ UNCHANGED provenance

ReadProvenance(s) ==
  /\ AdoptRecord(s) \/ RefuseRecord(s) \/ FindNoRecord(s)
  /\ UNCHANGED <<declared, recorded, vectors>>

(* ON CONFLICT DO NOTHING *)
Recorded(s) == IF recorded = Unset THEN Own(s) ELSE recorded

(* Mutant: the row that is there is answered, unverified. *)
AnswersTheRow(s) ==
  /\ Goes(s, "recording", "ready")
  /\ recorded' = Recorded(s)
  /\ provenance' = [provenance EXCEPT ![s] = Recorded(s)]
  /\ UNCHANGED <<declared, vectors>>

(* The answer is the store's own provenance, whoever's row is there. *)
RecordProvenance(s) ==
  /\ Goes(s, "recording", "ready")
  /\ recorded' = Recorded(s)
  /\ provenance' = [provenance EXCEPT ![s] = Own(s)]
  /\ UNCHANGED <<declared, vectors>>

(* Nothing asks whether the schema was ensured, or refused: the vector's width
   is checked against the store, and the column's against the vector. *)
Upsert(s, x) ==
  /\ declared = DimensionOf[s]
  /\ vectors' = [vectors EXCEPT ![x] =
                   [model |-> ModelOf[s], prefix |-> PrefixOf[s], under |-> provenance[s]]]
  /\ UNCHANGED <<declared, recorded, opened, provenance>>

Delete(x) ==
  /\ vectors' = [vectors EXCEPT ![x] = Unset]
  /\ UNCHANGED <<declared, recorded, opened, provenance>>

DeleteByTenant ==
  /\ vectors' = [x \in EntityIds |-> Unset]
  /\ UNCHANGED <<declared, recorded, opened, provenance>>

(* ensure_schema is called again on a store it is done with, which answers as
   before until it is done with it again. *)
EnsureAgain(s) ==
  /\ opened[s] \in {"ready", "refused"}
  /\ opened' = [opened EXCEPT ![s] = "new"]
  /\ UNCHANGED <<declared, recorded, provenance, vectors>>

(* The process ends and another one opens the store. *)
Reopen(s) ==
  /\ opened' = [opened EXCEPT ![s] = "new"]
  /\ provenance' = [provenance EXCEPT ![s] = Unset]
  /\ UNCHANGED <<declared, recorded, vectors>>

Next ==
  \/ \E s \in Stores :
       \/ CreateTable(s) \/ CheckDimension(s) \/ ReadProvenance(s)
       \/ RecordProvenance(s) \/ EnsureAgain(s) \/ Reopen(s)
       \/ \E x \in EntityIds : Upsert(s, x)
  \/ \E x \in EntityIds : Delete(x)
  \/ DeleteByTenant

Spec == Init /\ [][Next]_vars

-----------------------------------------------------------------------------
(* Properties *)

TypeOK ==
  /\ declared \in {Unset} \union Nat
  /\ recorded \in {Unset} \union Provenance
  /\ opened \in [Stores -> Stages]
  /\ provenance \in [Stores -> {Unset} \union Provenance]
  /\ vectors \in [EntityIds -> {Unset} \union Vector]

(* A store can tell the vectors it may be compared with by their provenance:
   whoever raced to sign the table, lost, was refused, opened it again or
   another process after it, a vector that was written under the provenance a
   store answers was made with the store's prefix, and with its model if that
   provenance names one (vector/provenance.py:72-118: a process that loses the
   race must not answer with the winner's row). *)
SignedVectorsAgree ==
  \A s \in Stores, x \in EntityIds :
    LET v == vectors[x]
        p == provenance[s]
    IN v # Unset /\ p # Unset /\ v.under = p =>
         /\ p.model # Unset => ~ Clash(v.model, ModelOf[s])
         /\ ~ Clash(v.prefix, PrefixOf[s])

(* "a vector store cannot be silently corrupted by writing vectors embedded
   with different embedding models or mismatched task prefixes"
   (vector/provenance.py:3-4): two stores that came through ensure_schema have
   the same ones.  (Known limit.) *)
OneModelPerTable ==
  \A s, t \in Stores :
    opened[s] = "ready" /\ opened[t] = "ready" =>
      ~ Clash(ModelOf[s], ModelOf[t]) /\ ~ Clash(PrefixOf[s], PrefixOf[t])
=============================================================================
