------------------------- MODULE ExtractionMapping -------------------------
(***************************************************************************)
(* From what a model answers about a chunk to what is recorded of a        *)
(* document: src/src/redstring/extraction/{date_nodes,mapping,merging,     *)
(* corpus,gleaning}.py, as operators.                                      *)
(*                                                                         *)
(* An entity's id is a hash of tenant, document, type and normalised name, *)
(* so within a document it is the pair <<name, type>>; an edge's is the    *)
(* pair of its ends' ids (of one relationship type).  A candidate is       *)
(*   [name, type, rank, dated, bare]:                                      *)
(* rank stands for the confidence, dated says it has a temporal            *)
(* expression, bare that it has no description and no properties.          *)
(***************************************************************************)
EXTENDS Integers, Sequences, FiniteSets, Functions

Ext == INSTANCE SequencesExt

CONSTANTS
  DateNames,  \* names that are anchored and parse as a date
  Refused     \* blank or unstorable names

-----------------------------------------------------------------------------
(* lift_date_nodes *)

(* is_date_node: a described date is an entity like any other. *)
IsDateNode(c) == c.name \in DateNames /\ c.bare

DateNodeNames(a) == {c.name : c \in {d \in Range(a.entities) : IsDateNode(d)}}

(* The names an edge to a date node gives a date. *)
Lifted(a) ==
  LET dates == DateNodeNames(a)
  IN UNION {{e[1], e[2]} \ dates :
              e \in {d \in a.edges : (d[1] \in dates) # (d[2] \in dates)}}

(* The candidates that are kept stay at the places they were listed at. *)
LiftDateNodes(a) ==
  LET dates == DateNodeNames(a)
  IN [entities |-> [i \in {k \in DOMAIN a.entities : ~ IsDateNode(a.entities[k])} |->
                      [a.entities[i] EXCEPT !.dated = @ \/ a.entities[i].name \in Lifted(a)]],
      edges |-> {e \in a.edges : e[1] \notin dates /\ e[2] \notin dates}]

-----------------------------------------------------------------------------
(* map_extraction *)

IdOf(c) == <<c.name, c.type>>

(* preference: a total order, so that no order of arrival shows. *)
Preferred(c, d) ==
  \/ c.rank > d.rank
  \/ c.rank = d.rank /\ (c.dated \/ ~ d.dated)

Best(cs) == CHOOSE c \in cs : \A d \in cs : Preferred(c, d)

(* _build_entity refuses a name it cannot store; the best of the candidates
   with one id is kept. *)
MappedEntities(a) ==
  LET built == {c \in Range(LiftDateNodes(a).entities) : c.name \notin Refused}
  IN [id \in {IdOf(c) : c \in built} |-> Best({c \in built : IdOf(c) = id})]

(* _map_relationships: a name stands for the first type it is listed with
   that was built. NoId if none was. *)
NoId == <<>>

ResolveName(a, name) ==
  LET es == LiftDateNodes(a).entities
      known == DOMAIN MappedEntities(a)
      at == {i \in DOMAIN es : es[i].name = name /\ IdOf(es[i]) \in known}
  IN IF at = {} THEN NoId ELSE IdOf(es[CHOOSE i \in at : \A j \in at : i <= j])

Ends(a, e) == <<ResolveName(a, e[1]), ResolveName(a, e[2])>>

Unresolved(a) == {e \in LiftDateNodes(a).edges : NoId \in Range(Ends(a, e))}

SelfLoops(a) == {e \in LiftDateNodes(a).edges \ Unresolved(a) : Ends(a, e)[1] = Ends(a, e)[2]}

MapExtraction(a) ==
  [entities |-> MappedEntities(a),
   edges |-> {Ends(a, e) : e \in LiftDateNodes(a).edges \ (Unresolved(a) \union SelfLoops(a))}]

(* The ids in the order the answer first lists them, as a mapping keeps them. *)
MappedInOrder(a) ==
  LET es == LiftDateNodes(a).entities
      At(id) == CHOOSE i \in DOMAIN es :
                  IdOf(es[i]) = id /\ \A j \in DOMAIN es : j < i => IdOf(es[j]) # id
  IN Ext!SetToSortSeq(DOMAIN MappedEntities(a), LAMBDA x, y : At(x) < At(y))

(* gleaning: the answers are put together before they are mapped. *)
Combine(a, b) == [entities |-> a.entities \o b.entities, edges |-> a.edges \union b.edges]

FoundNothing(a) == a.entities = <<>> /\ a.edges = {}

-----------------------------------------------------------------------------
(* The document: the parts are the mapped answers of its chunks, by chunk
   index; NoPart for a chunk that was skipped. *)

NoPart == [entities |-> <<>>, edges |-> {}]

Ids(parts) == UNION {DOMAIN parts[i].entities : i \in {k \in DOMAIN parts : parts[k] # NoPart}}

(* merge_extractions *)
MergeExtractions(parts) ==
  [entities |-> [id \in Ids(parts) |->
     Best({parts[i].entities[id] :
             i \in {k \in DOMAIN parts : parts[k] # NoPart /\ id \in DOMAIN parts[k].entities}})],
   edges |-> UNION {parts[i].edges : i \in DOMAIN parts}]

MentionCount(parts, id) ==
  Cardinality({i \in DOMAIN parts : parts[i] # NoPart /\ id \in DOMAIN parts[i].entities})

(* stored_chunks: a passage is its text, so chunks with one text are one
   passage with the links of them all. *)
LinksOf(texts, parts, t) ==
  Ids([i \in {k \in DOMAIN texts : texts[k] = t} |-> parts[i]])

StoredChunks(texts, parts) ==
  [t \in Range(texts) |->
     [index |-> CHOOSE i \in DOMAIN texts : texts[i] = t /\ \A j \in DOMAIN texts : texts[j] = t => i <= j,
      links |-> LinksOf(texts, parts, t)]]
=============================================================================
