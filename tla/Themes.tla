-------------------------------- MODULE Themes --------------------------------
(***************************************************************************)
(* One call of `summarize_themes`: it pages through a tenant's entities    *)
(* and their edges while both are written, partitions what it read and has *)
(* a model describe each part.  src/src/redstring/composition/themes/      *)
(* {service,topology,ranking}.py and domain/community.py.                  *)
(*                                                                         *)
(* Every edge weighs 1, as the call gives it.  Passages, and how a prompt  *)
(* is worded, are left out: a prompt is the community it is about and the  *)
(* members it shows.                                                       *)
(***************************************************************************)
EXTENDS Integers, Sequences, FiniteSets, Sorting

Ext == INSTANCE SequencesExt

CONSTANTS
  MaxId,      \* entity ids are 1..MaxId, in the order of their strings
  Edges,      \* the edges there may be: [id, source, target]
  Tenants,    \* what a tenant may hold at first: [entities, edges]
  PageSize,   \* page_size
  MaxPages,   \* MAX_PAGES
  MaxPasses,  \* MAX_PASSES
  Resolution, \* resolution
  MinSize,    \* min_size
  MaxShown,   \* max_members_shown
  MaxWrites,  \* bound on the writes made during the scan
  Pending,    \* the call has not returned
  Failure     \* LlmProviderError

VARIABLES
  stored,     \* ids of the entities in the store
  edges,      \* edges in the store
  phase,      \* "entities", "edges", "moving", "describing", "done", "raised"
  cursor,     \* the last id read; 0 at first
  pages,      \* pages read
  page,       \* the page whose edges are read next
  entities,   \* ids read
  byId,       \* edges read
  community,  \* node -> label of its community
  visited,    \* the last node this pass visited; 0 at first
  moved,      \* this pass moved a node
  passes,     \* passes begun
  answers,    \* community -> Pending, Failure or the answer
  skipFailed, \* skip_failed
  written,    \* entities and edges written since the scan began
  writes

vars == <<stored, edges, phase, cursor, pages, page, entities, byId, community, visited, moved,
          passes, answers, skipFailed, written, writes>>
store == <<stored, edges, written, writes>>
scan == <<cursor, pages, page, entities, byId>>
clustering == <<community, visited, moved, passes>>

Ids == 1..MaxId

Init ==
  /\ \E t \in Tenants : stored = t.entities /\ edges = t.edges
  /\ phase = "entities"
  /\ cursor = 0 /\ pages = 0 /\ page = <<>>
  /\ entities = {} /\ byId = {}
  /\ community = [x \in {} |-> x] /\ visited = 0 /\ moved = FALSE /\ passes = 0
  /\ answers = [c \in {} |-> Pending]
  /\ skipFailed \in BOOLEAN
  /\ written = [entities |-> {}, edges |-> {}]
  /\ writes = 0

-----------------------------------------------------------------------------
(* read_topology *)

(* find_entities *)
NextPage ==
  LET after == {x \in stored : x > cursor}
      order == Ranked(after, Ascending(after))
  IN SubSeq(order, 1, IF Len(order) < PageSize THEN Len(order) ELSE PageSize)

ReadEntities ==
  /\ phase = "entities" /\ pages < MaxPages
  /\ pages' = pages + 1
  /\ page' = NextPage
  /\ entities' = entities \union Ext!ToSet(NextPage)
  /\ phase' = "edges"
  /\ UNCHANGED <<store, cursor, byId, clustering, answers, skipFailed>>

(* CursorStalledError *)
Stall ==
  /\ phase = "entities" /\ pages = MaxPages
  /\ phase' = "raised"
  /\ UNCHANGED <<store, scan, clustering, answers, skipFailed>>

(* Mutant: an edge belongs to the page that holds both its ends. *)
OfPage(e) == {e.source, e.target} \subseteq Ext!ToSet(page)

(* get_relationships_for: in either direction. *)
Touching(e) == e.source \in Ext!ToSet(page) \/ e.target \in Ext!ToSet(page)

(* Its first visit starts every node in a community of its own. *)
ReadEdges ==
  /\ phase = "edges"
  /\ byId' = byId \union {e \in edges : Touching(e)}
  /\ IF Len(page) < PageSize
     THEN /\ phase' = "moving" /\ UNCHANGED cursor
          /\ community' = [x \in entities |-> x] /\ passes' = 1
     ELSE /\ cursor' = Ext!Last(page) /\ phase' = "entities"
          /\ UNCHANGED <<community, passes>>
  /\ UNCHANGED <<store, pages, page, entities, visited, moved, answers, skipFailed>>

Kept == {e \in byId : {e.source, e.target} \subseteq entities}

-----------------------------------------------------------------------------
(* detect_communities, over the entities read and the edges kept *)

Count(es) == Cardinality(es)

DegreeOf(xs) == Count({e \in Kept : e.source \in xs}) + Count({e \in Kept : e.target \in xs})
Degree(x) == DegreeOf({x})

Links(x, ys) == Count({e \in Kept : \E y \in ys \ {x} : {e.source, e.target} = {x, y}})

Members(label) == {x \in DOMAIN community : community[x] = label}

(* Mutant: a node's own degree still counts where it is. *)
GainWithItself(x, label) ==
  2 * Count(Kept) * Links(x, Members(label)) - Resolution * Degree(x) * DegreeOf(Members(label))

(* The gain of x in a community, times twice the total weight. *)
Gain(x, label) ==
  LET others == Members(label) \ {x}
  IN 2 * Count(Kept) * Links(x, others) - Resolution * Degree(x) * DegreeOf(others)

(* x's own label and its neighbours'. *)
Labels(x) ==
  {community[x]} \union {community[y] : y \in {z \in entities : Links(x, {z}) > 0}}

Smallest(xs) == IF xs = {} THEN 0 ELSE CHOOSE x \in xs : \A y \in xs : x <= y

(* Communities are considered by their smallest other member, an emptied one
   first. *)
Rank(x, label) == Smallest(Members(label) \ {x})

Best(x) ==
  CHOOSE label \in Labels(x) : \A other \in Labels(x) \ {label} :
    \/ Gain(x, label) > Gain(x, other)
    \/ Gain(x, label) = Gain(x, other) /\ Rank(x, label) < Rank(x, other)

Unvisited == {x \in entities : x > visited}

(* One node of _one_pass. *)
Visit ==
  /\ phase = "moving" /\ Unvisited # {} /\ Kept # {}
  /\ LET x == Smallest(Unvisited)
     IN /\ visited' = x
        /\ community' = [community EXCEPT ![x] = Best(x)]
        /\ moved' = (moved \/ Best(x) # community[x])
  /\ UNCHANGED <<store, phase, scan, passes, answers, skipFailed>>

PassAgain ==
  /\ phase = "moving" /\ Unvisited = {}
  /\ moved /\ passes < MaxPasses
  /\ passes' = passes + 1 /\ visited' = 0 /\ moved' = FALSE
  /\ UNCHANGED <<store, phase, scan, community, answers, skipFailed>>

Communities == {Members(label) : label \in {community[x] : x \in DOMAIN community}}
Large == {c \in Communities : Count(c) >= MinSize}

(* Without edges every entity is a community, and no pass is made. *)
Clustered ==
  /\ phase = "moving"
  /\ \/ Kept = {}
     \/ Unvisited = {} /\ (moved => passes >= MaxPasses)
  /\ answers' = [c \in Large |-> Pending]
  /\ phase' = "describing"
  /\ UNCHANGED <<store, scan, clustering, skipFailed>>

-----------------------------------------------------------------------------
(* prompt_for, describe_community *)

Shown(c) ==
  LET above == {p \in c \X c : \/ Degree(p[1]) > Degree(p[2])
                               \/ Degree(p[1]) = Degree(p[2]) /\ p[1] < p[2]}
      order == Ranked(c, above)
  IN SubSeq(order, 1, IF Len(order) < MaxShown THEN Len(order) ELSE MaxShown)

Prompt(c) == [size |-> Count(c), shown |-> Shown(c)]

(* The calls return in any order; what a model answers to a prompt is that
   prompt. *)
Describe(c, answer) ==
  /\ phase = "describing" /\ c \in DOMAIN answers /\ answers[c] = Pending
  /\ answers' = [answers EXCEPT ![c] = answer]
  /\ UNCHANGED <<store, phase, scan, clustering, skipFailed>>

Failed == {c \in DOMAIN answers : answers[c] = Failure}

(* gather returns when every call has; a failure then raises unless it is
   skipped. *)
Report ==
  /\ phase = "describing" /\ \A c \in DOMAIN answers : answers[c] # Pending
  /\ phase' = IF Failed # {} /\ ~ skipFailed THEN "raised" ELSE "done"
  /\ UNCHANGED <<store, scan, clustering, answers, skipFailed>>

(* The largest first. *)
Ordered(cs) ==
  LET above == {p \in cs \X cs : \/ Count(p[1]) > Count(p[2])
                                 \/ Count(p[1]) = Count(p[2]) /\ Smallest(p[1]) < Smallest(p[2])}
  IN Ranked(cs, above)

Zipped(described) ==
  [i \in DOMAIN described |-> [members |-> described[i], answer |-> answers[described[i]]]]

ThemeReport ==
  [themes |-> Zipped(Ordered(Large \ Failed)),
   communities |-> Count(Communities),
   tooSmall |-> Count(Communities) - Count(Large),
   failed |-> Count(Failed),
   dangling |-> Count(byId) - Count(Kept)]

-----------------------------------------------------------------------------
(* Meanwhile the projections write.  An edge's ends are in the store. *)

Writes(es, rs) ==
  /\ phase \in {"entities", "edges"} /\ writes < MaxWrites
  /\ writes' = writes + 1
  /\ written' = [entities |-> written.entities \union es, edges |-> written.edges \union rs]
  /\ UNCHANGED <<phase, scan, clustering, answers, skipFailed>>

Appear(x) ==
  /\ Writes({x}, {})
  /\ x \notin stored
  /\ stored' = stored \union {x} /\ UNCHANGED edges

PutEdge(e) ==
  /\ Writes({}, {e})
  /\ e \notin edges /\ {e.source, e.target} \subseteq stored
  /\ edges' = edges \union {e} /\ UNCHANGED stored

DropEdge(e) ==
  /\ Writes({}, {e})
  /\ e \in edges
  /\ edges' = edges \ {e} /\ UNCHANGED stored

Returned == phase \in {"done", "raised"} /\ UNCHANGED vars

Next ==
  \/ ReadEntities \/ ReadEdges \/ Stall
  \/ Visit \/ PassAgain \/ Clustered
  \/ \E c \in DOMAIN answers : Describe(c, Prompt(c)) \/ Describe(c, Failure)
  \/ Report \/ Returned
  \/ \E x \in Ids : Appear(x)
  \/ \E e \in Edges : PutEdge(e) \/ DropEdge(e)

Spec == Init /\ [][Next]_vars

-----------------------------------------------------------------------------
(* Properties *)

(* Whatever is written behind and ahead of the cursor, the report accounts for
   what stood still: every such entity is in exactly one community, every such
   edge joined its ends' communities or is inside one, each community is a
   theme, too small or failed, and a theme's title was written about its own
   members (topology.py:39-62, service.py:137-166). *)
ThemesAccountForTheTenant ==
  phase = "done" =>
    LET themes == ThemeReport.themes IN
    /\ UNION Communities = entities
    /\ \A c, d \in Communities : c # d => c \intersect d = {}
    /\ stored \ written.entities \subseteq entities
    /\ \A e \in edges \ written.edges :
         {e.source, e.target} \intersect written.entities = {} => e \in Kept
    /\ ThemeReport.communities = Len(themes) + ThemeReport.tooSmall + ThemeReport.failed
    /\ \A i \in DOMAIN themes :
         /\ themes[i].members \in Communities
         /\ themes[i].answer = Prompt(themes[i].members)
         /\ \A j \in 1..(i - 1) :
              /\ themes[j].members # themes[i].members
              /\ Count(themes[j].members) >= Count(themes[i].members)

(* Modularity, times four times the total weight squared: the edges inside the
   communities, less the pairs of edge ends that share one. *)
Modularity ==
  LET Ends == {[edge |-> e, of |-> x] : e \in Kept, x \in {"source", "target"}}
      Home(end) == community[end.edge[end.of]]
      Inside == {e \in Kept : community[e.source] = community[e.target]}
      Pairs == {p \in Ends \X Ends : Home(p[1]) = Home(p[2])}
  IN 4 * Count(Kept) * Count(Inside) - Resolution * Count(Pairs)

(* A node that changes its community never makes the partition worse,
   (community.py:83-88, 202-228). *)
ModularityNeverFalls ==
  [][phase = "moving" /\ community' # community => Modularity' >= Modularity]_vars

(* The passes end by themselves, with nobody better off elsewhere: MAX_PASSES
   is never what stops them (community.py:84-90, 175-180). *)
NobodyWouldMove ==
  phase = "describing" /\ Kept # {} =>
    /\ ~ moved
    /\ \A x \in entities : \A label \in Labels(x) : Gain(x, label) <= Gain(x, community[x])

(* A tie never moves anybody.  (Known limit: a community the node would leave
   behind with members is considered in the place of its smallest one.) *)
TiesStay ==
  [][phase = "moving" =>
       \A x \in DOMAIN community : community'[x] # community[x] =>
         Gain(x, community'[x]) > Gain(x, community[x])]_vars
=============================================================================
