---------------------------- MODULE MCAlgorithms ----------------------------
(***************************************************************************)
(* What reads and computes without writing, for TLC: the chunkers,         *)
(* temporal text, timelines, retrieval and themes.  They share nothing     *)
(* here: `part` picks one and the others are idle.                         *)
(***************************************************************************)
EXTENDS Chunking, FiniteSets

CONSTANTS
  Parts, Idle,
  None, Ambiguous, Raised, Expressions, References, Samples, MaxYear, ProbeA, ProbeB,
  MaxEntity, Extents, Windows, EntitiesPerPage, TimelinePages, MaxPairs, TimelineWrites, NoEntity,
  MaxItem, Rows, Vectors, Wanted, Ks, Overfetch, RrfK, RetrievalWrites, Absent,
  MaxNode, Edges, Tenants, NodesPerPage, ThemePages, MaxPasses, Resolution, MinSize, MaxShown,
  ThemeWrites, Pending, Failure

ASSUME TimelineAssumption == MaxEntity \in Nat /\ EntitiesPerPage \in Nat \ {0}
ASSUME RetrievalAssumption ==
  /\ MaxItem \in Nat /\ Ks \subseteq Nat /\ Overfetch \in Nat /\ RrfK \in Nat
  /\ \A row \in Rows : row.lexical \in Int
  /\ \A vector \in Vectors : vector.score \in Int
  /\ Absent \notin Rows \union Vectors \union Nat
ASSUME ThemesAssumption ==
  /\ MaxNode \in Nat /\ NodesPerPage \in Nat \ {0} /\ MinSize \in Nat /\ Resolution \in Nat
  /\ \A t \in Tenants : /\ t.entities \subseteq 1..MaxNode
                        /\ IsFiniteSet(t.edges)
                        /\ \A e \in t.edges : {e.source, e.target} \subseteq t.entities

VARIABLES
  part,
  read,
  stored, window, cursor, pages, scan, yielded, settled, rewritten,
  kind, mode, wanted, k, rows, vectors, matching, semantic, lexical, known, matches, past, changes,
  held, edges, phase, lastRead, pagesRead, page, entities, byId, community, visited, moved,
  passes, answers, skipFailed, written, writesMade

timelineVars == <<stored, window, cursor, pages, scan, yielded, settled, rewritten>>
retrievalVars == <<kind, mode, wanted, k, rows, vectors, matching, semantic, lexical, known,
                   matches, past, changes>>
themeVars == <<held, edges, phase, lastRead, pagesRead, page, entities, byId, community, visited,
               moved, passes, answers, skipFailed, written, writesMade>>
algorithmVars == <<part, chunkerVars, read, timelineVars, retrievalVars, themeVars>>

-----------------------------------------------------------------------------
(* Texts of seven characters with two boundaries anywhere. *)

Boundaries(p, m, q, n) == [i \in 1..7 |-> IF i = p THEN m ELSE IF i = q THEN n ELSE "none"]
MCTexts == {[length |-> 7, ends |-> Boundaries(p, m, q, n)] :
              p \in 1..6, q \in 1..6, m \in Marks, n \in Marks}

(* Expressions around the first of March 1915, of every form, read at that day's
   midnight, later that day, on clocks ahead of UTC, and at no date; and the
   starts and ends of the units they fall into. *)

Year(n) == [kind |-> "year", year |-> n]
Years(from, to) == [kind |-> "years", first |-> from, last |-> to]
Month(year, n) == [kind |-> "month", year |-> year, month |-> n]
Months(year, from, to) == [kind |-> "months", year |-> year, first |-> from, last |-> to]
Century(n, portion) == [kind |-> "period", century |-> n, portion |-> portion]
Day(year, month, day) ==
  [kind |-> "absolute", year |-> year, month |-> month, day |-> day,
   clock |-> "none", time |-> 0, offset |-> None]
At(form, clock, time) == [form EXCEPT !.clock = clock, !.time = time]
Offset(form, offset) == [form EXCEPT !.offset = offset]
Ago(time) == [kind |-> "natural", ago |-> time, clock |-> "none", time |-> 0]
MarchFirst == Day(1915, 3, 1)

OneEnd ==
  {Year(1915), Month(1915, 2), Month(1915, 3),
   MarchFirst, Day(1915, 2, 2), Day(None, 2, 2), Day(None, None, 2),
   At(MarchFirst, "hour", 4), At(MarchFirst, "minute", 4), At(MarchFirst, "second", 4),
   At(MarchFirst, "second", 5), Offset(At(MarchFirst, "hour", 4), 4),
   Offset(At(MarchFirst, "hour", 0), -4), At(Day(None, None, None), "hour", 4),
   Ago(8), Ago(3), At(Ago(8), "hour", 4)}
TwoEnds == {Years(1914, 1918), [kind |-> "decade", decade |-> 191], Century(20, "whole")}
Ranges ==
  {Years(1914, 1914), Years(1918, 1914), Months(1915, 2, 3), Century(20, "early"),
   Century(20, "mid"), Century(19, "late"),
   [kind |-> "quarter", year |-> 1915, quarter |-> 1],
   [kind |-> "quarters", year |-> 1915, first |-> 1, last |-> 2]}
MCExpressions ==
  [markers : {{}, {"before"}, {"after"}}, form : OneEnd]
    \union [markers : {{}, {"before"}}, form : TwoEnds]
    \union [markers : {{"circa"}, {"approximate", "before"}}, form : {Year(1915), MarchFirst}]
    \union [markers : {{"after"}}, form : {Years(1914, 1918), Century(20, "whole")}]
    \union [markers : {{}}, form : Ranges]

Calendar == INSTANCE TemporalExtents WITH MaxYear <- 2030, ProbeA <- 0, ProbeB <- 0
MCProbeA == Calendar!Date(1970, 1, 1)
MCProbeB == Calendar!Date(2000, 6, 2)

Later(m, time, offset) == [local |-> m.local + time, offset |-> offset]
MCReferences ==
  {None, Calendar!Date(1915, 3, 1), Later(Calendar!Date(1915, 3, 1), 5, 0),
   Later(Calendar!Date(1915, 3, 1), 4, 4)}

MCSamples ==
  LET First(y, m, d) == Calendar!At(Calendar!Date(y, m, d))
  IN UNION {{First(y, 1, 1), First(y + 1, 1, 1) - 1} :
              y \in {1833, 1834, 1866, 1867, 1868, 1900, 1901, 1909, 1910, 1913, 1914, 1915, 1916,
                     1918, 1919, 1920, 1921, 1933, 1934, 1966, 1967, 2000, 2001}}
     \union First(1915, 2, 1) - 1..First(1915, 4, 1)

Meaning == INSTANCE ExtentMeaning

(* What a text gives: a month, a day, a clock time of whole units, an amount of
   time. *)
ClockTime(f) ==
  /\ f.clock \in {"none", "hour", "minute", "second"}
  /\ f.time \in 0..7 /\ f.time % Meaning!Width[Meaning!WrittenUnit(f.clock)] = 0

WellFormed(f) ==
  \/ f.kind = "year" /\ f.year \in Int
  \/ f.kind = "years" /\ {f.first, f.last} \subseteq Int
  \/ f.kind = "month" /\ f.year \in Int /\ f.month \in 1..12
  \/ f.kind = "months" /\ f.year \in Int /\ {f.first, f.last} \subseteq 1..12
  \/ f.kind = "quarter" /\ f.year \in Int /\ f.quarter \in 1..4
  \/ f.kind = "quarters" /\ f.year \in Int /\ {f.first, f.last} \subseteq 1..4
  \/ f.kind = "decade" /\ f.decade \in Int
  \/ f.kind = "period" /\ f.century \in Int /\ f.portion \in DOMAIN Meaning!Portion
  \/ /\ f.kind = "absolute" /\ ClockTime(f)
     /\ f.year \in {None} \union Int /\ f.month \in {None} \union 1..12 /\ f.day \in {None, 1, 2}
     /\ f.offset \in {None} \union Int
  \/ f.kind = "natural" /\ ClockTime(f) /\ f.ago \in Nat

Markers == {"circa", "approximate", "before", "after"}

(* Sentinels are no dates and nothing a strategy answers.  A reference is any
   aware datetime; the probes are midnights in UTC.  What a reading covers is
   over before the calendar is, and the samples have the instants around where
   it begins and is over. *)
ASSUME MeaningAssumption ==
  /\ None \notin Int /\ None \notin DOMAIN Meaning!Width
  /\ None # Raised /\ None \notin Meaning!Moment /\ Raised \notin Meaning!Moment
  /\ \A sentinel \in {None, Ambiguous, Raised} :
       sentinel \notin
         [start : Meaning!Moment, end : {None}, precision : {"day"}]
           \union [start : Meaning!Moment, end : {None}, precision : {"day"},
                   uncertainty : Markers \union {"exact"}]
  /\ References \subseteq {None} \union Meaning!Moment
  /\ \A m \in {ProbeA, ProbeB} :
       m \in Meaning!Moment /\ m.offset = 0 /\ m.local % Meaning!Width.day = 0
  /\ \A e \in Expressions : e.markers \subseteq Markers /\ WellFormed(e.form)
  /\ Samples # {} /\ Samples \subseteq Int /\ IsFiniteSet(Samples)
  /\ \A e \in Meaning!Readings :
       Meaning!Understood(e) =>
         LET x == e.extent
             w == Meaning!Width[x.precision]
             unit == [x.start EXCEPT !.local = (@ \div w) * w]
             over == Meaning!Widen(Meaning!Given(x.end, x.start), x.precision)
         IN /\ over # Raised
            /\ \A m \in {unit, over} : {Meaning!At(m) - 1, Meaning!At(m)} \subseteq Samples

(* Three entities, of which two are dated, on pages of two. *)

Exactly(from, to, precision) ==
  [start |-> from, end |-> to, precision |-> precision, uncertainty |-> "exact"]
MCExtents ==
  {Exactly(None, None, None),
   Exactly(Calendar!Jan1(1914), None, "year"),
   Exactly(Calendar!Jan1(1914), Calendar!Jan1(1918), "year"),
   Exactly(Calendar!Date(1914, 12, 1), None, "month"),
   Exactly([Calendar!Date(1914, 12, 1) EXCEPT !.offset = 4], None, "hour"),
   [Exactly(Calendar!Jan1(1915), None, "year") EXCEPT !.uncertainty = "before"]}
MCWindows == {None, [lower |-> Calendar!Jan1(1914), upper |-> Calendar!Jan1(1915)]}

Timeline == INSTANCE TimelineQuery WITH
  writes <- rewritten, MaxId <- MaxEntity, PageSize <- EntitiesPerPage,
  MaxPages <- TimelinePages, MaxWrites <- TimelineWrites

(* An extent ends no earlier than it starts (temporal.py:64-72), and what it
   covers is over before the calendar is. *)
ASSUME ExtentsAssumption ==
  /\ None \notin Timeline!Moment
  /\ \A x \in Extents :
       /\ {x.start, x.end} \ {None} \subseteq Timeline!Moment
       /\ None \notin {x.start, x.end} => Timeline!At(x.start) <= Timeline!At(x.end)
       /\ x.precision \in {None} \union DOMAIN Timeline!Width
       /\ Timeline!Bounds(x) # Raised

(* Three items that a call may or may not find in either channel. *)

Row(type, version, lexicalScore) == [type |-> type, version |-> version, lexical |-> lexicalScore]
MCRows == {Row("p", 1, 1), Row("q", 2, 2)}
MCVectors == {[type |-> "p", score |-> 1], [type |-> "q", score |-> 2]}

Retrieved == INSTANCE Retrieval WITH
  phase <- matching, writes <- changes, MaxWrites <- RetrievalWrites

(* Five entities, some or all of a ring with a chord and a doubled edge. *)

Edge(id, source, target) == [id |-> id, source |-> source, target |-> target]
MCEdges ==
  {Edge(1, 1, 2), Edge(2, 1, 3), Edge(3, 2, 5), Edge(4, 4, 5), Edge(5, 3, 4), Edge(6, 5, 4),
   Edge(7, 1, 4)}
MCTenants ==
  {[entities |-> es, edges |-> {e \in rs : {e.source, e.target} \subseteq es}] :
     es \in {1..5, 1..4, {1, 2, 4, 5}}, rs \in SUBSET MCEdges}

Clusters == INSTANCE Themes WITH
  stored <- held, cursor <- lastRead, pages <- pagesRead, writes <- writesMade,
  MaxId <- MaxNode, PageSize <- NodesPerPage, MaxPages <- ThemePages, MaxWrites <- ThemeWrites

-----------------------------------------------------------------------------
AlgorithmsInit ==
  /\ part \in Parts
  /\ IF part = "chunking" THEN ChunkerInit
     ELSE /\ text = Idle /\ size = Idle /\ overlap = Idle /\ chunker = Idle /\ start = Idle
          /\ chunks = <<>> /\ done = FALSE
  /\ read = <<>>
  /\ IF part = "timeline" THEN Timeline!Init
     ELSE /\ stored = Idle /\ window = Idle /\ cursor = Idle /\ pages = Idle /\ scan = Idle
          /\ yielded = Idle /\ settled = Idle /\ rewritten = Idle
  /\ IF part = "retrieval" THEN Retrieved!Init
     ELSE /\ kind = Idle /\ mode = Idle /\ wanted = Idle /\ k = Idle /\ rows = Idle /\ vectors = Idle
          /\ matching = Idle /\ semantic = Idle /\ lexical = Idle /\ known = Idle /\ matches = Idle
          /\ past = Idle /\ changes = Idle
  /\ IF part = "themes" THEN Clusters!Init
     ELSE /\ held = Idle /\ edges = Idle /\ phase = Idle /\ lastRead = Idle /\ pagesRead = Idle
          /\ page = Idle /\ entities = Idle /\ byId = Idle /\ community = Idle /\ visited = Idle
          /\ moved = Idle /\ passes = Idle /\ answers = Idle /\ skipFailed = Idle /\ written = Idle
          /\ writesMade = Idle

AlgorithmsNext ==
  /\ UNCHANGED part
  /\ \/ /\ part = "chunking" /\ ChunkerNext
        /\ UNCHANGED <<read, timelineVars, retrievalVars, themeVars>>
     \/ /\ part = "meaning" /\ Meaning!Next
        /\ UNCHANGED <<chunkerVars, timelineVars, retrievalVars, themeVars>>
     \/ /\ part = "timeline" /\ Timeline!Next
        /\ UNCHANGED <<chunkerVars, read, retrievalVars, themeVars>>
     \/ /\ part = "retrieval" /\ Retrieved!Next
        /\ UNCHANGED <<chunkerVars, read, timelineVars, themeVars>>
     \/ /\ part = "themes" /\ Clusters!Next
        /\ UNCHANGED <<chunkerVars, read, timelineVars, retrievalVars>>

AlgorithmsSpec == AlgorithmsInit /\ [][AlgorithmsNext]_algorithmVars

-----------------------------------------------------------------------------
(* The properties of the other modules, under the names they have there. *)

(* ExtentMeaning: extents relate as what their texts mean. *)
RelationsAreMeant == Meaning!RelationsAreMeant

(* ExtentMeaning: what is rendered parses back. *)
RenderingsParseBack == Meaning!RenderingsParseBack

(* ExtentMeaning: an open extent has one end (contradicted). *)
OpenExtentsHaveOneEnd == Meaning!OpenExtentsHaveOneEnd

(* ExtentMeaning: unambiguous text needs no vantage point (known limit). *)
VantageFree == Meaning!VantageFree

(* TimelineQuery: a scan sees what stood still, once. *)
ScanSeesSettled == part = "timeline" => Timeline!ScanSeesSettled

(* TimelineQuery: inferred relations agree with the timeline. *)
RelationsFollowTheTimeline == part = "timeline" => Timeline!RelationsFollowTheTimeline

(* TimelineQuery: a timeline is in the order of time (known limit). *)
TimelineIsChronological == part = "timeline" => Timeline!TimelineIsChronological

(* Retrieval: what is matched, and in which order. *)
MatchesHold == part = "retrieval" => Retrieved!MatchesHold

(* Retrieval: every match is of a type asked for (known limit). *)
TypesAsAsked == part = "retrieval" => Retrieved!TypesAsAsked

(* Themes: the report accounts for the tenant. *)
ThemesAccountForTheTenant == part = "themes" => Clusters!ThemesAccountForTheTenant

(* Themes: the partition never gets worse. *)
ModularityNeverFalls == Clusters!ModularityNeverFalls

(* Themes: the passes end by themselves, where nobody would move. *)
NobodyWouldMove == part = "themes" => Clusters!NobodyWouldMove

(* Themes: a tie moves nobody (known limit). *)
TiesStay == Clusters!TiesStay
=============================================================================
