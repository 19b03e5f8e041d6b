---------------------------- MODULE ExtentMeaning ----------------------------
(***************************************************************************)
(* Two temporal expressions read from documents, and how what was made of  *)
(* them compares with what they mean: the whole of src/src/redstring/      *)
(* domain/{temporal_parsing,interval}.py, from text to relation.           *)
(*                                                                         *)
(* What an expression means is said here without parsing it, as the        *)
(* instants it covers, of a sample that tells the expressions apart.       *)
(***************************************************************************)
EXTENDS TemporalExtents, Sequences

CONSTANTS
  Expressions, \* [markers, form], the texts there may be
  References,  \* the reference dates there may be, and None
  Samples      \* instants, as many as tell the readings apart

VARIABLE
  read \* at most two readings: a text, its document's reference date, and more

-----------------------------------------------------------------------------
(* What it means *)

OnDay(m, year, month, day) == YearOf(m) = year /\ MonthOf(m) = month /\ DayOf(m) = day

QuarterOf(m) == ((MonthOf(m) - 1) \div 3) + 1

(* In the hour or the minute that is written, if one is: a text with seconds is
   a statement about their minute (_time_precision). *)
AtTime(f, m) ==
  LET unit == Width[ClockPrecision(f.clock)]
  IN (m.local % Width.day) \div unit = f.time \div unit

(* Whether a form, read at a moment, covers the instant x.  Dates without an
   offset are those of the reference's clock. *)
Spans(f, vantage, x) ==
  LET m == Utc(x)
  IN CASE f.kind = "year" -> YearOf(m) = f.year
       [] f.kind = "years" -> YearOf(m) \in f.first..f.last
       [] f.kind = "month" -> YearOf(m) = f.year /\ MonthOf(m) = f.month
       [] f.kind = "months" -> YearOf(m) = f.year /\ MonthOf(m) \in f.first..f.last
       [] f.kind = "quarter" -> YearOf(m) = f.year /\ QuarterOf(m) = f.quarter
       [] f.kind = "quarters" -> YearOf(m) = f.year /\ QuarterOf(m) \in f.first..f.last
       [] f.kind = "decade" -> YearOf(m) \div 10 = f.decade
       [] f.kind = "period" ->
            /\ (YearOf(m) - 1) \div 100 = f.century - 1
            /\ ((YearOf(m) - 1) % 100) + 1 \in Portion[f.portion][1]..Portion[f.portion][2]
       [] f.kind = "absolute" ->
            LET there == Utc(x + Given(f.offset, vantage.offset))
            IN /\ AtTime(f, there)
               /\ OnDay(there, Given(f.year, YearOf(vantage)), Given(f.month, MonthOf(vantage)),
                        Given(f.day, DayOf(vantage)))
       [] f.kind = "natural" ->
            LET there == Utc(x + vantage.offset)
                then == Utc(vantage.local - f.ago)
            IN AtTime(f, there) /\ OnDay(there, YearOf(then), MonthOf(then), DayOf(then))

Span(f, vantage) == {x \in Samples : Spans(f, vantage, x)}

(* "before" is everything until the span begins, "after" everything from where
   it is over; the other markers are claims about confidence. *)
Means(text, vantage) ==
  LET span == Span(text.form, vantage)
  IN CASE text.markers = {"before"} -> {x \in Samples : \A y \in span : x < y}
       [] text.markers = {"after"} -> {x \in Samples : \A y \in span : x > y}
       [] OTHER -> span

SmallestOf(xs) == CHOOSE x \in xs : \A y \in xs : x <= y
LargestOf(xs) == CHOOSE x \in xs : \A y \in xs : y <= x

RelationMeant(e, f) ==
  IF e.means = f.means THEN "equals"
  ELSE IF LargestOf(e.means) < SmallestOf(f.means) THEN "before"
  ELSE IF LargestOf(f.means) < SmallestOf(e.means) THEN "after"
  ELSE IF e.means \subseteq f.means THEN "during"
  ELSE IF f.means \subseteq e.means THEN "contains"
  ELSE "overlaps"

-----------------------------------------------------------------------------
(* A reading: what is made of a text, and what it means.  What is meant without
   a reference date is meant from anywhere. *)

Vantage(reference) == Given(reference, ProbeA)

Reading(text, reference) ==
  [text |-> text, reference |-> reference,
   extent |-> ParseTemporal(text, reference),
   means |-> Means(text, Vantage(reference))]

Readings == {Reading(text, reference) : text \in Expressions, reference \in References}

Init == read = <<>>

Read(text, reference) ==
  /\ Len(read) < 2
  /\ read' = Append(read, Reading(text, reference))

Next == \E text \in Expressions, reference \in References : Read(text, reference)

Spec == Init /\ [][Next]_read

Parses(e) == e.extent \notin {None, Ambiguous, Raised}

(* What this says the meaning of: one marker at most, nothing after what has
   two ends, and, known limits of the parser, no quarter, whose extent is its
   first month, and no amount of time before a date that is not in UTC. *)
Plain(e) ==
  /\ Cardinality(e.text.markers) <= 1
  /\ "after" \in e.text.markers => e.extent.end = None
  /\ e.text.form.kind \notin {"quarter", "quarters"}
  /\ e.text.form.kind = "natural" => Vantage(e.reference).offset = 0

Understood(e) == Parses(e) /\ Plain(e)

(* Nothing finer than its precision was filled in from the reference. *)
OnItsUnit(e) == e.extent.start.local % Width[e.extent.precision] = 0

-----------------------------------------------------------------------------
(* Properties *)

Related(e, f) == RelateBounds(Bounds(e.extent), Bounds(f.extent))

(* For the texts whose meaning is said here (Plain), read at any two dates:
   extents that begin where a unit of their precision does are related as the
   spans of time the texts mean, whatever their precision, markers and ends;
   and even where the reference's time of day was filled in, what is meant to
   be wholly before or after the other is found to be, unless it is a "before",
   which then stops late (interval.py:100-214, temporal_parsing.py:219-524). *)
RelationsAreMeant ==
  Len(read) = 2 /\ Understood(read[1]) /\ Understood(read[2]) =>
    LET e == read[1]
        f == read[2]
        meant == RelationMeant(e, f)
    IN /\ OnItsUnit(e) /\ OnItsUnit(f) => Related(e, f) = meant
       /\ /\ meant \in {"before", "after"}
          /\ \A r \in {e, f} : "before" \in r.text.markers => OnItsUnit(r)
          => Related(e, f) = meant

SameExtent(x, y) ==
  /\ SameEnd(x.start, y.start) /\ SameEnd(x.end, y.end)
  /\ x.precision = y.precision /\ x.uncertainty = y.uncertainty

(* An extent that can be rendered is rendered as text that parses back to the
   same extent, and from no vantage point (render_temporal,
   temporal_parsing.py:536-578). *)
RenderingsParseBack ==
  \A i \in 1..Len(read) :
    Parses(read[i]) =>
      LET text == RenderTemporal(read[i].extent)
          back == ParseTemporal(text, None)
      IN text # None =>
           back \notin {None, Ambiguous, Raised} /\ SameExtent(back, read[i].extent)

(* An extent open at one side has one end: "parse_temporal cannot construct"
   another (bounds, interval.py:117-131). *)
OpenExtentsHaveOneEnd ==
  \A i \in 1..Len(read) :
    Parses(read[i]) /\ read[i].extent.uncertainty \in {"before", "after"}
      => read[i].extent.end = None

(* What text means that is accepted without a reference date is the same from
   every vantage point.  (Known limit: a date without a clock time takes the
   reference's.) *)
VantageFree ==
  \A i \in 1..Len(read) :
    LET text == read[i].text
    IN Parses(read[i]) /\ ParseTemporal(text, None) # Ambiguous
         => read[i].extent = ParseTemporal(text, None)
=============================================================================
