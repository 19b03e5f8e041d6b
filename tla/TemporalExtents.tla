--------------------------- MODULE TemporalExtents ---------------------------
(***************************************************************************)
(* What a temporal expression denotes, and how two extents stand to one    *)
(* another: src/src/redstring/domain/{temporal,temporal_parsing,interval}  *)
(* .py, as operators.                                                      *)
(*                                                                         *)
(* A moment is [local, offset]: a wall clock, counted in instants from the *)
(* start of year 1, and how far it is ahead of UTC.  The calendar is       *)
(* regular and its units are short; only that they nest matters here.      *)
(* An expression is the set of markers it carries and one form.            *)
(***************************************************************************)
EXTENDS Integers, FiniteSets

CONSTANTS
  None,          \* Python's None
  Ambiguous,     \* AmbiguousReferenceDateError
  Raised,        \* ValueError out of datetime: no such year
  MaxYear,       \* datetime.MAXYEAR
  ProbeA, ProbeB \* two vantage points, at midnight UTC

Width == [instant |-> 1, minute |-> 2, hour |-> 4, day |-> 8, month |-> 16, year |-> 192]

Moment == [local : Int, offset : Int]

(* Aware datetimes compare by the instant they name. *)
At(m) == m.local - m.offset

Utc(n) == [local |-> n, offset |-> 0]
Date(year, month, day) ==
  Utc((year - 1) * Width.year + (month - 1) * Width.month + (day - 1) * Width.day)
Jan1(year) == Date(year, 1, 1)
YearOf(m) == (m.local \div Width.year) + 1
MonthOf(m) == ((m.local % Width.year) \div Width.month) + 1
DayOf(m) == ((m.local % Width.month) \div Width.day) + 1

-----------------------------------------------------------------------------
(* The strategies of _attempt.  The first that knows a form answers
   [start, end, precision]; datetime refuses a year out of range. *)

Parsed(start, end, precision) ==
  IF \E m \in {start, end} \ {None} : YearOf(m) \notin 1..MaxYear THEN Raised
  ELSE [start |-> start, end |-> end, precision |-> precision]

FirstMonth(quarter) == (quarter - 1) * 3 + 1

(* _parse_range: a range that runs backwards is none. *)
ParseRange(f) ==
  IF f.last < f.first THEN None
  ELSE
    CASE f.kind = "years" -> Parsed(Jan1(f.first), Jan1(f.last), "year")
      [] f.kind = "months" -> Parsed(Date(f.year, f.first, 1), Date(f.year, f.last, 1), "month")
      [] f.kind = "quarters" ->
           Parsed(Date(f.year, FirstMonth(f.first), 1), Date(f.year, FirstMonth(f.last), 1), "month")

(* _parse_partial *)
ParsePartial(f) ==
  CASE f.kind = "year" -> Parsed(Jan1(f.year), None, "year")
    [] f.kind = "month" -> Parsed(Date(f.year, f.month, 1), None, "month")
    [] f.kind = "quarter" -> Parsed(Date(f.year, FirstMonth(f.quarter), 1), None, "month")
    [] f.kind = "decade" -> Parsed(Jan1(f.decade * 10), Jan1(f.decade * 10 + 9), "year")

Portion == [whole |-> <<1, 100>>, early |-> <<1, 33>>, mid |-> <<34, 66>>, late |-> <<67, 100>>]

(* _parse_period *)
ParsePeriod(f) ==
  LET base == (f.century - 1) * 100
  IN IF f.century < 1 THEN None
     ELSE Parsed(Jan1(base + Portion[f.portion][1]), Jan1(base + Portion[f.portion][2]), "year")

(* A clock time is written to the hour, the minute or the second, or not at
   all. *)

(* _time_precision: a minute is the finest precision there is. *)
ClockPrecision(clock) ==
  CASE clock = "none" -> "day" [] clock = "hour" -> "hour" [] OTHER -> "minute"

(* The unit down to which the text is definite. *)
WrittenUnit(clock) ==
  CASE clock = "none" -> "day" [] clock = "second" -> "instant" [] OTHER -> clock

(* dateutil fills what the text omits from the base, its time of day
   included: a date without a clock time is as late in its day as the base. *)
TimeFilled(f, base) == f.time + (base.local % Width[WrittenUnit(f.clock)])

Given(x, otherwise) == IF x = None THEN otherwise ELSE x

(* _parse_absolute *)
ParseAbsolute(f, base) ==
  LET day == Date(Given(f.year, YearOf(base)), Given(f.month, MonthOf(base)), Given(f.day, DayOf(base)))
  IN Parsed([local |-> day.local + TimeFilled(f, base), offset |-> Given(f.offset, base.offset)],
            None, ClockPrecision(f.clock))

(* _parse_natural: an amount of time before the base, whose offset is ignored,
   and at the clock time written, if one is. *)
ParseNatural(f, base) ==
  LET then == base.local - f.ago
      midnight == (then \div Width.day) * Width.day
  IN Parsed(Utc(IF f.clock = "none" THEN then ELSE midnight + f.time), None,
            ClockPrecision(f.clock))

Attempt(f, base) ==
  CASE f.kind \in {"years", "months", "quarters"} -> ParseRange(f)
    [] f.kind \in {"year", "month", "quarter", "decade"} -> ParsePartial(f)
    [] f.kind = "period" -> ParsePeriod(f)
    [] f.kind = "absolute" -> ParseAbsolute(f, base)
    [] f.kind = "natural" -> ParseNatural(f, base)
    [] f.kind = "other" -> None

-----------------------------------------------------------------------------
(* parse_temporal *)

(* detect_uncertainty: the patterns are tried in this order. *)
DetectUncertainty(markers) ==
  IF "circa" \in markers THEN "circa"
  ELSE IF "approximate" \in markers THEN "approximate"
  ELSE IF "before" \in markers THEN "before"
  ELSE IF "after" \in markers THEN "after"
  ELSE "exact"

Found(f, reference) ==
  IF reference # None THEN Attempt(f, reference)
  ELSE IF Attempt(f, ProbeA) # Attempt(f, ProbeB) THEN Ambiguous
  ELSE Attempt(f, ProbeA)

(* A period is uncertain by construction. *)
UncertaintyOf(e) ==
  LET said == DetectUncertainty(e.markers)
  IN IF e.form.kind = "period" /\ said = "exact" THEN "approximate" ELSE said

ParseTemporal(e, reference) ==
  LET found == Found(e.form, reference)
  IN IF found \in {None, Ambiguous, Raised} THEN found
     ELSE [start |-> found.start, end |-> found.end, precision |-> found.precision,
           uncertainty |-> UncertaintyOf(e)]

-----------------------------------------------------------------------------
(* render_temporal: an expression that parses back, or None. *)

(* Mutant: only what opens an end is written out. *)
OpeningMarkers(uncertainty) == {uncertainty} \intersect {"before", "after"}

MarkersFor(uncertainty) == IF uncertainty = "exact" THEN {} ELSE {uncertainty}

IsYear(m) == At(m) = At(Jan1(YearOf(m)))
IsMonth(m) == At(m) = At(Date(YearOf(m), MonthOf(m), 1))
IsDay(m) == At(m) = At(Date(YearOf(m), MonthOf(m), DayOf(m)))

DayForm(m) ==
  [kind |-> "absolute", year |-> YearOf(m), month |-> MonthOf(m), day |-> DayOf(m),
   clock |-> "none", time |-> 0, offset |-> None]

RangeOfYears(x) == IsYear(x.start) /\ IsYear(x.end) /\ YearOf(x.end) > YearOf(x.start)

FormFor(x) ==
  LET form ==
        CASE x.precision = "year" /\ x.end = None /\ IsYear(x.start) ->
               [kind |-> "year", year |-> YearOf(x.start)]
          [] x.precision = "year" /\ x.end # None /\ RangeOfYears(x) ->
               [kind |-> "years", first |-> YearOf(x.start), last |-> YearOf(x.end)]
          [] x.precision = "month" /\ x.end = None /\ IsMonth(x.start) ->
               [kind |-> "month", year |-> YearOf(x.start), month |-> MonthOf(x.start)]
          [] x.precision = "day" /\ x.end = None /\ IsDay(x.start) -> DayForm(x.start)
          [] OTHER -> None
  IN IF form # None /\ YearOf(x.start) < 1000
     THEN [kind |-> "other"] \* fewer than four digits
     ELSE form

Renderable(x) ==
  /\ x.start # None /\ x.precision # None /\ x.uncertainty # "inferred"
  /\ FormFor(x) # None

RenderTemporal(x) ==
  IF Renderable(x) THEN [markers |-> MarkersFor(x.uncertainty), form |-> FormFor(x)] ELSE None

-----------------------------------------------------------------------------
(* bounds: the half-open interval of an extent, None if it has no dates. *)

(* widen: the next unit, on the moment's own wall clock. *)
Widen(m, precision) ==
  LET w == Width[IF precision = None THEN "instant" ELSE precision]
      next == [m EXCEPT !.local = ((@ \div w) + 1) * w]
  IN IF YearOf(next) > MaxYear THEN Raised ELSE next

Interval(lower, upper) ==
  IF Raised \in {lower, upper} THEN Raised ELSE [lower |-> lower, upper |-> upper]

(* Mutant: "before" runs to the end of the unit it names. *)
ThroughTheUnit(anchor, x) == Widen(anchor, x.precision)

UpTo(anchor, x) == anchor

Bounds(x) ==
  LET anchor == Given(x.start, x.end)
  IN IF anchor = None THEN None
     ELSE IF x.uncertainty = "before" THEN Interval(None, UpTo(anchor, x))
     ELSE IF x.uncertainty = "after" THEN Interval(Widen(anchor, x.precision), None)
     ELSE Interval(x.start, Widen(Given(x.end, x.start), x.precision))

-----------------------------------------------------------------------------
(* relate_bounds.  An open end is None: below everything as a lower bound,
   above everything as an upper one. *)

SameEnd(p, q) == IF None \in {p, q} THEN p = q ELSE At(p) = At(q)

Disjoint(upper, lower) == upper # None /\ lower # None /\ At(upper) <= At(lower)

LowerLe(p, q) == p = None \/ (q # None /\ At(p) <= At(q))
UpperLe(p, q) == q = None \/ (p # None /\ At(p) <= At(q))

RelateBounds(a, b) ==
  IF SameEnd(a.lower, b.lower) /\ SameEnd(a.upper, b.upper) THEN "equals"
  ELSE IF Disjoint(a.upper, b.lower) THEN "before"
  ELSE IF Disjoint(b.upper, a.lower) THEN "after"
  ELSE IF LowerLe(b.lower, a.lower) /\ UpperLe(a.upper, b.upper) THEN "during"
  ELSE IF LowerLe(a.lower, b.lower) /\ UpperLe(b.upper, a.upper) THEN "contains"
  ELSE "overlaps"
=============================================================================
