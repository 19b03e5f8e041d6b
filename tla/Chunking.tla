------------------------------ MODULE Chunking ------------------------------
(***************************************************************************)
(* The two chunkers, cutting one text:                                     *)
(* src/src/redstring/extraction/chunkers/{sliding_window_chunker,          *)
(* boundary_preference_chunker}.py.                                        *)
(*                                                                         *)
(* A text is its length and what ends at each position p, that is, between *)
(* the characters p and p + 1: a paragraph break, a sentence with the      *)
(* white space after it, a line, a word, or nothing.                       *)
(***************************************************************************)
EXTENDS Integers, Sequences

CONSTANTS
  CutTexts,     \* the texts: {[length, ends : 1..length -> Marks]}
  Sizes,     \* max_chunk_size
  Overlaps,  \* overlap_size
  LookBack   \* how far _find_break_point looks back, 500

Marks == {"paragraph", "sentence", "line", "word", "none"}

ASSUME CutTextsAssumption ==
  \A t \in CutTexts : t.length \in Nat \ {0} /\ t.ends \in [1..t.length -> Marks]
ASSUME SizesAssumption ==
  Sizes \subseteq Nat \ {0} /\ Overlaps \subseteq Nat /\ LookBack \in Nat \ {0}

VARIABLES
  text, size, overlap,  \* the call
  chunker,  \* "sliding_window", "boundary_preference"
  start,    \* where the next chunk starts
  chunks,   \* the chunks yielded: [start, end, overlap]
  done      \* the call has returned

chunkerVars == <<text, size, overlap, chunker, start, chunks, done>>

(* A blank text has no chunks; an overlap as large as the chunk is refused. *)
ChunkerInit ==
  /\ text \in CutTexts
  /\ size \in Sizes
  /\ overlap \in {o \in Overlaps : o < size}
  /\ chunker \in {"sliding_window", "boundary_preference"}
  /\ start = 0
  /\ chunks = <<>>
  /\ done = FALSE

Positions(marks) == {p \in 1..text.length : text.ends[p] \in marks}

IsLastOf(p, ps) == p \in ps /\ \A q \in ps : q <= p

PreviousEnd == IF chunks = <<>> THEN 0 ELSE chunks[Len(chunks)].end

Limit == IF start + size <= text.length THEN start + size ELSE text.length

Yield(end, shared) ==
  chunks' = Append(chunks, [start |-> start, end |-> end, overlap |-> shared])

-----------------------------------------------------------------------------
(* SlidingWindowChunker *)

SearchStart == IF Limit - LookBack > start THEN Limit - LookBack ELSE start

(* Whole breaks in the segment; what starts the next sentence is in it too. *)
ParagraphBreaks == {p \in Positions({"paragraph"}) : SearchStart + 2 <= p /\ p <= Limit}
SentenceEndings == {p \in Positions({"sentence"}) : SearchStart + 2 <= p /\ p < Limit}

(* rfind gives the last of them, which counts in the latter half only. *)
InLatterHalf(p) == p - 1 - SearchStart > (Limit - SearchStart) \div 2
LastOfKind(p, marks) ==
  IsLastOf(p, {q \in Positions(marks) : SearchStart < q /\ q <= Limit}) /\ InLatterHalf(p)
Newline(p) == LastOfKind(p, {"line", "paragraph"})
Space(p) == LastOfKind(p, {"word", "sentence"})

(* _find_break_point *)
FindBreakPoint(end) ==
  IF ParagraphBreaks # {} THEN IsLastOf(end, ParagraphBreaks)
  ELSE IF SentenceEndings # {} THEN IsLastOf(end, SentenceEndings)
  ELSE IF \E p \in 1..text.length : Newline(p) THEN Newline(end)
  ELSE IF \E p \in 1..text.length : Space(p) THEN Space(end)
  ELSE end = Limit

(* A break point inside the previous chunk is not used. *)
SlidingEnd(end) ==
  \E found \in 1..text.length :
    /\ IF Limit < text.length THEN FindBreakPoint(found) ELSE found = Limit
    /\ end = IF chunks # <<>> /\ found <= PreviousEnd THEN Limit ELSE found

(* Mutant: the next chunk begins where the overlap does, or one later. *)
PastTheStart(end) == IF end - overlap <= start THEN start + size ELSE end - overlap

(* The overlap is given up where it would not let the window move. *)
SlidingStart(end) == IF end - overlap <= start THEN end ELSE end - overlap

SlidingChunk ==
  /\ chunker = "sliding_window" /\ ~ done
  /\ \E end \in 1..text.length :
       /\ SlidingEnd(end)
       /\ Yield(end, IF chunks = <<>> THEN 0 ELSE IF overlap <= start THEN overlap ELSE start)
       /\ done' = (end >= text.length)
       /\ start' = IF end >= text.length THEN start ELSE SlidingStart(end)
  /\ UNCHANGED <<text, size, overlap, chunker>>

-----------------------------------------------------------------------------
(* BoundaryPreferenceChunker *)

(* A boundary the previous chunk has not used. *)
After == IF start >= PreviousEnd THEN start ELSE PreviousEnd

Within(marks) == {p \in Positions(marks) : After < p /\ p <= Limit}

(* _last_within, of each kind in turn; a paragraph and a sentence end in white
   space, so both end a word. *)
BoundaryEnd(end) ==
  IF Within({"paragraph"}) # {} THEN IsLastOf(end, Within({"paragraph"}))
  ELSE IF Within({"sentence"}) # {} THEN IsLastOf(end, Within({"sentence"}))
  ELSE IF Within(Marks \ {"none"}) # {} THEN IsLastOf(end, Within(Marks \ {"none"}))
  ELSE end = Limit

BoundaryStart(end) == IF end - overlap > start THEN end - overlap ELSE start + 1

BoundaryChunk ==
  /\ chunker = "boundary_preference" /\ ~ done
  /\ \E end \in 1..text.length :
       /\ IF Limit = text.length THEN end = text.length ELSE BoundaryEnd(end)
       /\ Yield(end, IF chunks = <<>> THEN 0 ELSE PreviousEnd - start)
       /\ done' = (end = text.length)
       /\ start' = IF end = text.length THEN start ELSE BoundaryStart(end)
  /\ UNCHANGED <<text, size, overlap, chunker>>

Returned == done /\ UNCHANGED chunkerVars

ChunkerNext == SlidingChunk \/ BoundaryChunk \/ Returned

ChunkerSpec == ChunkerInit /\ [][ChunkerNext]_chunkerVars

-----------------------------------------------------------------------------
(* Properties *)

ChunkerTypeOK ==
  /\ text \in CutTexts
  /\ size \in Sizes
  /\ overlap \in Overlaps /\ overlap < size
  /\ chunker \in {"sliding_window", "boundary_preference"}
  /\ start \in Nat
  /\ chunks \in Seq([start : Nat, end : Nat, overlap : Int])
  /\ done \in BOOLEAN

(* A chunk never exceeds the size asked for ... *)
Sized == \A i \in 1..Len(chunks) :
  chunks[i].start < chunks[i].end /\ chunks[i].end <= chunks[i].start + size

(* ... begins after the one before it began and no later than it ended, and
   ends after it: nothing is skipped, and no chunk lies inside another ... *)
Linked == \A i, j \in 1..Len(chunks) : j = i + 1 =>
  /\ chunks[i].start < chunks[j].start
  /\ chunks[j].start <= chunks[i].end
  /\ chunks[i].end < chunks[j].end

(* ... from the first character to the last. *)
Whole ==
  /\ chunks # <<>> => chunks[1].start = 0
  /\ done => chunks # <<>> /\ chunks[Len(chunks)].end = text.length

(* Wherever the boundaries lie, no character is lost, no chunk is a part of
   its predecessor and the cutting ends (sliding_window_chunker.py:215-300,
   boundary_preference_chunker.py:174-226). *)
ChunksCover == Sized /\ Linked /\ Whole

(* What a chunk says it shares with the one before is what it shares.
   (Known limit: the sliding window says `overlap` when it gave it up.) *)
OverlapsAreTrue == \A i, j \in 1..Len(chunks) : j = i + 1 =>
  chunks[j].overlap = chunks[i].end - chunks[j].start
=============================================================================
