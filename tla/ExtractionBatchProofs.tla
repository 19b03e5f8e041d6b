----------------------- MODULE ExtractionBatchProofs -----------------------
(***************************************************************************)
(* For any documents, answers, concurrency and options, whatever fails,    *)
(* returns late or is cancelled: a document that has ended left no call in *)
(* flight and no slot of its limiter behind, a prompt does not depend on   *)
(* the order calls returned in, and what is recorded is what the answers   *)
(* listed.                                                                 *)
(***************************************************************************)
EXTENDS ExtractionBatch, Iteration, FiniteSetTheorems, TLAPS

StepOf(d, c) == call[d][c].step

Busy(d) == {c \in ChunksOf(d) : StepOf(d, c) \in {"waiting", "calling"}}

FunctionOn(f, S) == f = [x \in S |-> f[x]]

IsCall(k) == k = [step |-> k.step, asked |-> k.asked, answer |-> k.answer, found |-> k.found,
                  heard |-> k.heard]

Shaped ==
  /\ FunctionOn(doc, Docs) /\ FunctionOn(free, Docs) /\ FunctionOn(wave, Docs)
  /\ FunctionOn(call, Docs)
  /\ \A d \in Docs : /\ FunctionOn(call[d], ChunksOf(d))
                     /\ \A c \in ChunksOf(d) : IsCall(call[d][c])

(* A slot is free or under a call. *)
Balanced ==
  \A d \in Docs : free[d] \in Nat /\ free[d] + Cardinality(InFlight(d)) = Concurrency

(* Only the wavefront of a document being extracted has calls to make. *)
OnlyItsWave ==
  \A d \in Docs :
    /\ doc[d] # "extracting" => Busy(d) = {}
    /\ Busy(d) \subseteq Wavefront(d, wave[d])

IInv == Shaped /\ Balanced /\ OnlyItsWave

LEMMA StepSet ==
  ASSUME NEW k, IsCall(k), NEW step, NEW n, n = [k EXCEPT !.step = step]
  PROVE  /\ IsCall(n) /\ n.step = step
         /\ n.answer = k.answer /\ n.found = k.found /\ n.heard = k.heard
<1>1. n = [step |-> step, asked |-> k.asked, answer |-> k.answer, found |-> k.found,
           heard |-> k.heard]
  BY DEF IsCall
<1>2. /\ n.step = step /\ n.asked = k.asked /\ n.answer = k.answer /\ n.found = k.found
      /\ n.heard = k.heard
  BY <1>1
<1>3. IsCall(n) BY <1>1, <1>2, Zenon DEF IsCall
<1> QED BY <1>2, <1>3

LEMMA Finite ==
  ASSUME NEW d \in Docs
  PROVE  IsFiniteSet(InFlight(d)) /\ Cardinality(InFlight(d)) \in Nat
<1>1. IsFiniteSet(ChunksOf(d))
  <2>1. ChunksOf(d) = 1..Len(Texts[d]) /\ Len(Texts[d]) \in Nat BY ChunksAssumption
  <2> QED BY <2>1, FS_Interval
<1>2. InFlight(d) \subseteq ChunksOf(d) BY DEF InFlight
<1> QED BY <1>1, <1>2, FS_Subset, FS_CardinalityType

LEMMA InFlightIsBusy == \A d : InFlight(d) \subseteq Busy(d)
BY DEF InFlight, Busy, StepOf

LEMMA InvariantGives == IInv => NothingLeftBehind
<1> SUFFICES ASSUME IInv, NEW d \in Docs, doc[d] \in {"recorded", "raised"}
             PROVE  InFlight(d) = {} /\ free[d] = Concurrency
  BY DEF NothingLeftBehind
<1>1. InFlight(d) = {} BY InFlightIsBusy DEF IInv, OnlyItsWave
<1>2. free[d] \in Nat /\ free[d] + 0 = Concurrency
  BY <1>1, FS_EmptySet DEF IInv, Balanced
<1> QED BY <1>1, <1>2

LEMMA InitHolds == Init => IInv
<1> SUFFICES ASSUME Init PROVE IInv
  OBVIOUS
<1>1. \A d \in Docs : doc[d] = "queued" /\ free[d] = Concurrency
  BY DEF Init
<1>2. \A d \in Docs : \A c \in ChunksOf(d) : call[d][c] = NoCall
  BY DEF Init
<1>3. NoCall.step = "idle" /\ IsCall(NoCall)
  BY DEF NoCall, IsCall
<1>4. Shaped
  <2>1. \A d \in Docs : FunctionOn(call[d], ChunksOf(d)) BY DEF Init, FunctionOn
  <2>2. FunctionOn(doc, Docs) /\ FunctionOn(free, Docs) /\ FunctionOn(wave, Docs)
          /\ FunctionOn(call, Docs)
    BY DEF Init, FunctionOn
  <2> QED BY <1>2, <1>3, <2>1, <2>2 DEF Shaped
<1>5. \A d \in Docs : Busy(d) = {}
  BY <1>2, <1>3 DEF Busy, StepOf
<1>6. \A d \in Docs : Cardinality(InFlight(d)) = 0
  BY <1>5, InFlightIsBusy, FS_EmptySet
<1>7. Balanced
  BY <1>1, <1>6, ParametersAssumption DEF Balanced
<1>8. OnlyItsWave
  BY <1>5 DEF OnlyItsWave
<1> QED BY <1>4, <1>7, <1>8 DEF IInv

(* A waiting call takes a slot. *)
LEMMA AcquireKeeps ==
  ASSUME IInv, NEW d \in Docs, NEW c \in ChunksOf(d), Acquire(d, c)
  PROVE  IInv'
<1>0. PICK k, n : k = [call[d][c] EXCEPT !.step = "calling"] /\ n = free[d] - 1
  OBVIOUS
<1>1. IsCall(k) /\ k.step = "calling"
  <2>1. PICK old : old = call[d][c] OBVIOUS
  <2>2. IsCall(old) BY <2>1 DEF IInv, Shaped
  <2>3. k = [old EXCEPT !.step = "calling"] BY <1>0, <2>1
  <2> QED BY <2>2, <2>3, StepSet
<1>2. call' = [call EXCEPT ![d][c] = k] /\ free' = [free EXCEPT ![d] = n]
  BY <1>0, Zenon DEF Acquire
<1>3. UNCHANGED <<doc, wave>> /\ free[d] > 0 /\ StepOf(d, c) = "waiting"
  BY DEF Acquire, StepOf
<1>4. /\ Shaped'
      /\ free'[d] = n /\ \A e \in Docs : e # d => free'[e] = free[e]
      /\ \A e \in Docs : \A b \in ChunksOf(e) :
           call'[e][b] = IF e = d /\ b = c THEN k ELSE call[e][b]
  <2>1. Shaped BY DEF IInv
  <2>2. /\ FunctionOn(call', Docs)
        /\ \A e \in Docs : /\ FunctionOn(call'[e], ChunksOf(e))
                           /\ \A b \in ChunksOf(e) :
                                call'[e][b] = IF e = d /\ b = c THEN k ELSE call[e][b]
    BY <1>2, <2>1 DEF Shaped, FunctionOn
  <2>3. FunctionOn(free', Docs) /\ free'[d] = n /\ \A e \in Docs : e # d => free'[e] = free[e]
    BY <1>2, <2>1 DEF Shaped, FunctionOn
  <2>4. \A e \in Docs : \A b \in ChunksOf(e) : IsCall(call'[e][b])
    BY <1>1, <2>1, <2>2 DEF Shaped
  <2>5. FunctionOn(doc', Docs) /\ FunctionOn(wave', Docs)
    BY <1>3, <2>1 DEF Shaped
  <2> QED BY <2>2, <2>3, <2>4, <2>5 DEF Shaped
<1>4a. \A e \in Docs : \A b \in ChunksOf(e) :
         StepOf(e, b)' = IF e = d /\ b = c THEN "calling" ELSE StepOf(e, b)
  BY <1>1, <1>4 DEF StepOf
<1>5. \A e \in Docs : Busy(e)' = Busy(e)
  BY <1>3, <1>4a DEF Busy
<1>6. OnlyItsWave'
  BY <1>3, <1>5 DEF IInv, OnlyItsWave, Wavefront
<1>7. \A e \in Docs : e # d => InFlight(e)' = InFlight(e)
  BY <1>4a DEF InFlight, StepOf
<1>8. InFlight(d)' = InFlight(d) \union {c} /\ c \notin InFlight(d)
  BY <1>3, <1>4a DEF InFlight, StepOf
<1>9. Cardinality(InFlight(d)') = Cardinality(InFlight(d)) + 1
  BY <1>8, Finite, FS_AddElement
<1>10. Balanced'
  <2>1. ASSUME NEW e \in Docs
        PROVE  free'[e] \in Nat /\ free'[e] + Cardinality(InFlight(e)') = Concurrency
    <3>1. free[e] \in Nat /\ free[e] + Cardinality(InFlight(e)) = Concurrency
            /\ Cardinality(InFlight(e)) \in Nat
      BY Finite DEF IInv, Balanced
    <3>2. CASE e = d
      <4>1. free'[d] = free[d] - 1 BY <1>0, <1>4
      <4> QED BY <1>3, <1>9, <3>1, <3>2, <4>1
    <3>3. CASE e # d
      <4>1. free'[e] = free[e] BY <1>4, <3>3
      <4> QED BY <1>7, <3>1, <3>3, <4>1
    <3> QED BY <3>2, <3>3
  <2> QED BY <2>1 DEF Balanced
<1> QED BY <1>4, <1>6, <1>10 DEF IInv

(* A call that returns gives its slot back, and may wait to be made again. *)
LEMMA ReturnKeeps ==
  ASSUME IInv, NEW d \in Docs, NEW c \in ChunksOf(d), NEW answer, NEW new,
         NEW step \in {"waiting", "answered", "failed", "broken"},
         Return(d, c, step, answer, new)
  PROVE  IInv'
<1>0. PICK k, n :
        /\ k = [step |-> step, asked |-> call[d][c].asked + 1, answer |-> answer,
                found |-> IF step = "answered" THEN MappedInOrder(answer) ELSE <<>>,
                heard |-> call[d][c].heard \union new]
        /\ n = free[d] + 1
  OBVIOUS
<1>1. IsCall(k) /\ k.step = step
  BY <1>0 DEF IsCall
<1>2. call' = [call EXCEPT ![d][c] = k] /\ free' = [free EXCEPT ![d] = n]
  BY <1>0, Zenon DEF Return, SlotHeldOn
<1>3. UNCHANGED <<doc, wave>> /\ StepOf(d, c) = "calling"
  BY DEF Return, StepOf
<1>4. /\ Shaped'
      /\ free'[d] = n /\ \A e \in Docs : e # d => free'[e] = free[e]
      /\ \A e \in Docs : \A b \in ChunksOf(e) :
           call'[e][b] = IF e = d /\ b = c THEN k ELSE call[e][b]
  <2>1. Shaped BY DEF IInv
  <2>2. /\ FunctionOn(call', Docs)
        /\ \A e \in Docs : /\ FunctionOn(call'[e], ChunksOf(e))
                           /\ \A b \in ChunksOf(e) :
                                call'[e][b] = IF e = d /\ b = c THEN k ELSE call[e][b]
    BY <1>2, <2>1 DEF Shaped, FunctionOn
  <2>3. FunctionOn(free', Docs) /\ free'[d] = n /\ \A e \in Docs : e # d => free'[e] = free[e]
    BY <1>2, <2>1 DEF Shaped, FunctionOn
  <2>4. \A e \in Docs : \A b \in ChunksOf(e) : IsCall(call'[e][b])
    BY <1>1, <2>1, <2>2 DEF Shaped
  <2>5. FunctionOn(doc', Docs) /\ FunctionOn(wave', Docs)
    BY <1>3, <2>1 DEF Shaped
  <2> QED BY <2>2, <2>3, <2>4, <2>5 DEF Shaped
<1>4a. \A e \in Docs : \A b \in ChunksOf(e) :
         StepOf(e, b)' = IF e = d /\ b = c THEN step ELSE StepOf(e, b)
  BY <1>1, <1>4 DEF StepOf
<1>5. \A e \in Docs : Busy(e)' \subseteq Busy(e)
  BY <1>3, <1>4a DEF Busy
<1>6. OnlyItsWave'
  BY <1>3, <1>5 DEF IInv, OnlyItsWave, Wavefront
<1>7. \A e \in Docs : e # d => InFlight(e)' = InFlight(e)
  BY <1>4a DEF InFlight, StepOf
<1>8. InFlight(d)' = InFlight(d) \ {c} /\ c \in InFlight(d)
  BY <1>3, <1>4a DEF InFlight, StepOf
<1>9. Cardinality(InFlight(d)') = Cardinality(InFlight(d)) - 1
  BY <1>8, Finite, FS_RemoveElement
<1>10. Balanced'
  <2>1. ASSUME NEW e \in Docs
        PROVE  free'[e] \in Nat /\ free'[e] + Cardinality(InFlight(e)') = Concurrency
    <3>1. free[e] \in Nat /\ free[e] + Cardinality(InFlight(e)) = Concurrency
            /\ Cardinality(InFlight(e)) \in Nat
      BY Finite DEF IInv, Balanced
    <3>2. CASE e = d
      <4>1. free'[d] = free[d] + 1 BY <1>0, <1>4
      <4> QED BY <1>3, <1>9, <3>1, <3>2, <4>1
    <3>3. CASE e # d
      <4>1. free'[e] = free[e] BY <1>4, <3>3
      <4> QED BY <1>7, <3>1, <3>3, <4>1
    <3> QED BY <3>2, <3>3
  <2> QED BY <2>1 DEF Balanced
<1> QED BY <1>4, <1>6, <1>10 DEF IInv

(* A wavefront begins where no call is being made. *)
LEMMA LaunchKeeps ==
  ASSUME IInv, NEW d \in Docs, NEW first, NEW seen, Launch(d, first, seen), free' = free,
         Busy(d) = {}, doc' = [doc EXCEPT ![d] = "extracting"]
  PROVE  IInv'
<1>0. PICK k : k = [NoCall EXCEPT !.step = "waiting"]
  OBVIOUS
<1>1. IsCall(k) /\ k.step = "waiting"
  <2>1. PICK old : old = NoCall OBVIOUS
  <2>2. IsCall(old) BY <2>1 DEF NoCall, IsCall
  <2>3. k = [old EXCEPT !.step = "waiting"] BY <1>0, <2>1
  <2> QED BY <2>2, <2>3, StepSet
<1>2. /\ wave' = [wave EXCEPT ![d] = first]
      /\ call' = [call EXCEPT ![d] = [c \in ChunksOf(d) |->
                    IF c \in Wavefront(d, first) THEN k ELSE call[d][c]]]
  BY <1>0, Zenon DEF Launch
<1>3. /\ FunctionOn(call', Docs)
      /\ \A e \in Docs : /\ FunctionOn(call'[e], ChunksOf(e))
                         /\ \A c \in ChunksOf(e) :
                              call'[e][c] = IF e = d /\ c \in Wavefront(d, first) THEN k
                                            ELSE call[e][c]
  BY <1>2 DEF IInv, Shaped, FunctionOn
<1>4. /\ doc'[d] = "extracting" /\ wave'[d] = first
      /\ \A e \in Docs : e # d => doc'[e] = doc[e] /\ wave'[e] = wave[e]
  BY <1>2 DEF IInv, Shaped, FunctionOn
<1>5. Shaped'
  <2>1. FunctionOn(doc', Docs) /\ FunctionOn(wave', Docs) /\ FunctionOn(free', Docs)
    BY <1>2 DEF IInv, Shaped, FunctionOn
  <2>2. \A e \in Docs : \A c \in ChunksOf(e) : IsCall(call'[e][c])
    BY <1>1, <1>3 DEF IInv, Shaped
  <2> QED BY <1>3, <2>1, <2>2 DEF Shaped
<1>6. \A e \in Docs : \A c \in ChunksOf(e) :
        StepOf(e, c)' = IF e = d /\ c \in Wavefront(d, first) THEN "waiting" ELSE StepOf(e, c)
  BY <1>1, <1>3 DEF StepOf
<1>7. \A e \in Docs : e # d => Busy(e)' = Busy(e)
  BY <1>6 DEF Busy
<1>8. Busy(d)' \subseteq Wavefront(d, first)
  BY <1>6 DEF Busy
<1>9. OnlyItsWave'
  <2>1. ASSUME NEW e \in Docs
        PROVE  /\ doc'[e] # "extracting" => Busy(e)' = {}
               /\ Busy(e)' \subseteq Wavefront(e, wave'[e])
    <3>1. CASE e = d
      <4>1. doc'[e] = "extracting" /\ wave'[e] = first BY <1>4, <3>1, Zenon
      <4>2. Busy(e)' \subseteq Wavefront(d, first) BY <1>8, <3>1 DEF Busy, StepOf
      <4> QED BY <3>1, <4>1, <4>2
    <3>2. CASE e # d BY <1>4, <1>7, <3>2 DEF IInv, OnlyItsWave
    <3> QED BY <3>1, <3>2
  <2> QED BY <2>1 DEF OnlyItsWave, Wavefront
<1>10. InFlight(d) = {}
  BY InFlightIsBusy
<1>11. \A e \in Docs : InFlight(e)' = InFlight(e)
  BY <1>6, <1>10 DEF InFlight, StepOf
<1>12. Balanced'
  BY <1>11 DEF IInv, Balanced
<1> QED BY <1>5, <1>9, <1>12 DEF IInv

(* Steps that make no call and free no slot. *)
LEMMA DocEndsKeeps ==
  ASSUME IInv, NEW d \in Docs, UNCHANGED <<wave, call, free>>, Busy(d) = {},
         NEW outcome, doc' = [doc EXCEPT ![d] = outcome]
  PROVE  IInv'
<1>1. Shaped' BY DEF IInv, Shaped, FunctionOn
<1>2. \A e \in Docs : /\ Busy(e)' = Busy(e) /\ InFlight(e)' = InFlight(e)
                      /\ e # d => doc'[e] = doc[e]
  BY DEF IInv, Shaped, FunctionOn, Busy, StepOf, InFlight
<1>3. Balanced' BY <1>2 DEF IInv, Balanced
<1>4. OnlyItsWave' BY <1>2 DEF IInv, OnlyItsWave
<1> QED BY <1>1, <1>3, <1>4 DEF IInv

(* An ended wavefront is all there was. *)
LEMMA EndedIsQuiet ==
  ASSUME IInv, NEW d \in Docs, WaveEnded(d)
  PROVE  Busy(d) = {}
BY DEF IInv, OnlyItsWave, WaveEnded, Steps, Busy, StepOf

LEMMA StartDocumentKeeps ==
  ASSUME IInv, NEW d \in Docs, StartDocument(d)
  PROVE  IInv'
<1>1. doc[d] = "queued" /\ free' = free BY DEF StartDocument
<1>2. Busy(d) = {} BY <1>1 DEF IInv, OnlyItsWave
<1>3. CASE d \in BadItems
  BY <1>1, <1>2, <1>3, DocEndsKeeps DEF StartDocument
<1>4. CASE d \notin BadItems
  <2>1. doc' = [doc EXCEPT ![d] = "extracting"] /\ Launch(d, 1, carry[d])
    BY <1>4 DEF StartDocument
  <2> QED BY <1>1, <1>2, <2>1, LaunchKeeps
<1> QED BY <1>3, <1>4

LEMMA NextWaveKeeps ==
  ASSUME IInv, NEW d \in Docs, NextWave(d)
  PROVE  IInv'
<1>1. doc[d] = "extracting" /\ doc' = doc /\ free' = free /\ WaveEnded(d)
  BY DEF NextWave
<1>2. PICK seen : Launch(d, wave[d] + Concurrency, seen) BY DEF NextWave
<1>3. doc' = [doc EXCEPT ![d] = "extracting"]
  BY <1>1 DEF IInv, Shaped, FunctionOn
<1> QED BY <1>1, <1>2, <1>3, EndedIsQuiet, LaunchKeeps

LEMMA CancelKeeps ==
  ASSUME IInv, Cancel
  PROVE  IInv'
<1>1. /\ doc' = [d \in Docs |-> IF doc[d] = "recorded" THEN "recorded" ELSE "raised"]
      /\ free' = [d \in Docs |-> Concurrency] /\ wave' = wave
  BY DEF Cancel
<1>2. call' = [d \in Docs |-> [c \in ChunksOf(d) |->
                 IF call[d][c].step \in {"waiting", "calling"}
                 THEN [call[d][c] EXCEPT !.step = "broken"] ELSE call[d][c]]]
  BY DEF Cancel
<1>3. ASSUME NEW d \in Docs, NEW c \in ChunksOf(d)
      PROVE  /\ IsCall(call'[d][c])
             /\ StepOf(d, c)' \notin {"waiting", "calling"}
  <2>1. IsCall(call[d][c])
    BY DEF IInv, Shaped
  <2>2. CASE call[d][c].step \in {"waiting", "calling"}
    <3>1. call'[d][c] = [call[d][c] EXCEPT !.step = "broken"] BY <1>2, <2>2, Zenon
    <3>2. IsCall(call'[d][c]) /\ call'[d][c].step = "broken"
      <4>1. PICK old, new : old = call[d][c] /\ new = call'[d][c] OBVIOUS
      <4>2. IsCall(old) BY <2>1, <4>1
      <4>3. new = [old EXCEPT !.step = "broken"] BY <3>1, <4>1, Zenon
      <4> QED BY <4>1, <4>2, <4>3, StepSet
    <3> QED BY <3>2 DEF StepOf
  <2>3. CASE call[d][c].step \notin {"waiting", "calling"}
    <3>1. call'[d][c] = call[d][c] BY <1>2, <2>3, Zenon
    <3> QED BY <2>1, <2>3, <3>1 DEF StepOf
  <2> QED BY <2>2, <2>3
<1>4. FunctionOn(call', Docs) /\ \A d \in Docs : FunctionOn(call'[d], ChunksOf(d))
  BY <1>2, Zenon DEF FunctionOn
<1>5. FunctionOn(wave', Docs) /\ FunctionOn(doc', Docs) /\ FunctionOn(free', Docs)
  BY <1>1 DEF IInv, Shaped, FunctionOn
<1>6. Shaped'
  BY <1>3, <1>4, <1>5 DEF Shaped
<1>7. \A d \in Docs : Busy(d)' = {}
  BY <1>3 DEF Busy
<1>8. \A d \in Docs : InFlight(d)' = {}
  BY <1>3 DEF InFlight, StepOf
<1>9. Balanced'
  <2>1. \A d \in Docs : Cardinality(InFlight(d)') = 0 /\ free'[d] = Concurrency
    BY <1>1, <1>8, FS_EmptySet
  <2> QED BY <2>1, ParametersAssumption DEF Balanced
<1>10. OnlyItsWave'
  BY <1>7 DEF OnlyItsWave
<1> QED BY <1>6, <1>9, <1>10 DEF IInv

LEMMA StepKeeps == IInv /\ [Next]_vars => IInv'
<1> SUFFICES ASSUME IInv, [Next]_vars PROVE IInv'
  OBVIOUS
<1>1. ASSUME NEW d \in Docs, NEW c \in ChunksOf(d), Acquire(d, c) PROVE IInv'
  BY <1>1, AcquireKeeps
<1>2. ASSUME NEW d \in Docs, NEW c \in ChunksOf(d), ProviderFails(d, c) PROVE IInv'
  BY <1>2, ReturnKeeps DEF ProviderFails
<1>3. ASSUME NEW d \in Docs, NEW c \in ChunksOf(d), Breaks(d, c) PROVE IInv'
  BY <1>3, ReturnKeeps DEF Breaks
<1>4. ASSUME NEW d \in Docs, NEW c \in ChunksOf(d), Answer(d, c) PROVE IInv'
  <2>1. PICK a \in Answers(d, c), more \in BOOLEAN :
          Return(d, c, IF more THEN "waiting" ELSE "answered",
                 Accumulated(call[d][c].answer, a), Range(a.entities))
    BY <1>4 DEF Answer
  <2> QED BY <2>1, ReturnKeeps
<1>5. ASSUME NEW d \in Docs, StartDocument(d) PROVE IInv' BY <1>5, StartDocumentKeeps
<1>6. ASSUME NEW d \in Docs, RaiseChunkError(d) PROVE IInv'
  BY <1>6, EndedIsQuiet, DocEndsKeeps DEF RaiseChunkError
<1>7. ASSUME NEW d \in Docs, Record(d) PROVE IInv'
  BY <1>7, EndedIsQuiet, DocEndsKeeps DEF Record
<1>8. ASSUME NEW d \in Docs, NextWave(d) PROVE IInv' BY <1>8, NextWaveKeeps
<1>9. CASE Cancel BY <1>9, CancelKeeps
<1>10. CASE EndBatch \/ UNCHANGED vars
  <2>1. UNCHANGED <<doc, wave, call, free>> BY <1>10 DEF EndBatch, vars
  <2> QED BY <2>1 DEF IInv, Shaped, Balanced, OnlyItsWave, Busy, StepOf, InFlight
<1> QED BY <1>1, <1>2, <1>3, <1>4, <1>5, <1>6, <1>7, <1>8, <1>9, <1>10 DEF Next, Step

(* A document that has ended has no call in flight and all its slots back,
   whatever failed, was gleaned again or was cancelled on the way. *)
THEOREM LeavesNothingBehind == Spec => []NothingLeftBehind
BY InitHolds, StepKeeps, InvariantGives, PTL DEF Spec

(***************************************************************************)
(* What a prompt lists                                                     *)
(***************************************************************************)

(* known is what Remember makes of the first n results. *)
Remembers(known, seen, results, n) ==
  known = [k \in 0..n |-> IF k = 0 THEN seen ELSE RememberAll(known[k - 1], results[k])]

LEMMA RemembersExists ==
  ASSUME NEW seen, NEW results, NEW n \in Nat
  PROVE  \E known : Remembers(known, seen, results, n)
<1> DEFINE P == {m \in Nat : \E known : Remembers(known, seen, results, m)}
<1>1. 0 \in P
  <2>1. Remembers([k \in 0..0 |-> seen], seen, results, 0) BY DEF Remembers
  <2> QED BY <2>1
<1>2. ASSUME NEW m \in P PROVE m + 1 \in P
  <2>1. PICK f : Remembers(f, seen, results, m) BY <1>2
  <2>2. PICK g : g = [k \in 0..(m + 1) |-> IF k <= m THEN f[k] ELSE RememberAll(f[m], results[k])]
    OBVIOUS
  <2>3. ASSUME NEW k \in 0..(m + 1)
        PROVE  g[k] = IF k = 0 THEN seen ELSE RememberAll(g[k - 1], results[k])
    <3>1. CASE k = 0
      <4>1. g[k] = f[0] /\ 0 \in 0..m BY <2>2, <3>1
      <4>2. f[0] = seen BY <2>1, <4>1 DEF Remembers
      <4> QED BY <3>1, <4>1, <4>2
    <3>2. CASE k \in 1..m
      <4>1. g[k] = f[k] /\ g[k - 1] = f[k - 1] /\ k \in 0..m /\ k # 0 BY <2>2, <3>2
      <4>2. f[k] = RememberAll(f[k - 1], results[k]) BY <2>1, <4>1 DEF Remembers
      <4> QED BY <4>1, <4>2
    <3>3. CASE k = m + 1
      <4>1. g[k] = RememberAll(f[m], results[k]) /\ g[k - 1] = f[m] /\ k # 0
        <5>1. ~ (k <= m) /\ k - 1 = m /\ m \in 0..(m + 1) /\ m <= m BY <3>3
        <5> QED BY <2>2, <3>3, <5>1
      <4> QED BY <4>1
    <3> QED BY <3>1, <3>2, <3>3
  <2>4. g = [k \in 0..(m + 1) |-> IF k = 0 THEN seen ELSE RememberAll(g[k - 1], results[k])]
    BY <2>2, <2>3
  <2>5. Remembers(g, seen, results, m + 1) BY <2>4 DEF Remembers
  <2> QED BY <2>5
<1>3. P \in SUBSET Nat OBVIOUS
<1> HIDE DEF P
<1>4. P = Nat BY <1>1, <1>2, <1>3, Inductive
<1> QED BY <1>4 DEF P

(* It does not look at later results. *)
LEMMA RemembersSame ==
  ASSUME NEW seen, NEW n \in Nat, NEW m \in Nat, m <= n, NEW r, NEW s,
         \A k \in 1..m : r[k] = s[k],
         NEW f, Remembers(f, seen, r, n), NEW g, Remembers(g, seen, s, m)
  PROVE  f[m] = g[m]
<1> DEFINE P == {i \in Nat : i <= m => f[i] = g[i]}
<1>0. /\ \A k \in 0..n : f[k] = IF k = 0 THEN seen ELSE RememberAll(f[k - 1], r[k])
      /\ \A k \in 0..m : g[k] = IF k = 0 THEN seen ELSE RememberAll(g[k - 1], s[k])
  BY DEF Remembers
<1>1. 0 \in P BY <1>0
<1>2. ASSUME NEW i \in P PROVE i + 1 \in P
  <2> SUFFICES ASSUME i + 1 <= m PROVE f[i + 1] = g[i + 1] OBVIOUS
  <2>1. i + 1 \in 0..n /\ i + 1 \in 0..m /\ i + 1 # 0 /\ (i + 1) - 1 = i /\ i + 1 \in 1..m /\ i <= m
    OBVIOUS
  <2>2. f[i] = g[i] BY <2>1
  <2>3. f[i + 1] = RememberAll(f[i], r[i + 1]) BY <1>0, <2>1
  <2>4. g[i + 1] = RememberAll(g[i], s[i + 1]) BY <1>0, <2>1
  <2>5. r[i + 1] = s[i + 1] BY <2>1
  <2> QED BY <2>2, <2>3, <2>4, <2>5
<1>3. P \in SUBSET Nat OBVIOUS
<1> HIDE DEF P
<1>4. P = Nat BY <1>1, <1>2, <1>3, Inductive
<1> QED BY <1>4 DEF P

LEMMA RememberIs ==
  ASSUME NEW seen, NEW results, Len(results) \in Nat,
         NEW f, Remembers(f, seen, results, Len(results))
  PROVE  Remember(seen, results) = f[Len(results)]
<1> DEFINE g == CHOOSE h : Remembers(h, seen, results, Len(results))
<1>1. Remembers(g, seen, results, Len(results)) OBVIOUS
<1>2. Remember(seen, results) = g[Len(results)] BY DEF Remember, Remembers
<1> HIDE DEF g
<1>3. g[Len(results)] = f[Len(results)] BY <1>1, RemembersSame
<1> QED BY <1>2, <1>3

(* All the results are m first ones, and then n more. *)
Follows(first, m, rest, n, all) ==
  /\ m \in Nat /\ n \in Nat /\ Len(all) = m + n /\ Len(first) = m /\ Len(rest) = n
  /\ \A k \in 1..m : first[k] = all[k]
  /\ \A k \in 1..n : rest[k] = all[m + k]

(* Remembering some results and then more is remembering them all. *)
LEMMA RememberOn ==
  ASSUME NEW seen, NEW m, NEW n, NEW all, NEW first, NEW rest, Follows(first, m, rest, n, all)
  PROVE  Remember(Remember(seen, first), rest) = Remember(seen, all)
<1> /\ m \in Nat /\ n \in Nat /\ Len(all) = m + n /\ Len(first) = m /\ Len(rest) = n
    /\ \A k \in 1..m : first[k] = all[k]
    /\ \A k \in 1..n : rest[k] = all[m + k]
  BY DEF Follows
<1>0. m + n \in Nat OBVIOUS
<1>1. PICK f : Remembers(f, seen, all, m + n) BY <1>0, RemembersExists
<1>2. PICK h : Remembers(h, seen, first, m) BY RemembersExists
<1>3. f[m] = h[m] BY <1>1, <1>2, RemembersSame
<1>4. PICK g : g = [k \in 0..n |-> f[m + k]] OBVIOUS
<1>5. Remembers(g, f[m], rest, n)
  <2>1. \A k \in 0..(m + n) : f[k] = IF k = 0 THEN seen ELSE RememberAll(f[k - 1], all[k])
    BY <1>1 DEF Remembers
  <2>2. ASSUME NEW k \in 0..n
        PROVE  g[k] = IF k = 0 THEN f[m] ELSE RememberAll(g[k - 1], rest[k])
    <3>1. CASE k = 0 BY <1>4, <3>1
    <3>2. CASE k # 0
      <4>1. m + k \in 0..(m + n) /\ m + k # 0 /\ k - 1 \in 0..n /\ m + (k - 1) = (m + k) - 1
              /\ k \in 1..n
        BY <3>2
      <4>2. g[k] = f[m + k] /\ g[k - 1] = f[(m + k) - 1] BY <1>4, <4>1
      <4>3. f[m + k] = RememberAll(f[(m + k) - 1], all[m + k]) BY <2>1, <4>1
      <4> QED BY <3>2, <4>1, <4>2, <4>3
    <3> QED BY <3>1, <3>2
  <2>3. g = [k \in 0..n |-> IF k = 0 THEN f[m] ELSE RememberAll(g[k - 1], rest[k])]
    BY <1>4, <2>2
  <2> QED BY <2>3 DEF Remembers
<1>6. Remember(seen, first) = f[m] BY <1>2, <1>3, RememberIs
<1>7. Remember(f[m], rest) = g[n] BY <1>5, RememberIs
<1>8. Remember(seen, all) = f[m + n] BY <1>1, RememberIs
<1>9. g[n] = f[m + n] BY <1>4
<1> QED BY <1>6, <1>7, <1>8, <1>9

(* The chunks of the wavefronts before chunk c's are 1 .. LastBefore(c). *)
LastBefore(c) == ((c - 1) \div Concurrency) * Concurrency

FoundBy(d, n) == [i \in 1..n |-> call[d][i].found]

Known(d, n) == Remember(<<>>, FoundBy(d, n))

LEMMA MentionedIsKnown ==
  ASSUME NEW d, NEW c, LastBefore(c) \in Nat
  PROVE  MentionedBefore(d, c) = Known(d, LastBefore(c))
<1>1. PICK n : n = LastBefore(c) OBVIOUS
<1>2. PICK order : order = [i \in 1..n |-> i] OBVIOUS
<1>3. n \in Nat /\ Len(order) = n BY <1>1, <1>2
<1>4. Results(d, order) = FoundBy(d, n) BY <1>2, <1>3 DEF Results, FoundBy
<1> QED BY <1>1, <1>2, <1>4 DEF MentionedBefore, Known, LastBefore

(* The first chunk of a wavefront. *)
Begins(first) == \E n \in Nat : first = n * Concurrency + 1

LEMMA WaveBefore ==
  ASSUME NEW first, Begins(first), NEW c \in Int, first <= c, c < first + Concurrency
  PROVE  LastBefore(c) = first - 1 /\ first - 1 \in Nat
<1>1. PICK n \in Nat : first = n * Concurrency + 1 BY DEF Begins
<1>2. PICK C : C = Concurrency OBVIOUS
<1>3. C \in Nat /\ C > 0 BY <1>2, ParametersAssumption
<1>4. n * C \in Nat BY <1>3
<1>5. PICK q : q = (c - 1) \div C OBVIOUS
<1>6. c - 1 \in Nat /\ n * C <= c - 1 /\ c - 1 < n * C + C BY <1>1, <1>2, <1>3, <1>4
<1>7. q \in Int /\ q * C <= c - 1 /\ c - 1 < q * C + C BY <1>3, <1>5, <1>6
<1>8. q = n
  <2>1. CASE q < n
    <3>1. q + 1 <= n BY <1>7, <2>1
    <3>2. (q + 1) * C <= n * C BY <1>3, <1>7, <3>1
    <3>3. (q + 1) * C = q * C + C BY <1>3, <1>7
    <3> QED BY <1>3, <1>4, <1>6, <1>7, <3>2, <3>3
  <2>2. CASE n < q
    <3>1. n + 1 <= q BY <1>7, <2>2
    <3>2. (n + 1) * C <= q * C BY <1>3, <1>7, <3>1
    <3>3. (n + 1) * C = n * C + C BY <1>3
    <3> QED BY <1>3, <1>4, <1>6, <1>7, <3>2, <3>3
  <2> QED BY <1>7, <2>1, <2>2
<1> QED BY <1>1, <1>2, <1>4, <1>5, <1>8 DEF LastBefore

LEMMA NextBegins ==
  ASSUME NEW first, Begins(first)
  PROVE  Begins(first + Concurrency) /\ first \in Nat \ {0}
<1>1. PICK n \in Nat : first = n * Concurrency + 1 BY DEF Begins
<1>2. Concurrency \in Nat BY ParametersAssumption
<1>3. n * Concurrency \in Nat BY <1>2
<1>4. (n + 1) * Concurrency = n * Concurrency + Concurrency BY <1>2
<1>5. first + Concurrency = (n + 1) * Concurrency + 1 BY <1>1, <1>2, <1>3, <1>4
<1>6. n + 1 \in Nat OBVIOUS
<1> QED BY <1>1, <1>3, <1>5, <1>6 DEF Begins

(* What a document carries is what the wavefronts before the one it is at
   found, in chunk order, and so is what every prompt was made from. *)
Carried ==
  \A d \in Docs :
    /\ Begins(wave[d]) /\ wave[d] - 1 <= Len(Texts[d])
    /\ carry[d] = Known(d, wave[d] - 1)

Prompted ==
  \A d \in Docs : \A c \in ChunksOf(d) : StepOf(d, c) # "idle" =>
    /\ LastBefore(c) \in Nat /\ LastBefore(c) < wave[d]
    /\ prompt[d][c] = Mentions(Known(d, LastBefore(c)))

PromptShapes ==
  /\ FunctionOn(carry, Docs) /\ FunctionOn(prompt, Docs)
  /\ \A d \in Docs : FunctionOn(prompt[d], ChunksOf(d))

PromptInv == PromptShapes /\ Carried /\ Prompted

LEMMA PromptInvGives == PromptInv => PromptsIgnoreTiming
BY MentionedIsKnown DEF PromptInv, Prompted, PromptsIgnoreTiming, StepOf

(* Queued documents are at their first chunk. *)
AtTheStart == \A d \in Docs : doc[d] = "queued" => wave[d] = 1

LEMMA PromptInit == Init => PromptInv /\ AtTheStart
<1> SUFFICES ASSUME Init PROVE PromptInv /\ AtTheStart OBVIOUS
<1>1. \A d \in Docs : wave[d] = 1 /\ carry[d] = <<>> BY DEF Init
<1>2. Begins(1)
  <2>1. 1 = 0 * Concurrency + 1 BY ParametersAssumption
  <2> QED BY <2>1 DEF Begins
<1>3. \A d \in Docs : Known(d, 0) = <<>>
  <2> SUFFICES ASSUME NEW d \in Docs PROVE Known(d, 0) = <<>> OBVIOUS
  <2>1. PICK r : r = FoundBy(d, 0) OBVIOUS
  <2>2. Len(r) = 0 BY <2>1 DEF FoundBy
  <2>3. PICK f : Remembers(f, <<>>, r, 0) BY RemembersExists
  <2>4. f[0] = <<>> BY <2>3 DEF Remembers
  <2>5. Remember(<<>>, r) = f[Len(r)] BY <2>2, <2>3, RememberIs
  <2> QED BY <2>1, <2>2, <2>4, <2>5 DEF Known
<1>4. Carried
  <2>1. \A d \in Docs : wave[d] - 1 = 0 /\ Len(Texts[d]) \in Nat BY <1>1, ChunksAssumption
  <2> QED BY <1>1, <1>2, <1>3, <2>1 DEF Carried
<1>5. Prompted
  <2>1. \A d \in Docs : \A c \in ChunksOf(d) : StepOf(d, c) = "idle"
    BY DEF Init, NoCall, StepOf
  <2> QED BY <2>1 DEF Prompted
<1>6. PromptShapes BY DEF Init, PromptShapes, FunctionOn
<1> QED BY <1>1, <1>4, <1>5, <1>6 DEF PromptInv, AtTheStart

LEMMA KnownSame ==
  ASSUME NEW d \in Docs, NEW n \in Nat,
         \A c \in 1..n : call'[d][c].found = call[d][c].found
  PROVE  Known(d, n)' = Known(d, n)
<1>1. FoundBy(d, n)' = FoundBy(d, n) BY DEF FoundBy
<1> QED BY <1>1 DEF Known

LEMMA WaveFacts ==
  ASSUME PromptInv
  PROVE  \A d \in Docs : /\ wave[d] \in Nat \ {0} /\ wave[d] - 1 \in Nat
                         /\ wave[d] - 1 <= Len(Texts[d])
                         /\ ChunksOf(d) = 1..Len(Texts[d]) /\ Len(Texts[d]) \in Nat
<1> SUFFICES ASSUME NEW d \in Docs
             PROVE  /\ wave[d] \in Nat \ {0} /\ wave[d] - 1 \in Nat
                    /\ wave[d] - 1 <= Len(Texts[d])
                    /\ ChunksOf(d) = 1..Len(Texts[d]) /\ Len(Texts[d]) \in Nat
  OBVIOUS
<1>1. Begins(wave[d]) /\ wave[d] - 1 <= Len(Texts[d]) BY DEF PromptInv, Carried
<1>2. wave[d] \in Nat \ {0} BY <1>1, NextBegins
<1>3. ChunksOf(d) = 1..Len(Texts[d]) /\ Len(Texts[d]) \in Nat BY ChunksAssumption
<1> QED BY <1>1, <1>2, <1>3

(* Chunks before the wavefront a document is at have been answered for good. *)
LEMMA QuietPrompts ==
  ASSUME PromptInv, UNCHANGED <<wave, carry, prompt>>,
         \A d \in Docs : \A c \in ChunksOf(d) :
           /\ StepOf(d, c)' # "idle" => StepOf(d, c) # "idle"
           /\ c < wave[d] => call'[d][c].found = call[d][c].found
  PROVE  PromptInv'
<1>1. \A d \in Docs : wave[d] \in Nat \ {0} /\ wave[d] - 1 \in Nat
        /\ wave[d] - 1 <= Len(Texts[d]) /\ ChunksOf(d) = 1..Len(Texts[d]) /\ Len(Texts[d]) \in Nat
  BY WaveFacts
<1>2. ASSUME NEW d \in Docs, NEW n \in Nat, n < wave[d] PROVE Known(d, n)' = Known(d, n)
  <2>1. \A c \in 1..n : c \in ChunksOf(d) /\ c < wave[d] BY <1>1, <1>2
  <2> QED BY <2>1, KnownSame
<1>3. Carried'
  <2>1. \A d \in Docs : wave[d] - 1 < wave[d] BY <1>1
  <2>2. \A d \in Docs : Known(d, wave[d] - 1)' = Known(d, wave[d] - 1)
    BY <1>1, <1>2, <2>1
  <2> QED BY <2>2 DEF PromptInv, Carried, Known, FoundBy
<1>4. Prompted'
  <2> SUFFICES ASSUME NEW d \in Docs, NEW c \in ChunksOf(d), StepOf(d, c)' # "idle"
               PROVE  /\ LastBefore(c) \in Nat /\ LastBefore(c) < wave'[d]
                      /\ prompt'[d][c] = Mentions(Known(d, LastBefore(c))')
    BY DEF Prompted, Known, FoundBy
  <2>1. /\ LastBefore(c) \in Nat /\ LastBefore(c) < wave[d]
        /\ prompt[d][c] = Mentions(Known(d, LastBefore(c)))
    BY DEF PromptInv, Prompted
  <2>2. Known(d, LastBefore(c))' = Known(d, LastBefore(c)) BY <1>2, <2>1
  <2> QED BY <2>1, <2>2
<1>5. PromptShapes' BY DEF PromptInv, PromptShapes, FunctionOn
<1> QED BY <1>3, <1>4, <1>5 DEF PromptInv

(* A wavefront is told what all before it found. *)
LEMMA LaunchPrompts ==
  ASSUME Shaped, PromptInv, NEW d \in Docs, NEW first, NEW seen, Launch(d, first, seen),
         Begins(first), wave[d] <= first, first - 1 <= Len(Texts[d]),
         seen = Known(d, first - 1), carry' = [carry EXCEPT ![d] = seen]
  PROVE  PromptInv'
<1>0. PICK k : k = [NoCall EXCEPT !.step = "waiting"]
  OBVIOUS
<1>1. /\ wave' = [wave EXCEPT ![d] = first]
      /\ call' = [call EXCEPT ![d] = [c \in ChunksOf(d) |->
                    IF c \in Wavefront(d, first) THEN k ELSE call[d][c]]]
      /\ prompt' = [prompt EXCEPT ![d] = [c \in ChunksOf(d) |->
                      IF c \in Wavefront(d, first) THEN Mentions(seen) ELSE prompt[d][c]]]
  BY <1>0, Zenon DEF Launch
<1>2. /\ wave'[d] = first /\ carry'[d] = seen
      /\ \A e \in Docs : e # d =>
           wave'[e] = wave[e] /\ carry'[e] = carry[e] /\ prompt'[e] = prompt[e] /\ call'[e] = call[e]
      /\ \A c \in ChunksOf(d) :
           IF c \in Wavefront(d, first)
           THEN prompt'[d][c] = Mentions(seen)
           ELSE call'[d][c] = call[d][c] /\ prompt'[d][c] = prompt[d][c]
  BY <1>1 DEF Shaped, PromptInv, PromptShapes, FunctionOn
<1>3. \A e \in Docs : wave[e] \in Nat \ {0} /\ wave[e] - 1 \in Nat
        /\ wave[e] - 1 <= Len(Texts[e]) /\ ChunksOf(e) = 1..Len(Texts[e]) /\ Len(Texts[e]) \in Nat
  BY WaveFacts
<1>4. first \in Nat \ {0} BY NextBegins
<1>5. ASSUME NEW e \in Docs, NEW n \in Nat, n < wave'[e] PROVE Known(e, n)' = Known(e, n)
  <2>1. CASE e # d
    <3>1. \A c \in 1..n : call'[e][c].found = call[e][c].found BY <1>2, <2>1
    <3> QED BY <3>1, KnownSame
  <2>2. CASE e = d
    <3>1. n < first BY <1>2, <1>5, <2>2
    <3>2. \A c \in 1..n : c \in ChunksOf(d) /\ c \notin Wavefront(d, first)
      BY <1>3, <1>4, <3>1 DEF Wavefront
    <3>3. \A c \in 1..n : call'[e][c].found = call[e][c].found BY <1>2, <2>2, <3>2
    <3> QED BY <3>3, KnownSame
  <2> QED BY <2>1, <2>2
<1>6. Carried'
  <2> SUFFICES ASSUME NEW e \in Docs, NEW n, n = wave'[e] - 1
               PROVE  /\ Begins(wave'[e]) /\ n <= Len(Texts[e])
                      /\ carry'[e] = Known(e, n)'
    BY DEF Carried, Known, FoundBy
  <2>1. CASE e = d
    <3>1. n = first - 1 /\ n \in Nat /\ n < wave'[e] BY <1>2, <1>4, <2>1
    <3>2. Known(e, n)' = Known(e, n) BY <1>5, <3>1
    <3>3. wave'[e] = first /\ carry'[e] = seen /\ seen = Known(e, n) BY <1>2, <2>1, <3>1
    <3> QED BY <2>1, <3>1, <3>2, <3>3
  <2>2. CASE e # d
    <3>1. wave'[e] = wave[e] /\ carry'[e] = carry[e] BY <1>2, <2>2
    <3>2. n = wave[e] - 1 /\ n \in Nat /\ n < wave'[e] BY <1>3, <3>1
    <3>3. Known(e, n)' = Known(e, n) BY <1>5, <3>2
    <3> QED BY <3>1, <3>2, <3>3 DEF PromptInv, Carried
  <2> QED BY <2>1, <2>2
<1>7. Prompted'
  <2> SUFFICES ASSUME NEW e \in Docs, NEW c \in ChunksOf(e), StepOf(e, c)' # "idle"
               PROVE  /\ LastBefore(c) \in Nat /\ LastBefore(c) < wave'[e]
                      /\ prompt'[e][c] = Mentions(Known(e, LastBefore(c))')
    BY DEF Prompted, Known, FoundBy
  <2>1. CASE e = d /\ c \in Wavefront(d, first)
    <3>1. c \in Int /\ first <= c /\ c < first + Concurrency BY <1>3, <2>1 DEF Wavefront
    <3>2. LastBefore(c) = first - 1 /\ first - 1 \in Nat BY <3>1, WaveBefore
    <3>3. wave'[e] = first /\ prompt'[e][c] = Mentions(seen) BY <1>2, <2>1
    <3>4. LastBefore(c) < wave'[e] BY <1>4, <3>2, <3>3
    <3>5. Known(e, LastBefore(c))' = Known(e, LastBefore(c)) BY <1>5, <3>2, <3>4
    <3>6. seen = Known(e, LastBefore(c)) BY <2>1, <3>2
    <3> QED BY <3>2, <3>3, <3>4, <3>5, <3>6
  <2>2. CASE ~ (e = d /\ c \in Wavefront(d, first))
    <3>1. call'[e][c] = call[e][c] /\ prompt'[e][c] = prompt[e][c] BY <1>2, <2>2
    <3>2. StepOf(e, c) # "idle" BY <3>1 DEF StepOf
    <3>3. /\ LastBefore(c) \in Nat /\ LastBefore(c) < wave[e]
          /\ prompt[e][c] = Mentions(Known(e, LastBefore(c)))
      BY <3>2 DEF PromptInv, Prompted
    <3>4. wave[e] <= wave'[e] /\ wave'[e] \in Nat
      <4>1. CASE e = d BY <1>2, <1>4, <4>1
      <4>2. CASE e # d BY <1>2, <1>3, <4>2
      <4> QED BY <4>1, <4>2
    <3>5. LastBefore(c) < wave'[e] BY <1>3, <3>3, <3>4
    <3>6. Known(e, LastBefore(c))' = Known(e, LastBefore(c)) BY <1>5, <3>3, <3>5
    <3> QED BY <3>1, <3>3, <3>5, <3>6
  <2> QED BY <2>1, <2>2
<1>8. PromptShapes'
  <2>1. FunctionOn(carry', Docs) BY DEF PromptInv, PromptShapes, FunctionOn
  <2>2. FunctionOn(prompt', Docs) /\ \A e \in Docs : FunctionOn(prompt'[e], ChunksOf(e))
    BY <1>1 DEF PromptInv, PromptShapes, FunctionOn
  <2> QED BY <2>1, <2>2 DEF PromptShapes
<1> QED BY <1>6, <1>7, <1>8 DEF PromptInv

(* The results of a whole wavefront come after those of all before it. *)
LEMMA WaveRemembered ==
  ASSUME PromptInv, NEW d \in Docs, wave[d] + Concurrency \in ChunksOf(d)
  PROVE  Remember(carry[d], Results(d, InChunkOrder(d))) = Known(d, wave[d] + Concurrency - 1)
<1>1. /\ Begins(wave[d]) /\ carry[d] = Known(d, wave[d] - 1)
      /\ wave[d] \in Nat \ {0} /\ Concurrency \in Nat \ {0}
  BY NextBegins, ParametersAssumption DEF PromptInv, Carried
<1>2. ChunksOf(d) = 1..Len(Texts[d]) /\ Len(Texts[d]) \in Nat BY ChunksAssumption
<1>3. PICK w, C : w = wave[d] /\ C = Concurrency OBVIOUS
<1>4. Wavefront(d, w) = w..(w + C - 1)
  BY <1>1, <1>2, <1>3 DEF Wavefront
<1>5. Cardinality(Wavefront(d, w)) = C
  <2>1. w \in Int /\ w + C - 1 \in Int /\ ~ (w > w + C - 1) /\ (w + C - 1) - w + 1 = C
    BY <1>1, <1>3
  <2> QED BY <1>4, <2>1, FS_Interval
<1>6. InChunkOrder(d) = [i \in 1..C |-> w + i - 1] BY <1>3, <1>5 DEF InChunkOrder
<1>7. PICK rest : rest = Results(d, InChunkOrder(d)) OBVIOUS
<1>8. Len(InChunkOrder(d)) = C BY <1>1, <1>3, <1>6
<1>9. rest = [i \in 1..C |-> call[d][w + i - 1].found]
  BY <1>6, <1>7, <1>8 DEF Results
<1>10. PICK first, all : first = FoundBy(d, w - 1) /\ all = FoundBy(d, w + C - 1) OBVIOUS
<1>11. w - 1 \in Nat /\ C \in Nat /\ w + C - 1 = (w - 1) + C /\ w + C - 1 \in Nat BY <1>1, <1>3
<1>12. Len(all) = (w - 1) + C /\ Len(first) = w - 1 /\ Len(rest) = C
  BY <1>9, <1>10, <1>11 DEF FoundBy
<1>13. \A k \in 1..(w - 1) : first[k] = all[k] BY <1>10, <1>11 DEF FoundBy
<1>14. ASSUME NEW k \in 1..C PROVE rest[k] = all[(w - 1) + k]
  <2>1. (w - 1) + k \in 1..(w + C - 1) /\ w + k - 1 = (w - 1) + k BY <1>1, <1>3
  <2> QED BY <1>9, <1>10, <2>1 DEF FoundBy
<1>15. Remember(Remember(<<>>, first), rest) = Remember(<<>>, all)
  <2>1. PICK m \in Nat : m = w - 1 BY <1>11
  <2>2. C \in Nat /\ Len(all) = m + C /\ Len(first) = m /\ Len(rest) = C BY <1>11, <1>12, <2>1
  <2>3. \A k \in 1..m : first[k] = all[k] BY <1>13, <2>1
  <2>4. \A k \in 1..C : rest[k] = all[m + k] BY <1>14, <2>1
  <2>5. Follows(first, m, rest, C, all) BY <2>1, <2>2, <2>3, <2>4 DEF Follows
  <2> QED BY <2>5, RememberOn
<1> QED BY <1>1, <1>3, <1>7, <1>10, <1>15 DEF Known

(* Nothing was heard about a chunk. *)
Kept(k, n) ==
  /\ n.answer = k.answer /\ n.found = k.found /\ n.heard = k.heard
  /\ n.step = "idle" => k.step = "idle"
  /\ k.step = "idle" => n.step = "idle"
  /\ n.step = "answered" => k.step = "answered"

LEMMA AcquireKept ==
  ASSUME Shaped, NEW d \in Docs, NEW c \in ChunksOf(d), Acquire(d, c)
  PROVE  \A e \in Docs : \A b \in ChunksOf(e) : Kept(call[e][b], call'[e][b])
<1>1. PICK old, new : old = call[d][c] /\ new = [old EXCEPT !.step = "calling"] OBVIOUS
<1>2. IsCall(old) BY <1>1 DEF Shaped
<1>3. Kept(old, new)
  <2>1. new.step = "calling" /\ new.answer = old.answer /\ new.found = old.found
          /\ new.heard = old.heard
    BY <1>1, <1>2, StepSet
  <2>2. old.step = "waiting" BY <1>1 DEF Acquire
  <2> QED BY <2>1, <2>2 DEF Kept
<1>4. call' = [call EXCEPT ![d][c] = new]
  BY <1>1, Zenon DEF Acquire
<1>5. \A e \in Docs : \A b \in ChunksOf(e) : call'[e][b] = IF e = d /\ b = c THEN new ELSE call[e][b]
  BY <1>4 DEF Shaped, FunctionOn
<1> SUFFICES ASSUME NEW e \in Docs, NEW b \in ChunksOf(e) PROVE Kept(call[e][b], call'[e][b])
  OBVIOUS
<1>6. CASE e = d /\ b = c BY <1>1, <1>3, <1>5, <1>6
<1>7. CASE ~ (e = d /\ b = c)
  <2>1. call'[e][b] = call[e][b] BY <1>5, <1>7
  <2> QED BY <2>1, Zenon DEF Kept
<1> QED BY <1>6, <1>7

LEMMA CancelKept ==
  ASSUME Shaped, Cancel
  PROVE  \A e \in Docs : \A b \in ChunksOf(e) : Kept(call[e][b], call'[e][b])
<1> SUFFICES ASSUME NEW e \in Docs, NEW b \in ChunksOf(e) PROVE Kept(call[e][b], call'[e][b])
  OBVIOUS
<1>1. PICK old, new : old = call[e][b] /\ new = call'[e][b] OBVIOUS
<1>2. IsCall(old) BY <1>1 DEF Shaped
<1>3. new = IF old.step \in {"waiting", "calling"} THEN [old EXCEPT !.step = "broken"] ELSE old
  BY <1>1, Zenon DEF Cancel
<1>4. CASE old.step \in {"waiting", "calling"}
  <2>1. new = [old EXCEPT !.step = "broken"] BY <1>3, <1>4
  <2>2. new.step = "broken" /\ new.answer = old.answer /\ new.found = old.found
          /\ new.heard = old.heard
    BY <1>2, <2>1, StepSet
  <2>3. Kept(old, new) BY <1>4, <2>2 DEF Kept
  <2> QED BY <1>1, <2>3
<1>5. CASE old.step \notin {"waiting", "calling"}
  <2>1. new = old BY <1>3, <1>5
  <2>2. Kept(old, new) BY <2>1, Zenon DEF Kept
  <2> QED BY <1>1, <2>2
<1> QED BY <1>4, <1>5

(* Of the calls only chunk c's changed. *)
OnlyCall(d, c) ==
  \A e \in Docs : \A b \in ChunksOf(e) : e # d \/ b # c => call'[e][b] = call[e][b]

LEMMA ReturnEffect ==
  ASSUME Shaped, NEW d \in Docs, NEW c \in ChunksOf(d), NEW answer, NEW new, NEW step,
         Return(d, c, step, answer, new)
  PROVE  /\ StepOf(d, c) = "calling"
         /\ call'[d][c] = [step |-> step, asked |-> call[d][c].asked + 1, answer |-> answer,
                           found |-> IF step = "answered" THEN MappedInOrder(answer) ELSE <<>>,
                           heard |-> call[d][c].heard \union new]
         /\ OnlyCall(d, c)
<1>1. PICK k :
        k = [step |-> step, asked |-> call[d][c].asked + 1, answer |-> answer,
             found |-> IF step = "answered" THEN MappedInOrder(answer) ELSE <<>>,
             heard |-> call[d][c].heard \union new]
  OBVIOUS
<1>2. call' = [call EXCEPT ![d][c] = k]
  BY <1>1, Zenon DEF Return
<1>3. \A e \in Docs : \A b \in ChunksOf(e) : call'[e][b] = IF e = d /\ b = c THEN k ELSE call[e][b]
  BY <1>2 DEF Shaped, FunctionOn
<1>4. call'[d][c] = k BY <1>3
<1>5. StepOf(d, c) = "calling" BY DEF Return, StepOf
<1>6. OnlyCall(d, c) BY <1>3 DEF OnlyCall
<1> QED BY <1>1, <1>4, <1>5, <1>6

(* The steps of PromptInv. *)
LEMMA KeptPrompts ==
  ASSUME PromptInv, UNCHANGED <<wave, carry, prompt>>,
         \A e \in Docs : \A b \in ChunksOf(e) : Kept(call[e][b], call'[e][b])
  PROVE  PromptInv'
<1>1. \A e \in Docs : \A b \in ChunksOf(e) :
        /\ StepOf(e, b)' # "idle" => StepOf(e, b) # "idle"
        /\ b < wave[e] => call'[e][b].found = call[e][b].found
  BY DEF Kept, StepOf
<1> QED BY <1>1, QuietPrompts

LEMMA ReturnPrompts ==
  ASSUME IInv, PromptInv, NEW d \in Docs, NEW c \in ChunksOf(d), NEW answer, NEW new, NEW step,
         Return(d, c, step, answer, new)
  PROVE  PromptInv'
<1>1. StepOf(d, c) = "calling" BY ReturnEffect DEF IInv
<1>2. c \in Wavefront(d, wave[d]) BY <1>1 DEF IInv, OnlyItsWave, Busy
<1>3. wave[d] <= c /\ wave[d] \in Nat /\ c \in Int
  BY <1>2, WaveFacts DEF Wavefront
<1>4. OnlyCall(d, c) BY ReturnEffect DEF IInv
<1>5. ASSUME NEW e \in Docs, NEW b \in ChunksOf(e)
      PROVE  /\ StepOf(e, b)' # "idle" => StepOf(e, b) # "idle"
             /\ b < wave[e] => call'[e][b].found = call[e][b].found
  <2>1. CASE e = d /\ b = c BY <1>1, <1>3, <2>1
  <2>2. CASE ~ (e = d /\ b = c) BY <1>4, <2>2 DEF StepOf, OnlyCall
  <2> QED BY <2>1, <2>2
<1>6. UNCHANGED <<wave, carry, prompt>> BY DEF Return
<1> QED BY <1>5, <1>6, QuietPrompts

LEMMA StartPrompts ==
  ASSUME IInv, PromptInv, AtTheStart, NEW d \in Docs, StartDocument(d)
  PROVE  PromptInv' /\ AtTheStart'
<1>1. doc[d] = "queued" /\ carry' = carry /\ wave[d] = 1 BY DEF StartDocument, AtTheStart
<1>2. CASE d \in BadItems
  <2>1. UNCHANGED <<wave, call, carry, prompt>> /\ doc' = [doc EXCEPT ![d] = "raised"]
    BY <1>2 DEF StartDocument
  <2>2. \A e \in Docs : \A b \in ChunksOf(e) : Kept(call[e][b], call'[e][b])
    BY <2>1, Zenon DEF Kept
  <2>3. AtTheStart' BY <2>1 DEF AtTheStart, IInv, Shaped, FunctionOn
  <2> QED BY <2>1, <2>2, <2>3, KeptPrompts
<1>3. CASE d \notin BadItems
  <2>1. Launch(d, 1, carry[d]) /\ doc' = [doc EXCEPT ![d] = "extracting"]
    BY <1>3 DEF StartDocument
  <2>2. PICK seen, first : seen = carry[d] /\ first = 1 OBVIOUS
  <2>3. seen = Known(d, first - 1) /\ Begins(first)
    BY <1>1, <2>2 DEF PromptInv, Carried
  <2>4. carry' = [carry EXCEPT ![d] = seen]
    BY <1>1, <2>2 DEF PromptInv, PromptShapes, FunctionOn
  <2>5. first - 1 <= Len(Texts[d]) /\ wave[d] <= first BY <1>1, <2>2, WaveFacts
  <2>6. Launch(d, first, seen) BY <2>1, <2>2
  <2>6a. PromptInv' BY <2>3, <2>4, <2>5, <2>6, LaunchPrompts DEF IInv
  <2>7. AtTheStart'
    <3>1. wave' = [wave EXCEPT ![d] = 1] BY <2>1 DEF Launch
    <3> QED BY <2>1, <3>1 DEF AtTheStart, IInv, Shaped, FunctionOn
  <2> QED BY <2>6a, <2>7
<1> QED BY <1>2, <1>3

LEMMA NextWavePrompts ==
  ASSUME IInv, PromptInv, AtTheStart, NEW d \in Docs, NextWave(d)
  PROVE  PromptInv' /\ AtTheStart'
<1>1. PICK seen : /\ seen = Remember(carry[d], Results(d, InChunkOrder(d)))
                  /\ carry' = [carry EXCEPT ![d] = seen]
                  /\ Launch(d, wave[d] + Concurrency, seen)
  BY DEF NextWave
<1>2. doc[d] = "extracting" /\ doc' = doc /\ wave[d] + Concurrency \in ChunksOf(d)
  BY DEF NextWave
<1>3. PICK first : first = wave[d] + Concurrency OBVIOUS
<1>4. seen = Known(d, first - 1)
  <2>1. Remember(carry[d], Results(d, InChunkOrder(d))) = Known(d, wave[d] + Concurrency - 1)
    BY <1>2, WaveRemembered
  <2>2. wave[d] + Concurrency - 1 = first - 1 BY <1>3, WaveFacts, ParametersAssumption
  <2> QED BY <1>1, <2>1, <2>2
<1>5. Begins(first) BY <1>3, NextBegins DEF PromptInv, Carried
<1>6. wave[d] <= first /\ first - 1 <= Len(Texts[d])
  BY <1>2, <1>3, WaveFacts, ParametersAssumption
<1>7. PromptInv' BY <1>1, <1>3, <1>4, <1>5, <1>6, LaunchPrompts DEF IInv
<1>8. AtTheStart'
  <2>1. wave' = [wave EXCEPT ![d] = first] BY <1>1, <1>3 DEF Launch
  <2> QED BY <1>2, <2>1 DEF AtTheStart, IInv, Shaped, FunctionOn
<1> QED BY <1>7, <1>8

LEMMA PromptStep == IInv /\ PromptInv /\ AtTheStart /\ [Next]_vars => PromptInv' /\ AtTheStart'
<1> SUFFICES ASSUME IInv, PromptInv, AtTheStart, [Next]_vars PROVE PromptInv' /\ AtTheStart'
  OBVIOUS
<1>0. Shaped BY DEF IInv
<1>1. ASSUME UNCHANGED <<doc, wave>> PROVE AtTheStart' BY <1>1 DEF AtTheStart
<1>2. ASSUME UNCHANGED call
      PROVE  \A e \in Docs : \A b \in ChunksOf(e) : Kept(call[e][b], call'[e][b])
  BY <1>2, Zenon DEF Kept
<1>3. ASSUME NEW d \in Docs, NEW c \in ChunksOf(d), Acquire(d, c) PROVE PromptInv' /\ AtTheStart'
  <2>1. UNCHANGED <<doc, wave, carry, prompt>> BY <1>3 DEF Acquire
  <2> QED BY <1>0, <1>1, <1>3, <2>1, AcquireKept, KeptPrompts
<1>4. ASSUME NEW d \in Docs, NEW c \in ChunksOf(d), NEW step, NEW answer, NEW new,
             Return(d, c, step, answer, new)
      PROVE  PromptInv' /\ AtTheStart'
  <2>1. UNCHANGED <<doc, wave>> BY <1>4 DEF Return
  <2> QED BY <1>1, <1>4, <2>1, ReturnPrompts
<1>5. ASSUME NEW d \in Docs, NEW c \in ChunksOf(d),
             ProviderFails(d, c) \/ Breaks(d, c) \/ Answer(d, c)
      PROVE  PromptInv' /\ AtTheStart'
  <2>1. CASE ProviderFails(d, c) BY <1>4, <2>1 DEF ProviderFails
  <2>2. CASE Breaks(d, c) BY <1>4, <2>2 DEF Breaks
  <2>3. CASE Answer(d, c)
    <3>1. PICK a \in Answers(d, c), more \in BOOLEAN :
            Return(d, c, IF more THEN "waiting" ELSE "answered",
                   Accumulated(call[d][c].answer, a), Range(a.entities))
      BY <2>3 DEF Answer
    <3> QED BY <1>4, <3>1
  <2> QED BY <1>5, <2>1, <2>2, <2>3
<1>6. ASSUME NEW d \in Docs, StartDocument(d) PROVE PromptInv' /\ AtTheStart'
  BY <1>6, StartPrompts
<1>7. ASSUME NEW d \in Docs, NextWave(d) PROVE PromptInv' /\ AtTheStart'
  BY <1>7, NextWavePrompts
<1>8. ASSUME NEW d \in Docs, RaiseChunkError(d) \/ Record(d) PROVE PromptInv' /\ AtTheStart'
  <2>1. UNCHANGED <<wave, call, carry, prompt>> BY <1>8 DEF RaiseChunkError, Record
  <2>2. AtTheStart'
    <3>1. doc[d] # "queued" BY <1>8 DEF RaiseChunkError, Record
    <3>2. \A e \in Docs : doc'[e] = "queued" => doc[e] = "queued"
      BY <1>0, <1>8 DEF RaiseChunkError, Record, Shaped, FunctionOn
    <3> QED BY <2>1, <3>2 DEF AtTheStart
  <2> QED BY <1>2, <2>1, <2>2, KeptPrompts
<1>9. CASE Cancel
  <2>1. UNCHANGED <<wave, carry, prompt>> BY <1>9 DEF Cancel
  <2>2. AtTheStart' BY <1>9, <2>1 DEF AtTheStart, Cancel
  <2> QED BY <1>0, <1>9, <2>1, <2>2, CancelKept, KeptPrompts
<1>10. CASE EndBatch \/ UNCHANGED vars
  <2>1. UNCHANGED <<doc, wave, call, carry, prompt>> BY <1>10 DEF EndBatch, vars
  <2> QED BY <1>1, <1>2, <2>1, KeptPrompts
<1> QED BY <1>3, <1>5, <1>6, <1>7, <1>8, <1>9, <1>10 DEF Next, Step

(* However the calls of a wavefront overlap, fail and are made again, what a
   prompt lists is what the wavefronts before it found, in the order of their
   chunks (pipeline.py:486-502). *)
THEOREM PromptsAreSettled == Spec => []PromptsIgnoreTiming
<1>1. Init => IInv /\ PromptInv /\ AtTheStart BY InitHolds, PromptInit
<1>2. IInv /\ PromptInv /\ AtTheStart /\ [Next]_vars => (IInv /\ PromptInv /\ AtTheStart)'
  BY StepKeeps, PromptStep
<1>3. PromptInv => PromptsIgnoreTiming BY PromptInvGives
<1> QED BY <1>1, <1>2, <1>3, PTL DEF Spec

(***************************************************************************)
(* What is recorded                                                        *)
(***************************************************************************)

(* preference is total and transitive. *)
LEMMA Preferring ==
  /\ \A c, d : IsCandidate(c) /\ IsCandidate(d) => Preferred(c, d) \/ Preferred(d, c)
  /\ \A c, d, e : /\ IsCandidate(c) /\ IsCandidate(d) /\ IsCandidate(e)
                  /\ Preferred(c, d) /\ Preferred(d, e)
                  => Preferred(c, e)
  /\ \A c, d : IsCandidate(c) /\ IsCandidate(d) /\ Preferred(c, d) => c.rank >= d.rank
<1>1. ASSUME NEW c, NEW d, IsCandidate(c), IsCandidate(d)
      PROVE  /\ Preferred(c, d) \/ Preferred(d, c)
             /\ Preferred(c, d) => c.rank >= d.rank
  <2>1. c.rank \in Nat /\ d.rank \in Nat BY <1>1 DEF IsCandidate
  <2> QED BY <2>1 DEF Preferred
<1>2. ASSUME NEW c, NEW d, NEW e, IsCandidate(c), IsCandidate(d), IsCandidate(e),
             Preferred(c, d), Preferred(d, e)
      PROVE  Preferred(c, e)
  <2>1. c.rank \in Nat /\ d.rank \in Nat /\ e.rank \in Nat BY <1>2 DEF IsCandidate
  <2> QED BY <1>2, <2>1 DEF Preferred
<1> QED BY <1>1, <1>2

(* Of finitely many candidates one is the best. *)
LEMMA BestOfSome ==
  ASSUME NEW n \in Nat, NEW f, NEW I \in SUBSET (1..n), I # {}, \A i \in I : IsCandidate(f[i])
  PROVE  LET best == Best({f[i] : i \in I})
         IN /\ \E i \in I : best = f[i]
            /\ IsCandidate(best)
            /\ \A i \in I : best.rank >= f[i].rank
<1> DEFINE P == {m \in Nat : \A J \in SUBSET I : J # {} /\ J \subseteq 1..m =>
                   \E k \in J : \A j \in J : Preferred(f[k], f[j])}
<1>1. 0 \in P
  <2>1. \A J \in SUBSET I : J \subseteq 1..0 => J = {} OBVIOUS
  <2> QED BY <2>1
<1>2. ASSUME NEW m \in P PROVE m + 1 \in P
  <2> SUFFICES ASSUME NEW J \in SUBSET I, J # {}, J \subseteq 1..(m + 1)
               PROVE  \E k \in J : \A j \in J : Preferred(f[k], f[j])
    OBVIOUS
  <2>0. \A j \in J : IsCandidate(f[j]) OBVIOUS
  <2>1. CASE J \subseteq 1..m BY <2>1
  <2>2. CASE J = {m + 1} BY <2>0, <2>2, Preferring
  <2>3. CASE m + 1 \in J /\ J # {m + 1}
    <3>1. PICK K : K = J \ {m + 1} OBVIOUS
    <3>2. K \in SUBSET I /\ K # {} /\ K \subseteq 1..m BY <2>3, <3>1
    <3>3. PICK k \in K : \A j \in K : Preferred(f[k], f[j]) BY <3>2
    <3>4. k \in J /\ \A j \in J : j \in K \/ j = m + 1 BY <3>1
    <3>5. CASE Preferred(f[k], f[m + 1]) BY <3>3, <3>4, <3>5
    <3>6. CASE Preferred(f[m + 1], f[k])
      <4>1. ASSUME NEW j \in J PROVE Preferred(f[m + 1], f[j])
        <5>1. CASE j = m + 1 BY <2>0, <5>1, Preferring
        <5>2. CASE j \in K
          <6>1. Preferred(f[k], f[j]) BY <3>3, <5>2
          <6> QED BY <2>0, <2>3, <3>4, <3>6, <6>1, Preferring
        <5> QED BY <3>4, <5>1, <5>2
      <4> QED BY <2>3, <4>1
    <3> QED BY <2>0, <2>3, <3>4, <3>5, <3>6, Preferring
  <2>4. J \subseteq 1..m \/ m + 1 \in J OBVIOUS
  <2> QED BY <2>1, <2>2, <2>3, <2>4
<1>3. P \in SUBSET Nat OBVIOUS
<1>4. P = Nat
  <2> HIDE DEF P
  <2> QED BY <1>1, <1>2, <1>3, Inductive
<1>5. PICK k \in I : \A j \in I : Preferred(f[k], f[j])
  <2>1. n \in P BY <1>4
  <2> QED BY <2>1
<1> HIDE DEF P
<1>6. PICK cs : cs = {f[i] : i \in I} OBVIOUS
<1>7. f[k] \in cs /\ \A d \in cs : Preferred(f[k], d) BY <1>5, <1>6
<1>8. PICK best : best = Best(cs) OBVIOUS
<1>9. best \in cs /\ \A d \in cs : Preferred(best, d) BY <1>7, <1>8 DEF Best
<1>10. \E i \in I : best = f[i] BY <1>6, <1>9
<1>11. IsCandidate(best) BY <1>10
<1>12. \A i \in I : best.rank >= f[i].rank BY <1>6, <1>9, <1>11, Preferring
<1> QED BY <1>6, <1>8, <1>10, <1>11, <1>12

(* What of an answer can be stored: what is neither refused nor a date. *)
Storable(a) == {c \in Range(a.entities) : c.name \notin Refused /\ ~ IsDateNode(c)}

(* lift_date_nodes keeps every other candidate, at its rank. *)
Lifting(a, es, n) ==
  /\ n \in Nat /\ DOMAIN a.entities = 1..n
  /\ \A i \in 1..n : a.entities[i] \in Range(a.entities)
  /\ DOMAIN es = {k \in 1..n : ~ IsDateNode(a.entities[k])}
  /\ \A i \in DOMAIN es :
       /\ IsCandidate(es[i]) /\ es[i].rank = a.entities[i].rank
       /\ es[i].name = a.entities[i].name /\ es[i].type = a.entities[i].type

LEMMA LiftKeeps ==
  ASSUME NEW a, IsAnswer(a)
  PROVE  Lifting(a, LiftDateNodes(a).entities, Len(a.entities))
<1>0. PICK es : es = LiftDateNodes(a).entities OBVIOUS
<1>1. Len(a.entities) \in Nat /\ DOMAIN a.entities = 1..Len(a.entities)
  BY DEF IsAnswer
<1>2. \A i \in DOMAIN a.entities : a.entities[i] \in Range(a.entities) BY DEF Range
<1>3. PICK K : K = {k \in DOMAIN a.entities : ~ IsDateNode(a.entities[k])} OBVIOUS
<1>4. es = [i \in K |-> [a.entities[i] EXCEPT !.dated = @ \/ a.entities[i].name \in Lifted(a)]]
  BY <1>0, <1>3, Zenon DEF LiftDateNodes
<1>5. DOMAIN es = K BY <1>4
<1>6. ASSUME NEW i \in K
      PROVE  /\ IsCandidate(es[i]) /\ es[i].rank = a.entities[i].rank
             /\ es[i].name = a.entities[i].name /\ es[i].type = a.entities[i].type
  <2>1. PICK c, dated : c = a.entities[i] /\ dated = (c.dated \/ c.name \in Lifted(a)) OBVIOUS
  <2>2. es[i] = [c EXCEPT !.dated = dated] BY <1>4, <2>1, Zenon
  <2>3. IsCandidate(c) BY <1>2, <1>3, <2>1 DEF IsAnswer
  <2>4. es[i] = [name |-> c.name, type |-> c.type, rank |-> c.rank, dated |-> dated,
                 bare |-> c.bare]
    BY <2>2, <2>3 DEF IsCandidate
  <2>5. PICK e : e = es[i] OBVIOUS
  <2>6. /\ e = [name |-> c.name, type |-> c.type, rank |-> c.rank, dated |-> dated, bare |-> c.bare]
        /\ e.name = c.name /\ e.type = c.type /\ e.rank = c.rank /\ e.dated = dated
        /\ e.bare = c.bare
    BY <2>4, <2>5
  <2>7. e = [name |-> e.name, type |-> e.type, rank |-> e.rank, dated |-> e.dated, bare |-> e.bare]
    BY <2>6, Zenon
  <2>8. IsCandidate(e) BY <2>3, <2>6, <2>7 DEF IsCandidate
  <2> QED BY <2>1, <2>5, <2>6, <2>8
<1>7. PICK n : n = Len(a.entities) OBVIOUS
<1>8. Lifting(a, es, n) BY <1>1, <1>2, <1>3, <1>5, <1>6, <1>7 DEF Lifting
<1> QED BY <1>0, <1>7, <1>8

(* map_extraction: an entity for each id that something storable has, at no
   lower a rank; and edges between two of them. *)
LEMMA Mapped ==
  ASSUME NEW a, IsAnswer(a), NEW m, m = MapExtraction(a)
  PROVE  /\ DOMAIN m.entities = {IdOf(c) : c \in Storable(a)}
         /\ \A id \in DOMAIN m.entities : IsCandidate(m.entities[id])
         /\ \A c \in Storable(a) : m.entities[IdOf(c)].rank >= c.rank
         /\ \A e \in m.edges : {e[1], e[2]} \subseteq DOMAIN m.entities /\ e[1] # e[2]
<1>1. PICK es : es = LiftDateNodes(a).entities OBVIOUS
<1>2. PICK n : n = Len(a.entities) OBVIOUS
<1>3. /\ n \in Nat /\ DOMAIN a.entities = 1..n
      /\ \A i \in 1..n : a.entities[i] \in Range(a.entities)
      /\ DOMAIN es = {k \in 1..n : ~ IsDateNode(a.entities[k])}
      /\ \A i \in DOMAIN es :
           /\ IsCandidate(es[i]) /\ es[i].rank = a.entities[i].rank
           /\ es[i].name = a.entities[i].name /\ es[i].type = a.entities[i].type
  <2>1. Lifting(a, es, n) BY <1>1, <1>2, LiftKeeps
  <2> QED BY <2>1 DEF Lifting
<1>4. PICK built : built = {c \in Range(es) : c.name \notin Refused} OBVIOUS
<1>5. PICK es2 : es2 = m.entities OBVIOUS
<1>6. es2 = [id \in {IdOf(c) : c \in built} |-> Best({c \in built : IdOf(c) = id})]
  BY <1>1, <1>4, <1>5 DEF MapExtraction, MappedEntities
<1>7. \A i \in DOMAIN es : IdOf(es[i]) = IdOf(a.entities[i]) BY <1>3 DEF IdOf
<1>8. \A c \in built : \E i \in DOMAIN es : c = es[i] /\ a.entities[i] \in Storable(a)
  BY <1>3, <1>4 DEF Range, Storable
<1>9. ASSUME NEW c \in Storable(a) PROVE \E i \in DOMAIN es : a.entities[i] = c /\ es[i] \in built
  <2>1. PICK i \in 1..n : c = a.entities[i] BY <1>3 DEF Storable, Range
  <2>2. ~ IsDateNode(c) /\ c.name \notin Refused BY DEF Storable
  <2>3. i \in DOMAIN es BY <1>3, <2>1, <2>2
  <2>4. es[i] \in Range(es) BY <2>3 DEF Range
  <2> QED BY <1>3, <1>4, <2>1, <2>2, <2>3, <2>4
<1>10. DOMAIN es2 = {IdOf(c) : c \in Storable(a)}
  <2>1. DOMAIN es2 = {IdOf(c) : c \in built} BY <1>6
  <2>2. \A c \in built : IdOf(c) \in {IdOf(k) : k \in Storable(a)} BY <1>7, <1>8
  <2>3. \A c \in Storable(a) : IdOf(c) \in {IdOf(k) : k \in built} BY <1>7, <1>9
  <2> QED BY <2>1, <2>2, <2>3
<1>11. ASSUME NEW id \in DOMAIN es2
       PROVE  /\ IsCandidate(es2[id])
              /\ \A c \in built : IdOf(c) = id => es2[id].rank >= c.rank
  <2>1. PICK I : I = {i \in DOMAIN es : es[i] \in built /\ IdOf(es[i]) = id} OBVIOUS
  <2>2. I \in SUBSET (1..n) /\ \A i \in I : IsCandidate(es[i]) BY <1>3, <2>1
  <2>3. I # {}
    <3>1. PICK c \in built : IdOf(c) = id BY <1>6
    <3> QED BY <1>8, <2>1, <3>1
  <2>4. {es[i] : i \in I} = {c \in built : IdOf(c) = id} BY <1>8, <2>1
  <2>5. PICK best : best = Best({es[i] : i \in I}) OBVIOUS
  <2>6. IsCandidate(best) /\ \A i \in I : best.rank >= es[i].rank
    <3>1. n \in Nat BY <1>3
    <3> QED BY <2>2, <2>3, <2>5, <3>1, BestOfSome
  <2>7. es2[id] = best BY <1>6, <2>4, <2>5
  <2>8. ASSUME NEW c \in built, IdOf(c) = id PROVE best.rank >= c.rank
    <3>1. PICK i \in DOMAIN es : c = es[i] BY <1>8
    <3>2. i \in I BY <2>1, <2>8, <3>1
    <3> QED BY <2>6, <3>1, <3>2
  <2> QED BY <2>6, <2>7, <2>8
<1>12. ASSUME NEW c \in Storable(a) PROVE es2[IdOf(c)].rank >= c.rank
  <2>1. PICK i \in DOMAIN es : a.entities[i] = c /\ es[i] \in built BY <1>9
  <2>2. IdOf(es[i]) = IdOf(c) /\ es[i].rank = c.rank BY <1>3, <1>7, <2>1
  <2>3. IdOf(c) \in DOMAIN es2 BY <1>10
  <2> QED BY <1>11, <2>1, <2>2, <2>3
<1>13. ASSUME NEW name, ResolveName(a, name) # NoId PROVE ResolveName(a, name) \in DOMAIN es2
  <2>1. PICK lifted, known, at :
          /\ lifted = LiftDateNodes(a).entities
          /\ known = DOMAIN MappedEntities(a)
          /\ at = {i \in DOMAIN lifted : lifted[i].name = name /\ IdOf(lifted[i]) \in known}
    OBVIOUS
  <2>2. lifted = es /\ known = DOMAIN es2
    BY <1>1, <1>5, <2>1 DEF MapExtraction
  <2>3. ResolveName(a, name) =
          IF at = {} THEN NoId ELSE IdOf(lifted[CHOOSE i \in at : \A j \in at : i <= j])
    BY <2>1 DEF ResolveName
  <2>4. at # {} BY <1>13, <2>3
  <2>5. at \in SUBSET Nat BY <1>3, <2>1, <2>2
  <2>6. \E i \in at : \A j \in at : i <= j BY <2>4, <2>5, LeastNatural
  <2>7. PICK i : i = CHOOSE k \in at : \A j \in at : k <= j OBVIOUS
  <2>8. i \in at BY <2>6, <2>7
  <2>9. ResolveName(a, name) = IdOf(lifted[i]) BY <2>3, <2>4, <2>7
  <2>10. IdOf(lifted[i]) \in known BY <2>1, <2>8
  <2> QED BY <2>2, <2>9, <2>10
<1>14. ASSUME NEW x \in m.edges PROVE {x[1], x[2]} \subseteq DOMAIN es2 /\ x[1] # x[2]
  <2>1. PICK e \in LiftDateNodes(a).edges :
          x = Ends(a, e) /\ e \notin Unresolved(a) /\ e \notin SelfLoops(a)
    BY DEF MapExtraction
  <2>2. PICK s, t : s = ResolveName(a, e[1]) /\ t = ResolveName(a, e[2]) OBVIOUS
  <2>3. x = <<s, t>> BY <2>1, <2>2 DEF Ends
  <2>4. Range(x) = {s, t} BY <2>3 DEF Range
  <2>5. NoId \notin Range(x) BY <2>1 DEF Unresolved
  <2>6. s # NoId /\ t # NoId BY <2>4, <2>5
  <2>7. x[1] = s /\ x[2] = t BY <2>3
  <2>8. s # t BY <2>1, <2>7 DEF SelfLoops
  <2> QED BY <1>13, <2>2, <2>6, <2>7, <2>8
<1> QED BY <1>5, <1>10, <1>11, <1>12, <1>14

(* merge_extractions, over the parts of n chunks, those in I answered. *)
Merging(I, answers, parts, merged) ==
  /\ DOMAIN merged.entities = {IdOf(c) : c \in UNION {Storable(answers[i]) : i \in I}}
  /\ \A i \in I : \A c \in Storable(answers[i]) : merged.entities[IdOf(c)].rank >= c.rank
  /\ \A e \in merged.edges : {e[1], e[2]} \subseteq DOMAIN merged.entities /\ e[1] # e[2]

LEMMA Merged ==
  ASSUME NEW n \in Nat, NEW I \in SUBSET (1..n), NEW answers, NEW parts,
         \A i \in I : IsAnswer(answers[i]),
         parts = [i \in 1..n |-> IF i \in I THEN MapExtraction(answers[i]) ELSE NoPart],
         NEW merged, merged = MergeExtractions(parts)
  PROVE  Merging(I, answers, parts, merged)
<1> DEFINE Real == {k \in DOMAIN parts : parts[k] # NoPart}
<1>1. \A i \in I : i \in DOMAIN parts /\ parts[i] = MapExtraction(answers[i]) OBVIOUS
<1>2. \A i \in DOMAIN parts : i \in I \/ parts[i] = NoPart OBVIOUS
<1>3. ASSUME NEW i \in I
      PROVE  /\ DOMAIN parts[i].entities = {IdOf(c) : c \in Storable(answers[i])}
             /\ \A id \in DOMAIN parts[i].entities : IsCandidate(parts[i].entities[id])
             /\ \A c \in Storable(answers[i]) : parts[i].entities[IdOf(c)].rank >= c.rank
             /\ \A e \in parts[i].edges : {e[1], e[2]} \subseteq DOMAIN parts[i].entities
                                            /\ e[1] # e[2]
  <2>1. PICK a, m : a = answers[i] /\ m = parts[i] OBVIOUS
  <2>2. IsAnswer(a) /\ m = MapExtraction(a) BY <1>1, <2>1
  <2>3. /\ DOMAIN m.entities = {IdOf(c) : c \in Storable(a)}
        /\ \A id \in DOMAIN m.entities : IsCandidate(m.entities[id])
        /\ \A c \in Storable(a) : m.entities[IdOf(c)].rank >= c.rank
        /\ \A e \in m.edges : {e[1], e[2]} \subseteq DOMAIN m.entities /\ e[1] # e[2]
    BY <2>2, Mapped
  <2> QED BY <2>1, <2>3, Zenon
<1>4. DOMAIN NoPart.entities = {} /\ NoPart.edges = {} BY DEF NoPart
<1>5. Real \subseteq I BY <1>2
<1>6. \A i \in I : i \in Real \/ DOMAIN parts[i].entities = {} BY <1>1, <1>4
<1>7. Ids(parts) = UNION {DOMAIN parts[i].entities : i \in I}
  <2>1. Ids(parts) = UNION {DOMAIN parts[i].entities : i \in Real} BY Zenon DEF Ids
  <2> HIDE DEF Real
  <2>2. ASSUME NEW id \in UNION {DOMAIN parts[i].entities : i \in I}
        PROVE  id \in UNION {DOMAIN parts[i].entities : i \in Real}
    <3>1. PICK i \in I : id \in DOMAIN parts[i].entities OBVIOUS
    <3>2. i \in Real BY <1>6, <3>1
    <3> QED BY <3>1, <3>2
  <2> QED BY <1>5, <2>1, <2>2
<1>8. PICK es : es = merged.entities OBVIOUS
<1>9. es = [id \in Ids(parts) |->
              Best({parts[i].entities[id] :
                      i \in {k \in DOMAIN parts : parts[k] # NoPart /\ id \in DOMAIN parts[k].entities}})]
  BY <1>8 DEF MergeExtractions
<1>10. DOMAIN es = Ids(parts) BY <1>9
<1>11. DOMAIN es = {IdOf(c) : c \in UNION {Storable(answers[i]) : i \in I}}
  <2>1. ASSUME NEW i \in I, NEW id \in DOMAIN parts[i].entities
        PROVE  \E c \in Storable(answers[i]) : id = IdOf(c)
    <3>1. PICK ids : ids = DOMAIN parts[i].entities OBVIOUS
    <3>2. ids = {IdOf(c) : c \in Storable(answers[i])} BY <1>3, <3>1, Zenon
    <3> QED BY <3>1, <3>2
  <2>2. ASSUME NEW i \in I, NEW c \in Storable(answers[i])
        PROVE  IdOf(c) \in DOMAIN parts[i].entities
    <3>1. PICK ids : ids = DOMAIN parts[i].entities OBVIOUS
    <3>2. ids = {IdOf(k) : k \in Storable(answers[i])} BY <1>3, <3>1, Zenon
    <3> QED BY <3>1, <3>2
  <2>3. ASSUME NEW id \in UNION {DOMAIN parts[i].entities : i \in I}
        PROVE  id \in {IdOf(c) : c \in UNION {Storable(answers[i]) : i \in I}}
    <3>1. PICK i \in I : id \in DOMAIN parts[i].entities BY Zenon
    <3>2. PICK c \in Storable(answers[i]) : id = IdOf(c) BY <2>1, <3>1, Zenon
    <3>3. c \in UNION {Storable(answers[k]) : k \in I} BY <3>2, Zenon
    <3> QED BY <3>2, <3>3, Zenon
  <2>4. ASSUME NEW id \in {IdOf(c) : c \in UNION {Storable(answers[i]) : i \in I}}
        PROVE  id \in UNION {DOMAIN parts[i].entities : i \in I}
    <3>1. PICK c \in UNION {Storable(answers[i]) : i \in I} : id = IdOf(c) BY Zenon
    <3>2. PICK i \in I : c \in Storable(answers[i]) BY Zenon
    <3>3. id \in DOMAIN parts[i].entities BY <2>2, <3>1, <3>2, Zenon
    <3> QED BY <3>3, Zenon
  <2> QED BY <1>7, <1>10, <2>3, <2>4
<1>12. ASSUME NEW i \in I, NEW c \in Storable(answers[i]) PROVE es[IdOf(c)].rank >= c.rank
  <2>1. PICK id : id = IdOf(c) OBVIOUS
  <2>2. id \in DOMAIN parts[i].entities /\ parts[i].entities[id].rank >= c.rank
    <3>1. PICK ids : ids = DOMAIN parts[i].entities OBVIOUS
    <3>2. ids = {IdOf(k) : k \in Storable(answers[i])} BY <1>3, <3>1, Zenon
    <3>3. parts[i].entities[IdOf(c)].rank >= c.rank BY <1>3, Zenon
    <3> QED BY <2>1, <3>1, <3>2, <3>3
  <2>3. id \in Ids(parts) BY <1>7, <2>2
  <2>4. PICK J : J = {k \in DOMAIN parts : parts[k] # NoPart /\ id \in DOMAIN parts[k].entities}
    OBVIOUS
  <2>5. es[id] = Best({parts[k].entities[id] : k \in J}) BY <1>9, <2>3, <2>4
  <2>6. J \subseteq I BY <1>5, <2>4
  <2>7. i \in J BY <1>1, <1>6, <2>2, <2>4
  <2>8. PICK f : f = [k \in J |-> parts[k].entities[id]] OBVIOUS
  <2>9. \A k \in J : IsCandidate(f[k]) BY <1>3, <2>4, <2>6, <2>8
  <2>10. {f[k] : k \in J} = {parts[k].entities[id] : k \in J} BY <2>8
  <2>11. PICK best : best = Best({f[k] : k \in J}) OBVIOUS
  <2>12. IsCandidate(best) /\ \A k \in J : best.rank >= f[k].rank
    <3>1. J \in SUBSET (1..n) /\ J # {} BY <2>6, <2>7
    <3> QED BY <2>9, <2>11, <3>1, BestOfSome
  <2>13. es[id] = best BY <2>5, <2>10, <2>11
  <2>14. f[i].rank \in Nat /\ best.rank \in Nat /\ best.rank >= f[i].rank /\ f[i] = parts[i].entities[id]
    BY <2>7, <2>8, <2>9, <2>12 DEF IsCandidate
  <2>15. c.rank \in Nat BY DEF Storable, IsAnswer, IsCandidate
  <2> QED BY <2>1, <2>2, <2>13, <2>14, <2>15
<1>13. ASSUME NEW e \in merged.edges PROVE {e[1], e[2]} \subseteq DOMAIN es /\ e[1] # e[2]
  <2>1. PICK i \in DOMAIN parts : e \in parts[i].edges BY DEF MergeExtractions
  <2>2. i \in I BY <1>2, <1>4, <2>1
  <2>3. {e[1], e[2]} \subseteq DOMAIN parts[i].entities /\ e[1] # e[2] BY <1>3, <2>1, <2>2
  <2> QED BY <1>7, <1>10, <2>2, <2>3
<1> HIDE DEF Real
<1> QED BY <1>8, <1>10, <1>11, <1>12, <1>13 DEF Merging

(* What a chunk's calls listed is what its answer holds. *)
Heard(k) == IsAnswer(k.answer) /\ k.heard = Range(k.answer.entities)

AllHeard == \A d \in Docs : \A c \in ChunksOf(d) : Heard(call[d][c])

LEMMA NothingHeard ==
  ASSUME NEW k, k.answer = NoAnswer, k.heard = {}
  PROVE  Heard(k)
<1>1. NoAnswer.entities = <<>> BY DEF NoAnswer
<1>2. Range(<<>>) = {} BY DEF Range
<1>3. IsAnswer(NoAnswer) BY <1>1, <1>2 DEF IsAnswer
<1> QED BY <1>1, <1>2, <1>3 DEF Heard

LEMMA HeardMore ==
  ASSUME NEW old, IsAnswer(old), NEW a, IsAnswer(a)
  PROVE  /\ IsAnswer(Accumulated(old, a))
         /\ Range(Accumulated(old, a).entities) = Range(old.entities) \union Range(a.entities)
<1>1. CASE FoundNothing(a)
  <2>1. a.entities = <<>> /\ Range(<<>>) = {} BY <1>1 DEF FoundNothing, Range
  <2> QED BY <1>1, <2>1 DEF Accumulated
<1>2. CASE ~ FoundNothing(a)
  <2>1. PICK s, t : s = old.entities /\ t = a.entities OBVIOUS
  <2>2. s \in Seq(Range(s)) /\ t \in Seq(Range(t)) BY <2>1 DEF IsAnswer
  <2>3. PICK m, n : m = Len(s) /\ n = Len(t) OBVIOUS
  <2>4. m \in Nat /\ n \in Nat /\ DOMAIN s = 1..m /\ DOMAIN t = 1..n BY <2>2, <2>3
  <2>5. PICK u : u = s \o t OBVIOUS
  <2>6. /\ DOMAIN u = 1..(m + n) /\ \A i \in 1..m : u[i] = s[i]
        /\ \A i \in 1..n : u[m + i] = t[i]
    BY <2>2, <2>3, <2>4, <2>5
  <2>7. \A i \in 1..(m + n) : i \in 1..m \/ \E j \in 1..n : i = m + j
    <3> SUFFICES ASSUME NEW i \in 1..(m + n), i \notin 1..m PROVE \E j \in 1..n : i = m + j
      OBVIOUS
    <3>1. i - m \in 1..n /\ i = m + (i - m) BY <2>4
    <3> QED BY <3>1
  <2>8. Range(u) = Range(s) \union Range(t)
    <3>1. \A x \in Range(s) \union Range(t) : x \in Range(u)
      <4>1. \A i \in 1..m : i \in DOMAIN u BY <2>4, <2>6
      <4>2. \A i \in 1..n : m + i \in DOMAIN u BY <2>4, <2>6
      <4> QED BY <2>4, <2>6, <4>1, <4>2 DEF Range
    <3>2. ASSUME NEW x \in Range(u) PROVE x \in Range(s) \union Range(t)
      <4>1. PICK i \in 1..(m + n) : x = u[i] BY <2>6 DEF Range
      <4>2. CASE i \in 1..m BY <2>4, <2>6, <4>1, <4>2 DEF Range
      <4>3. ASSUME NEW j \in 1..n, i = m + j PROVE x \in Range(t)
        BY <2>4, <2>6, <4>1, <4>3 DEF Range
      <4> QED BY <2>7, <4>2, <4>3
    <3> QED BY <3>1, <3>2
  <2>9. u \in Seq(Range(u))
    <3>1. \A i \in 1..(m + n) : u[i] \in Range(u) BY <2>6 DEF Range
    <3>2. PICK R : R = Range(s) \union Range(t) OBVIOUS
    <3>3. s \in Seq(R) /\ t \in Seq(R) BY <2>2, <3>2
    <3>4. u \in Seq(R) /\ Len(u) = m + n BY <2>3, <2>4, <2>5, <3>3
    <3>5. R = Range(u) BY <2>8, <3>2
    <3> QED BY <3>4, <3>5
  <2>10. \A c \in Range(u) : IsCandidate(c) BY <2>1, <2>8 DEF IsAnswer
  <2>11. PICK z : z = Combine(old, a) OBVIOUS
  <2>12. z.entities = u BY <2>1, <2>5, <2>11 DEF Combine
  <2>13. IsAnswer(z) BY <2>9, <2>10, <2>12 DEF IsAnswer
  <2>14. Accumulated(old, a) = z BY <1>2, <2>11 DEF Accumulated
  <2> QED BY <2>1, <2>8, <2>12, <2>13, <2>14
<1> QED BY <1>1, <1>2

LEMMA KeptHeard ==
  ASSUME AllHeard, \A e \in Docs : \A b \in ChunksOf(e) : Kept(call[e][b], call'[e][b])
  PROVE  AllHeard'
BY DEF AllHeard, Kept, Heard

LEMMA ReturnHeard ==
  ASSUME Shaped, AllHeard, NEW d \in Docs, NEW c \in ChunksOf(d), NEW answer, NEW new, NEW step,
         Return(d, c, step, answer, new),
         IsAnswer(answer), Range(answer.entities) = call[d][c].heard \union new
  PROVE  AllHeard'
<1>1. PICK k : k = call'[d][c] OBVIOUS
<1>2. k = [step |-> step, asked |-> call[d][c].asked + 1, answer |-> answer,
           found |-> IF step = "answered" THEN MappedInOrder(answer) ELSE <<>>,
           heard |-> call[d][c].heard \union new]
  BY <1>1, ReturnEffect
<1>3. k.answer = answer /\ k.heard = call[d][c].heard \union new BY <1>2
<1>4. Heard(k) BY <1>3 DEF Heard
<1>5. OnlyCall(d, c) BY ReturnEffect
<1>6. ASSUME NEW e \in Docs, NEW b \in ChunksOf(e) PROVE Heard(call'[e][b])
  <2>1. CASE e = d /\ b = c BY <1>1, <1>4, <2>1
  <2>2. CASE ~ (e = d /\ b = c)
    <3>1. call'[e][b] = call[e][b] BY <1>5, <2>2 DEF OnlyCall
    <3> QED BY <3>1 DEF AllHeard
  <2> QED BY <2>1, <2>2
<1> QED BY <1>6 DEF AllHeard, Heard

LEMMA LaunchHeard ==
  ASSUME Shaped, AllHeard, NEW d \in Docs, NEW first, NEW seen, Launch(d, first, seen)
  PROVE  AllHeard'
<1>0. PICK k : k = [NoCall EXCEPT !.step = "waiting"]
  OBVIOUS
<1>1. call' = [call EXCEPT ![d] = [c \in ChunksOf(d) |->
                 IF c \in Wavefront(d, first) THEN k ELSE call[d][c]]]
  BY <1>0, Zenon DEF Launch
<1>2. Heard(k)
  <2>1. k.answer = NoAnswer /\ k.heard = {} BY <1>0 DEF NoCall
  <2> QED BY <2>1, NothingHeard
<1>3. ASSUME NEW e \in Docs, NEW b \in ChunksOf(e) PROVE Heard(call'[e][b])
  <2>1. call'[e][b] = IF e = d /\ b \in Wavefront(d, first) THEN k ELSE call[e][b]
    BY <1>1 DEF Shaped, FunctionOn
  <2>2. Heard(call[e][b]) BY DEF AllHeard
  <2> QED BY <1>2, <2>1, <2>2
<1> QED BY <1>3 DEF AllHeard, Heard

LEMMA HeardStep == IInv /\ AllHeard /\ [Next]_vars => AllHeard'
<1> SUFFICES ASSUME IInv, AllHeard, [Next]_vars PROVE AllHeard'
  OBVIOUS
<1>0. Shaped BY DEF IInv
<1>1. ASSUME UNCHANGED call PROVE AllHeard' BY <1>1 DEF AllHeard, Heard
<1>2. ASSUME NEW d \in Docs, NEW c \in ChunksOf(d), Acquire(d, c) PROVE AllHeard'
  BY <1>0, <1>2, AcquireKept, KeptHeard
<1>3. ASSUME NEW d \in Docs, NEW c \in ChunksOf(d), NEW step,
             Return(d, c, step, call[d][c].answer, {})
      PROVE  AllHeard'
  <2>1. PICK k : k = call[d][c] OBVIOUS
  <2>2. Heard(k) BY <2>1 DEF AllHeard
  <2>3. Return(d, c, step, k.answer, {}) BY <1>3, <2>1
  <2>4. Range(k.answer.entities) = call[d][c].heard \union {} BY <2>1, <2>2 DEF Heard
  <2>5. IsAnswer(k.answer) BY <2>2 DEF Heard
  <2> QED BY <1>0, <2>3, <2>4, <2>5, ReturnHeard
<1>4. ASSUME NEW d \in Docs, NEW c \in ChunksOf(d), ProviderFails(d, c) \/ Breaks(d, c)
      PROVE  AllHeard'
  BY <1>3, <1>4 DEF ProviderFails, Breaks
<1>5. ASSUME NEW d \in Docs, NEW c \in ChunksOf(d), Answer(d, c) PROVE AllHeard'
  <2>1. PICK a \in Answers(d, c), more \in BOOLEAN :
          Return(d, c, IF more THEN "waiting" ELSE "answered",
                 Accumulated(call[d][c].answer, a), Range(a.entities))
    BY <1>5 DEF Answer
  <2>2. PICK step, old, all : /\ step = IF more THEN "waiting" ELSE "answered"
                              /\ old = call[d][c] /\ all = Accumulated(old.answer, a)
    OBVIOUS
  <2>3. Return(d, c, step, all, Range(a.entities)) BY <2>1, <2>2
  <2>4. Heard(old) BY <2>2 DEF AllHeard
  <2>5. IsAnswer(a) BY AnswersAssumption
  <2>6. IsAnswer(all) /\ Range(all.entities) = call[d][c].heard \union Range(a.entities)
    BY <2>2, <2>4, <2>5, HeardMore DEF Heard
  <2> QED BY <1>0, <2>3, <2>6, ReturnHeard
<1>6. ASSUME NEW d \in Docs, StartDocument(d) PROVE AllHeard'
  BY <1>0, <1>1, <1>6, LaunchHeard DEF StartDocument
<1>7. ASSUME NEW d \in Docs, NextWave(d) PROVE AllHeard'
  <2>1. PICK seen : Launch(d, wave[d] + Concurrency, seen) BY <1>7 DEF NextWave
  <2> QED BY <1>0, <2>1, LaunchHeard
<1>8. ASSUME NEW d \in Docs, RaiseChunkError(d) \/ Record(d) PROVE AllHeard'
  BY <1>1, <1>8 DEF RaiseChunkError, Record
<1>9. CASE Cancel BY <1>0, <1>9, CancelKept, KeptHeard
<1>10. CASE EndBatch \/ UNCHANGED vars BY <1>1, <1>10 DEF EndBatch, vars
<1> QED BY <1>2, <1>4, <1>5, <1>6, <1>7, <1>8, <1>9, <1>10 DEF Next, Step

(* The chunks whose part has an id. *)
With(parts, id) == {i \in DOMAIN parts : parts[i] # NoPart /\ id \in DOMAIN parts[i].entities}

LEMMA HasId ==
  ASSUME NEW parts, NEW id
  PROVE  id \in Ids(parts) <=> With(parts, id) # {}
BY DEF Ids, With

(* stored_chunks, of texts and the parts of their chunks. *)
LEMMA PassagesLinked ==
  ASSUME NEW n \in Nat, NEW texts, DOMAIN texts = 1..n, NEW parts, DOMAIN parts = 1..n,
         NEW stored, stored = StoredChunks(texts, parts)
  PROVE  /\ DOMAIN stored = Range(texts)
         /\ \A c \in 1..n : Ids(<<parts[c]>>) \subseteq stored[texts[c]].links
         /\ \A id \in Ids(parts) :
              Cardinality({t \in DOMAIN stored : id \in stored[t].links}) \in 1..MentionCount(parts, id)
<1>1. DOMAIN stored = Range(texts) BY DEF StoredChunks
<1>2. ASSUME NEW t \in Range(texts), NEW id
      PROVE  id \in stored[t].links <=> \E i \in With(parts, id) : texts[i] = t
  <2>1. stored[t].links = LinksOf(texts, parts, t) BY DEF StoredChunks
  <2>2. PICK some : some = [i \in {k \in 1..n : texts[k] = t} |-> parts[i]] OBVIOUS
  <2>3. LinksOf(texts, parts, t) = Ids(some) BY <2>2 DEF LinksOf
  <2>4. With(some, id) = {i \in With(parts, id) : texts[i] = t} BY <2>2 DEF With
  <2> QED BY <2>1, <2>3, <2>4, HasId
<1>3. ASSUME NEW c \in 1..n, NEW id \in Ids(<<parts[c]>>) PROVE id \in stored[texts[c]].links
  <2>1. PICK one : one = <<parts[c]>> OBVIOUS
  <2>2. DOMAIN one = {1} /\ one[1] = parts[c] BY <2>1
  <2>3. With(one, id) # {} BY <2>1, HasId
  <2>4. c \in With(parts, id) BY <2>2, <2>3 DEF With
  <2>5. texts[c] \in Range(texts) BY DEF Range
  <2> QED BY <1>2, <2>4, <2>5
<1>4. ASSUME NEW id \in Ids(parts)
      PROVE  Cardinality({t \in DOMAIN stored : id \in stored[t].links}) \in 1..MentionCount(parts, id)
  <2>1. PICK M, S : /\ M = With(parts, id)
                    /\ S = {t \in DOMAIN stored : id \in stored[t].links}
    OBVIOUS
  <2>2. M # {} /\ M \subseteq 1..n BY <2>1, HasId DEF With
  <2>3. IsFiniteSet(M)
    <3>1. IsFiniteSet(1..n) BY FS_Interval
    <3> QED BY <2>2, <3>1, FS_Subset
  <2>4. PICK f : f = [i \in M |-> texts[i]] OBVIOUS
  <2>5. \A i \in M : texts[i] \in Range(texts) BY <2>2 DEF Range
  <2>6. \A i \in M : texts[i] \in S BY <1>1, <1>2, <2>1, <2>5
  <2>7. \A t \in S : \E i \in M : texts[i] = t BY <1>1, <1>2, <2>1
  <2>8. f \in Surjection(M, S) BY <2>4, <2>6, <2>7 DEF Surjection
  <2>9. IsFiniteSet(S) /\ Cardinality(S) <= Cardinality(M) BY <2>3, <2>8, FS_Surjection
  <2>10. S # {} BY <2>2, <2>6
  <2>11. Cardinality(S) \in Nat /\ Cardinality(S) # 0 /\ Cardinality(M) \in Nat
    BY <2>3, <2>9, <2>10, FS_CardinalityType, FS_EmptySet
  <2>12. MentionCount(parts, id) = Cardinality(M) BY <2>1 DEF MentionCount, With
  <2> QED BY <2>1, <2>9, <2>11, <2>12
<1> QED BY <1>1, <1>3, <1>4

LEMMA HeardIsRecorded == AllHeard => RecordedFromAnswers
<1> SUFFICES ASSUME AllHeard, NEW d \in Docs
             PROVE  LET listed == {c \in Listed(d) : c.name \notin Refused /\ ~ IsDateNode(c)}
                        result == MergeExtractions(Parts(d))
                        es == result.entities
                        parts == Parts(d)
                        stored == StoredChunks(Texts[d], parts)
                    IN /\ DOMAIN es = {<<c.name, c.type>> : c \in listed}
                       /\ \A c \in listed : es[IdOf(c)].rank >= c.rank
                       /\ \A e \in result.edges : {e[1], e[2]} \subseteq DOMAIN es /\ e[1] # e[2]
                       /\ DOMAIN stored = Range(Texts[d])
                       /\ \A c \in ChunksOf(d) :
                            Ids(<<parts[c]>>) \subseteq stored[Texts[d][c]].links
                       /\ \A id \in Ids(parts) :
                            Cardinality({t \in DOMAIN stored : id \in stored[t].links})
                              \in 1..MentionCount(parts, id)
  BY DEF RecordedFromAnswers, GraphFromAnswers, PassagesLinkEntities, Recorded
<1>1. PICK n \in Nat : n = Len(Texts[d]) /\ ChunksOf(d) = 1..n /\ DOMAIN Texts[d] = 1..n
  BY ChunksAssumption DEF ChunksOf
<1>2. PICK I, answers : /\ I = {k \in 1..n : call[d][k].step = "answered"}
                        /\ answers = [k \in 1..n |-> call[d][k].answer]
  OBVIOUS
<1>3. I \in SUBSET (1..n) BY <1>2
<1>4. \A i \in I : IsAnswer(answers[i]) /\ call[d][i].heard = Range(answers[i].entities)
  BY <1>1, <1>2 DEF AllHeard, Heard
<1>5. PICK parts : parts = Parts(d) OBVIOUS
<1>6. parts = [i \in 1..n |-> IF i \in I THEN MapExtraction(answers[i]) ELSE NoPart]
  BY <1>1, <1>2, <1>5 DEF Parts, Part
<1>7. PICK listed : listed = {c \in Listed(d) : c.name \notin Refused /\ ~ IsDateNode(c)} OBVIOUS
<1>8. listed = UNION {Storable(answers[i]) : i \in I}
  <2>1. Listed(d) = UNION {call[d][i].heard : i \in I} BY <1>1, <1>2 DEF Listed
  <2>2. \A i \in I : \A c : c \in Storable(answers[i])
            <=> c \in call[d][i].heard /\ c.name \notin Refused /\ ~ IsDateNode(c)
    BY <1>4 DEF Storable
  <2>3. ASSUME NEW c \in listed PROVE c \in UNION {Storable(answers[i]) : i \in I}
    <3>1. PICK i \in I : c \in call[d][i].heard BY <1>7, <2>1
    <3>2. c \in Storable(answers[i]) BY <1>7, <2>2, <3>1
    <3> QED BY <3>2
  <2>4. ASSUME NEW i \in I, NEW c \in Storable(answers[i]) PROVE c \in listed
    <3>1. c \in call[d][i].heard /\ c.name \notin Refused /\ ~ IsDateNode(c) BY <2>2
    <3>2. c \in Listed(d) BY <2>1, <3>1
    <3> QED BY <1>7, <3>1, <3>2
  <2> QED BY <2>3, <2>4
<1>9. PICK merged : merged = MergeExtractions(parts) OBVIOUS
<1>10. /\ DOMAIN merged.entities = {IdOf(c) : c \in UNION {Storable(answers[i]) : i \in I}}
       /\ \A i \in I : \A c \in Storable(answers[i]) : merged.entities[IdOf(c)].rank >= c.rank
       /\ \A e \in merged.edges : {e[1], e[2]} \subseteq DOMAIN merged.entities /\ e[1] # e[2]
  <2>1. \A i \in I : IsAnswer(answers[i]) BY <1>4
  <2>2. Merging(I, answers, parts, merged) BY <1>3, <1>6, <1>9, <2>1, Merged
  <2> QED BY <2>2 DEF Merging
<1>11. DOMAIN merged.entities = {<<c.name, c.type>> : c \in listed} BY <1>8, <1>10 DEF IdOf
<1>12. \A c \in listed : merged.entities[IdOf(c)].rank >= c.rank
  <2> SUFFICES ASSUME NEW c \in listed PROVE merged.entities[IdOf(c)].rank >= c.rank
    OBVIOUS
  <2>1. PICK i \in I : c \in Storable(answers[i]) BY <1>8
  <2> QED BY <1>10, <2>1
<1>13. DOMAIN parts = 1..n BY <1>6
<1>14. PICK stored : stored = StoredChunks(Texts[d], parts) OBVIOUS
<1>15. /\ DOMAIN stored = Range(Texts[d])
       /\ \A c \in 1..n : Ids(<<parts[c]>>) \subseteq stored[Texts[d][c]].links
       /\ \A id \in Ids(parts) :
            Cardinality({t \in DOMAIN stored : id \in stored[t].links}) \in 1..MentionCount(parts, id)
  BY <1>1, <1>13, <1>14, PassagesLinked
<1> QED BY <1>1, <1>5, <1>7, <1>9, <1>10, <1>11, <1>12, <1>14, <1>15

LEMMA HeardInit == Init => AllHeard
<1> SUFFICES ASSUME Init, NEW d \in Docs, NEW c \in ChunksOf(d) PROVE Heard(call[d][c])
  BY DEF AllHeard
<1>1. call[d][c] = NoCall BY DEF Init
<1>2. NoCall.answer = NoAnswer /\ NoCall.heard = {} BY DEF NoCall
<1> QED BY <1>1, <1>2, NothingHeard

(* What is recorded of a document, its graph and its passages, is what some
   answer about it listed, and all of it: nothing an answered chunk listed is
   lost in lifting, mapping, gleaning or merging, and nothing is linked that
   was not found (mapping.py, merging.py, gleaning.py, corpus.py:62-143). *)
THEOREM RecordsItsAnswers == Spec => []RecordedFromAnswers
<1>1. Init => IInv /\ AllHeard BY InitHolds, HeardInit
<1>2. IInv /\ AllHeard /\ [Next]_vars => (IInv /\ AllHeard)' BY StepKeeps, HeardStep
<1>3. AllHeard => RecordedFromAnswers BY HeardIsRecorded
<1> QED BY <1>1, <1>2, <1>3, PTL DEF Spec
=============================================================================
