-------------------------- MODULE StandaloneProofs ---------------------------
(***************************************************************************)
(* Proofs about the components that stand alone: what guards the calls to  *)
(* the model, in one process and over Redis (GuardsHold says what holds of *)
(* the system MCCallGuards puts together), the chunkers, what is computed  *)
(* from pages read while others write (the timeline's scan and the relations*)
(* inferred of it, retrieval and the theme report, whose moves only improve*)
(* the partition), and what temporal expressions mean, from text to relation*)
(* and back to text.                                                       *)
(***************************************************************************)
EXTENDS MCCallGuards, MCAlgorithms, Iteration, FiniteSetTheorems, TLAPS

(* What keeps the window: inside acquire a caller is alone, its instant is not
   in the future, and one about to record has counted room for its hit. *)
Room ==
  /\ IsFiniteSet(hits)
  /\ \A c \in Callers : now[c] <= clock
  /\ \A c \in Callers : pc[c] # "idle" => \A d \in Callers \ {c} : pc[d] = "idle"
  /\ \A c \in Callers : pc[c] = "record" => Cardinality(Since(now[c] - Window)) < Rpm

(* The types the argument needs: what a refused caller was told is not read. *)
Types ==
  /\ clock \in 0..MaxTime
  /\ hits \in SUBSET Hit
  /\ pc \in [Callers -> Steps]
  /\ now \in [Callers -> 0..MaxTime]

Fits == Calls <= Rpm

WindowInv == Types /\ Room /\ Fits

(* A window that starts later holds no more hits. *)
LEMMA LaterWindow ==
  ASSUME IsFiniteSet(hits), hits \in SUBSET Hit, NEW s \in Int, NEW t \in Int, s <= t
  PROVE  /\ IsFiniteSet(Since(t))
         /\ Cardinality(Since(t)) \in Nat
         /\ Cardinality(Since(t)) <= Cardinality(Since(s))
<1>1. Since(t) \subseteq Since(s) /\ Since(s) \subseteq hits
  BY DEF Since, Hit
<1>2. IsFiniteSet(Since(s)) BY <1>1, FS_Subset
<1> QED BY <1>1, <1>2, FS_Subset, FS_CardinalityType

(* One more hit makes a window one larger at most. *)
LEMMA OneMore ==
  ASSUME NEW S, NEW h, IsFiniteSet(S)
  PROVE  IsFiniteSet(S \union {h}) /\ Cardinality(S \union {h}) <= Cardinality(S) + 1
<1>1. Cardinality(S) \in Nat BY FS_CardinalityType
<1> QED BY <1>1, FS_AddElement

LEMMA InitWindow == Init => WindowInv
<1> SUFFICES ASSUME Init PROVE WindowInv OBVIOUS
<1>1. Types
  BY BoundAssumption DEF Init, Types, Steps
<1>2. Since(clock - Window) = {} BY DEF Init, Since
<1>3. Cardinality(Since(clock - Window)) = 0 BY <1>2, FS_EmptySet
<1>4. Room BY FS_EmptySet DEF Init, Room
<1> QED BY <1>1, <1>3, <1>4, RpmAssumption DEF WindowInv, Fits, Calls

(* Any step keeps the window. *)
LEMMA StepKeepsWindow ==
  ASSUME ~ shared, WindowInv, [Next]_vars PROVE WindowInv'
<1> USE DEF Types, Steps
<1>0. clock - Window \in Int /\ \A c \in Callers : now[c] - Window \in Int
  BY WindowAssumption DEF WindowInv
<1>1. ASSUME NEW c \in Callers, Acquire(c) PROVE WindowInv'
  <2>1. clock' = clock /\ hits' = hits BY <1>1 DEF Acquire
  <2>2. now' = [now EXCEPT ![c] = clock] /\ pc' = [pc EXCEPT ![c] = "count"]
    BY <1>1 DEF Acquire, Goto
  <2>3. \A d \in Callers \ {c} : pc[d] = "idle" BY <1>1 DEF Acquire, MayRun
  <2>4. Types' BY <2>1, <2>2 DEF WindowInv
  <2>5. Room' BY <2>1, <2>2, <2>3 DEF WindowInv, Room, Since
  <2> QED BY <2>1, <2>4, <2>5 DEF WindowInv, Fits, Calls, Since
<1>2. ASSUME NEW c \in Callers, CountHits(c) PROVE WindowInv'
  <2>1. clock' = clock /\ now' = now /\ hits' = Since(now[c] - Window)
    BY <1>2 DEF CountHits
  <2>2. pc' = [pc EXCEPT ![c] =
                 IF Cardinality(hits') >= Rpm THEN "oldest" ELSE "record"]
    BY <1>2 DEF CountHits, Goto
  <2>3. \A d \in Callers \ {c} : pc[d] = "idle" BY <1>2 DEF CountHits, MayRun
  <2>4. hits' \subseteq hits /\ IsFiniteSet(hits')
    BY <2>1, FS_Subset DEF WindowInv, Room, Since
  <2>5. Types' BY <2>1, <2>2, <2>4 DEF WindowInv
  <2>6. Since(now[c] - Window)' = hits' BY <2>1 DEF Since
  <2>7. Cardinality(hits') \in Nat BY <2>4, FS_CardinalityType
  <2>8. pc'[c] = "record" => Cardinality(Since(now[c] - Window)') < Rpm
    BY <2>2, <2>6, <2>7, RpmAssumption DEF WindowInv
  <2>9. Room'
    <3>1. \A d \in Callers : pc'[d] = "record" => d = c
      BY <2>2, <2>3 DEF WindowInv
    <3>2. \A d \in Callers :
            pc'[d] = "record" => Cardinality(Since(now[d] - Window)') < Rpm
      BY <2>8, <3>1
    <3>3. \A d \in Callers : pc'[d] # "idle" => \A e \in Callers \ {d} : pc'[e] = "idle"
      BY <2>2, <2>3 DEF WindowInv
    <3>4. \A d \in Callers : now'[d] <= clock' BY <2>1 DEF WindowInv, Room
    <3> QED BY <2>4, <3>2, <3>3, <3>4 DEF Room, Since
  <2>10. Fits'
    <3>1. Since(clock - Window)' \subseteq Since(clock - Window)
      BY <2>1, <2>4 DEF Since
    <3>2. IsFiniteSet(Since(clock - Window))
      BY FS_Subset DEF WindowInv, Room, Since
    <3>3. Cardinality(Since(clock - Window)') <= Cardinality(Since(clock - Window))
      BY <3>1, <3>2, FS_Subset
    <3>4. Cardinality(Since(clock - Window)') \in Nat /\ Cardinality(Since(clock - Window)) \in Nat
      BY <3>1, <3>2, FS_Subset, FS_CardinalityType
    <3> QED BY <3>3, <3>4, RpmAssumption DEF WindowInv, Fits, Calls
  <2> QED BY <2>5, <2>9, <2>10 DEF WindowInv
<1>3. ASSUME NEW c \in Callers, Refuse(c) PROVE WindowInv'
  <2>1. clock' = clock /\ now' = now /\ hits' = hits BY <1>3 DEF Refuse
  <2>2. pc' = [pc EXCEPT ![c] = "idle"] BY <1>3 DEF Refuse, Goto
  <2>3. Types' BY <2>1, <2>2 DEF WindowInv
  <2>4. Room' BY <2>1, <2>2 DEF WindowInv, Room, Since
  <2> QED BY <2>1, <2>3, <2>4 DEF WindowInv, Fits, Calls, Since
<1>4. ASSUME NEW c \in Callers, RecordHit(c) PROVE WindowInv'
  <2>1. PICK n \in 0..Cardinality(hits) :
          hits' = hits \union {[at |-> now[c], number |-> n]}
    BY <1>4 DEF RecordHit
  <2>2. clock' = clock /\ now' = now BY <1>4 DEF RecordHit
  <2>3. pc' = [pc EXCEPT ![c] = "idle"] BY <1>4 DEF RecordHit, Goto
  <2> DEFINE h == [at |-> now[c], number |-> n]
  <2>4. Cardinality(hits) \in Nat BY FS_CardinalityType DEF WindowInv, Room
  <2>5. h \in Hit BY <2>4 DEF Hit, WindowInv
  <2>6. Types' BY <2>1, <2>2, <2>3, <2>5 DEF WindowInv
  <2>7. IsFiniteSet(hits') BY <2>1, FS_AddElement DEF WindowInv, Room
  <2>8. \A d \in Callers : pc'[d] = "idle"
    BY <1>4, <2>3 DEF RecordHit, MayRun, WindowInv
  <2>9. Room' BY <2>2, <2>7, <2>8 DEF Room, WindowInv
  <2>10. Cardinality(Since(now[c] - Window)) < Rpm
    BY <1>4 DEF RecordHit, WindowInv, Room
  <2>11. now[c] - Window <= clock - Window
    BY WindowAssumption DEF WindowInv, Room
  <2>12. /\ IsFiniteSet(Since(clock - Window))
         /\ Cardinality(Since(clock - Window)) \in Nat
         /\ Cardinality(Since(clock - Window)) <= Cardinality(Since(now[c] - Window))
    BY <1>0, <2>11, LaterWindow DEF WindowInv, Room
  <2>13. Cardinality(Since(now[c] - Window)) \in Nat
    BY <1>0, LaterWindow DEF WindowInv, Room
  <2>14. Since(clock - Window)' \subseteq Since(clock - Window) \union {h}
    BY <2>1, <2>2 DEF Since
  <2>15. /\ IsFiniteSet(Since(clock - Window) \union {h})
         /\ Cardinality(Since(clock - Window) \union {h}) <= Cardinality(Since(clock - Window)) + 1
    BY <2>12, OneMore
  <2>16. /\ Cardinality(Since(clock - Window)') <= Cardinality(Since(clock - Window) \union {h})
         /\ Cardinality(Since(clock - Window)') \in Nat
         /\ Cardinality(Since(clock - Window) \union {h}) \in Nat
    BY <2>14, <2>15, FS_Subset, FS_CardinalityType
  <2>17. Fits'
    BY <2>10, <2>12, <2>13, <2>15, <2>16, RpmAssumption DEF Fits, Calls
  <2> QED BY <2>6, <2>9, <2>17 DEF WindowInv
<1>5. ASSUME Tick PROVE WindowInv'
  <2>1. clock' = clock + 1 /\ clock < MaxTime /\ hits' = hits /\ pc' = pc /\ now' = now
    BY <1>5 DEF Tick
  <2>2. Types' BY <2>1, BoundAssumption DEF WindowInv
  <2>3. Room' BY <2>1 DEF WindowInv, Room, Since
  <2>4. /\ (clock + 1) - Window \in Int /\ clock - Window <= (clock + 1) - Window
    BY WindowAssumption DEF WindowInv
  <2>5. /\ Cardinality(Since((clock + 1) - Window)) \in Nat
        /\ Cardinality(Since((clock + 1) - Window)) <= Cardinality(Since(clock - Window))
    BY <1>0, <2>4, LaterWindow DEF WindowInv, Room
  <2>6. Cardinality(Since(clock - Window)) \in Nat
    BY <1>0, LaterWindow DEF WindowInv, Room
  <2>7. Since(clock - Window)' = Since((clock + 1) - Window)
    <3>1. Since(clock - Window)' = {h \in hits' : h.at >= clock' - Window} BY DEF Since
    <3>2. clock' - Window = (clock + 1) - Window BY <2>1, Zenon
    <3>3. Since(clock - Window)' = {h \in hits : h.at >= (clock + 1) - Window}
      BY <2>1, <3>1, <3>2, Zenon
    <3> QED BY <3>3 DEF Since
  <2>8. Fits' BY <2>5, <2>6, <2>7, RpmAssumption DEF WindowInv, Fits, Calls
  <2> QED BY <2>2, <2>3, <2>8 DEF WindowInv
<1>6. ASSUME UNCHANGED vars PROVE WindowInv'
  BY <1>6 DEF WindowInv, Room, Fits, Calls, Since, vars
<1> QED BY <1>1, <1>2, <1>3, <1>4, <1>5, <1>6 DEF Next

(***************************************************************************)
(* Over a MemoryCache no window ever holds more calls than the allowance,  *)
(* however many tasks of the process call acquire (rate_limiter.py).       *)
(***************************************************************************)
THEOREM WindowHolds == Spec => []WindowBound
<1> DEFINE IInv == shared \/ WindowInv
<1>1. Init => IInv BY InitWindow
<1>2. IInv /\ [Next]_vars => IInv'
  <2>1. [Next]_vars => shared' = shared
    BY DEF Next, Acquire, CountHits, Refuse, RecordHit, Tick, vars
  <2> QED BY <2>1, StepKeepsWindow
<1>3. IInv => WindowBound BY DEF WindowInv, WindowBound, Fits
<1> QED BY <1>1, <1>2, <1>3, PTL DEF Spec

(* Over Redis.  Those about to record each counted a window with room. *)
Recording == {c \in Callers : pc[c] = "record"}

RaceTypes ==
  /\ clock \in 0..MaxTime
  /\ hits \in SUBSET Hit
  /\ IsFiniteSet(hits)
  /\ pc \in [Callers -> Steps]
  /\ now \in [Callers -> 0..MaxTime]
  /\ \A c \in Callers : now[c] <= clock

Overshoot == Callers # {} => Calls + Cardinality(Recording) <= Rpm + Cardinality(Callers) - 1

RaceInv == RaceTypes /\ Overshoot

(* How many are about to record, when one starts or stops. *)
LEMMA Recorders ==
  /\ IsFiniteSet(Recording) /\ Cardinality(Recording) \in Nat
  /\ Cardinality(Recording) <= Cardinality(Callers) /\ Cardinality(Callers) \in Nat
<1>1. Recording \in SUBSET Callers BY DEF Recording
<1> QED BY <1>1, CallersAssumption, FS_Subset, FS_CardinalityType

LEMMA RecordersAfter ==
  /\ IsFiniteSet(Recording') /\ Cardinality(Recording') \in Nat
  /\ Cardinality(Recording') <= Cardinality(Callers)
<1>1. Recording' \in SUBSET Callers BY DEF Recording
<1> QED BY <1>1, CallersAssumption, FS_Subset, FS_CardinalityType

(* The calls of a window are no more after than before. *)
LEMMA FewerCalls ==
  ASSUME RaceTypes, RaceTypes', hits' \subseteq hits, clock <= clock'
  PROVE  Calls' <= Calls /\ Calls \in Nat /\ Calls' \in Nat
<1>1. Since(clock - Window)' \subseteq Since(clock - Window) /\ Since(clock - Window) \subseteq hits
  BY WindowAssumption DEF Since, RaceTypes, Hit
<1>2. IsFiniteSet(Since(clock - Window)) BY <1>1, FS_Subset DEF RaceTypes
<1> QED BY <1>1, <1>2, FS_Subset, FS_CardinalityType DEF Calls

LEMMA RaceStarts == Init => RaceInv
<1> SUFFICES ASSUME Init PROVE RaceInv OBVIOUS
<1>1. RaceTypes BY BoundAssumption, FS_EmptySet DEF Init, RaceTypes, Steps
<1>2. Since(clock - Window) = {} /\ Recording = {} BY DEF Init, Since, Recording
<1>3. Calls = 0 /\ Cardinality(Recording) = 0 BY <1>2, FS_EmptySet DEF Calls
<1>4. Callers # {} => Cardinality(Callers) >= 1
  BY CallersAssumption, FS_EmptySet, FS_CardinalityType
<1>5. Cardinality(Callers) \in Nat BY CallersAssumption, FS_CardinalityType
<1> QED BY <1>1, <1>3, <1>4, <1>5, RpmAssumption DEF RaceInv, Overshoot

LEMMA RaceStep == RaceInv /\ [Next]_vars => RaceInv'
<1> SUFFICES ASSUME RaceInv, [Next]_vars PROVE RaceInv' OBVIOUS
<1>t. RaceTypes /\ Overshoot /\ Rpm \in Nat \ {0} BY RpmAssumption DEF RaceInv
<1>n. Cardinality(Callers) \in Nat /\ Cardinality(Recording) \in Nat BY Recorders
<1>1. ASSUME NEW c \in Callers, Acquire(c) PROVE RaceInv'
  <2>1. RaceTypes' BY <1>1, <1>t DEF RaceTypes, Acquire, Goto, Steps
  <2>2. Recording' = Recording BY <1>1, <1>t DEF Recording, Acquire, Goto, RaceTypes
  <2>3. Calls' = Calls BY <1>1 DEF Acquire, Calls, Since
  <2> QED BY <1>t, <2>1, <2>2, <2>3 DEF RaceInv, Overshoot
<1>2. ASSUME NEW c \in Callers, CountHits(c) PROVE RaceInv'
  <2>0. hits' \subseteq hits /\ clock' = clock /\ now' = now BY <1>2 DEF CountHits, Since
  <2>1. RaceTypes'
    <3>1. IsFiniteSet(hits') BY <1>t, <2>0, FS_Subset DEF RaceTypes
    <3> QED BY <1>2, <1>t, <2>0, <3>1 DEF RaceTypes, CountHits, Goto, Steps
  <2>2. Calls' <= Calls /\ Calls \in Nat /\ Calls' \in Nat BY <1>t, <2>0, <2>1, FewerCalls DEF RaceTypes
  <2>3. CASE pc'[c] = "record"
    <3>1. Cardinality(hits') < Rpm /\ hits' = Since(now[c] - Window)
      <4>1. Cardinality(hits') \in Nat BY <2>1, FS_CardinalityType DEF RaceTypes
      <4> QED BY <1>2, <1>t, <2>3, <4>1 DEF CountHits, Goto, RaceTypes
    <3>2. Calls' <= Cardinality(hits')
      <4>1. Since(clock - Window)' \in SUBSET hits' BY DEF Since
      <4> QED BY <2>1, <4>1, FS_Subset DEF Calls, RaceTypes
    <3>3. Cardinality(hits') \in Nat BY <2>1, FS_CardinalityType DEF RaceTypes
    <3>4. Calls' + Cardinality(Recording') <= Rpm + Cardinality(Callers) - 1
      BY <1>t, <1>n, <2>2, <3>1, <3>2, <3>3, RecordersAfter
    <3> QED BY <2>1, <3>4 DEF RaceInv, Overshoot
  <2>4. CASE pc'[c] # "record"
    <3>1. Recording' = Recording BY <1>2, <1>t, <2>4 DEF Recording, CountHits, Goto, RaceTypes
    <3> QED BY <1>t, <1>n, <2>1, <2>2, <3>1 DEF RaceInv, Overshoot
  <2> QED BY <2>3, <2>4
<1>3. ASSUME NEW c \in Callers, Refuse(c) PROVE RaceInv'
  <2>1. RaceTypes' BY <1>3, <1>t DEF RaceTypes, Refuse, Goto, Steps
  <2>2. Recording' = Recording BY <1>3, <1>t DEF Recording, Refuse, Goto, RaceTypes
  <2>3. Calls' = Calls BY <1>3 DEF Refuse, Calls, Since
  <2> QED BY <1>t, <2>1, <2>2, <2>3 DEF RaceInv, Overshoot
<1>4. ASSUME NEW c \in Callers, RecordHit(c) PROVE RaceInv'
  <2>1. PICK n \in 0..Cardinality(hits) : hits' = hits \union {[at |-> now[c], number |-> n]}
    BY <1>4 DEF RecordHit
  <2>2. RaceTypes'
    <3>1. IsFiniteSet(hits') BY <1>t, <2>1, OneMore DEF RaceTypes
    <3>2. [at |-> now[c], number |-> n] \in Hit
      <4>1. n \in Nat BY <1>t, <2>1, FS_CardinalityType DEF RaceTypes
      <4> QED BY <1>t, <4>1 DEF RaceTypes, Hit
    <3> QED BY <1>4, <1>t, <2>1, <3>1, <3>2 DEF RaceTypes, RecordHit, Goto, Steps
  <2>3. Calls \in Nat /\ Calls' \in Nat /\ Calls' <= Calls + 1
    <3>1. /\ Since(clock - Window)' \in SUBSET (Since(clock - Window) \union {[at |-> now[c], number |-> n]})
          /\ Since(clock - Window) \in SUBSET hits
      BY <1>4, <2>1 DEF Since, RecordHit
    <3>2. IsFiniteSet(Since(clock - Window)) BY <1>t, <3>1, FS_Subset DEF RaceTypes
    <3>3. Calls \in Nat BY <3>2, FS_CardinalityType DEF Calls
    <3>4. /\ IsFiniteSet(Since(clock - Window) \union {[at |-> now[c], number |-> n]})
          /\ Cardinality(Since(clock - Window) \union {[at |-> now[c], number |-> n]}) <= Calls + 1
      BY <3>2, OneMore DEF Calls
    <3>5. /\ Calls' \in Nat
          /\ Calls' <= Cardinality(Since(clock - Window) \union {[at |-> now[c], number |-> n]})
          /\ Cardinality(Since(clock - Window) \union {[at |-> now[c], number |-> n]}) \in Nat
      BY <3>1, <3>4, FS_Subset, FS_CardinalityType DEF Calls
    <3> QED BY <3>3, <3>4, <3>5
  <2>4. c \in Recording /\ Recording' = Recording \ {c}
    BY <1>4, <1>t DEF Recording, RecordHit, Goto, RaceTypes
  <2>5. Cardinality(Recording') = Cardinality(Recording) - 1
    BY <2>4, Recorders, FS_RemoveElement
  <2> QED BY <1>t, <1>n, <2>2, <2>3, <2>5 DEF RaceInv, Overshoot
<1>5. CASE Tick
  <2>1. RaceTypes' BY <1>5, <1>t, BoundAssumption DEF RaceTypes, Tick
  <2>2. Recording' = Recording BY <1>5 DEF Recording, Tick
  <2>3. hits' = hits /\ clock <= clock' BY <1>5, <1>t DEF Tick, RaceTypes
  <2>4. Calls' <= Calls /\ Calls \in Nat /\ Calls' \in Nat BY <1>t, <2>1, <2>3, FewerCalls
  <2> QED BY <1>t, <1>n, <2>1, <2>2, <2>4 DEF RaceInv, Overshoot
<1>6. CASE UNCHANGED vars
  <2>1. RaceTypes' BY <1>6, <1>t DEF RaceTypes, vars
  <2>2. Recording' = Recording /\ Calls' = Calls BY <1>6 DEF Recording, Calls, Since, vars
  <2> QED BY <1>t, <2>1, <2>2 DEF RaceInv, Overshoot
<1> QED BY <1>1, <1>2, <1>3, <1>4, <1>5, <1>6 DEF Next

(***************************************************************************)
(* Over a Redis cache, callers of other processes count between a count    *)
(* and the hit it allows.  A window still holds no more calls than the     *)
(* allowance and one for each caller but one (rate_limiter.py:133-147).    *)
(***************************************************************************)
THEOREM OvershootIsBounded == Spec => [](Callers # {} => OvershootBound)
<1>1. RaceInv => (Callers # {} => OvershootBound)
  <2> SUFFICES ASSUME RaceInv, Callers # {} PROVE OvershootBound OBVIOUS
  <2>1. Calls \in Nat
    <3>1. Since(clock - Window) \in SUBSET hits BY DEF Since
    <3> QED BY <3>1, FS_Subset, FS_CardinalityType DEF Calls, RaceInv, RaceTypes
  <2> QED BY <2>1, Recorders, RpmAssumption DEF RaceInv, Overshoot, OvershootBound
<1> QED BY <1>1, RaceStarts, RaceStep, PTL DEF Spec

(* What a refusal rests on: no hit is later than the instant a caller inside
   acquire read, and one about to be refused counted a full window. *)
Refusals ==
  /\ DOMAIN retry = Callers
  /\ \A h \in hits : h.at <= clock
  /\ \A c \in Callers : pc[c] # "idle" => \A h \in hits : h.at <= now[c]
  /\ \A c \in Callers : pc[c] = "oldest" => Cardinality(Since(now[c] - Window)) >= Rpm

LEMMA StepKeepsRefusals ==
  ASSUME ~ shared, WindowInv, WindowInv', Refusals, [Next]_vars PROVE Refusals'
<1>t. /\ clock \in 0..MaxTime /\ hits \in SUBSET Hit
      /\ pc \in [Callers -> Steps] /\ now \in [Callers -> 0..MaxTime]
      /\ \A c \in Callers : now[c] <= clock
      /\ \A c \in Callers : pc[c] # "idle" => \A d \in Callers \ {c} : pc[d] = "idle"
  BY DEF WindowInv, Types, Room
<1>h. \A h \in hits : h.at \in Int BY <1>t DEF Hit
<1>1. ASSUME NEW c \in Callers, Acquire(c) PROVE Refusals'
  <2>1. clock' = clock /\ hits' = hits /\ DOMAIN retry' = DOMAIN retry BY <1>1 DEF Acquire
  <2>2. now' = [now EXCEPT ![c] = clock] /\ pc' = [pc EXCEPT ![c] = "count"]
    BY <1>1 DEF Acquire, Goto
  <2>3. \A d \in Callers \ {c} : pc[d] = "idle" BY <1>1 DEF Acquire, MayRun
  <2> QED BY <1>t, <2>1, <2>2, <2>3 DEF Refusals, Steps
<1>2. ASSUME NEW c \in Callers, CountHits(c) PROVE Refusals'
  <2>1. clock' = clock /\ now' = now /\ hits' = Since(now[c] - Window) /\ retry' = retry
    BY <1>2 DEF CountHits
  <2>2. pc' = [pc EXCEPT ![c] = IF Cardinality(hits') >= Rpm THEN "oldest" ELSE "record"]
    BY <1>2 DEF CountHits, Goto
  <2>3. \A d \in Callers \ {c} : pc[d] = "idle" BY <1>2 DEF CountHits, MayRun
  <2>4. hits' \subseteq hits /\ Since(now[c] - Window)' = hits' BY <2>1 DEF Since
  <2>5. \A d \in Callers : pc'[d] # "idle" => d = c BY <1>t, <2>2, <2>3
  <2>6. pc'[c] = "oldest" => Cardinality(hits') >= Rpm
    <3>1. pc'[c] = IF Cardinality(hits') >= Rpm THEN "oldest" ELSE "record" BY <1>t, <2>2
    <3> QED BY <3>1
  <2>7. \A h \in hits' : h.at <= clock' /\ h.at <= now'[c]
    BY <1>2, <1>t, <2>1, <2>4 DEF Refusals, CountHits
  <2>8. \A d \in Callers : pc'[d] = "oldest" => Cardinality(Since(now[d] - Window)') >= Rpm
    BY <2>1, <2>4, <2>5, <2>6
  <2> QED BY <2>1, <2>5, <2>7, <2>8 DEF Refusals
<1>3. ASSUME NEW c \in Callers, Refuse(c) \/ RecordHit(c) PROVE Refusals'
  <2>1. clock' = clock /\ now' = now /\ pc' = [pc EXCEPT ![c] = "idle"] /\ pc[c] # "idle"
        /\ DOMAIN retry' = DOMAIN retry
    BY <1>3 DEF Refuse, RecordHit, Goto
  <2>2. \A d \in Callers : pc'[d] = "idle" BY <1>t, <2>1
  <2>3. \A h \in hits' : h \in hits \/ h.at = now[c]
    <3>1. CASE Refuse(c) BY <3>1 DEF Refuse
    <3>2. CASE RecordHit(c)
      <4>1. PICK n \in 0..Cardinality(hits) : hits' = hits \union {[at |-> now[c], number |-> n]}
        BY <3>2 DEF RecordHit
      <4> QED BY <4>1
    <3> QED BY <1>3, <3>1, <3>2
  <2> QED BY <1>t, <2>1, <2>2, <2>3 DEF Refusals
<1>4. CASE Tick
  <2>1. clock' = clock + 1 /\ UNCHANGED <<hits, pc, now, retry>> BY <1>4 DEF Tick
  <2> QED BY <1>t, <1>h, <2>1 DEF Refusals, Since
<1>5. CASE UNCHANGED vars BY <1>5 DEF Refusals, Since, vars
<1> QED BY <1>1, <1>2, <1>3, <1>4, <1>5 DEF Next

(* The oldest hit of a window. *)
LEMMA OldestOf ==
  ASSUME NEW T \in SUBSET Hit, T # {}
  PROVE  \E h \in T : Oldest(T) = h.at /\ \A g \in T : h.at <= g.at
<1> DEFINE Instants == {h.at : h \in T}
<1>1. Instants \in SUBSET Nat /\ Instants # {} BY DEF Hit
<1>2. \E h \in T : \A g \in T : h.at <= g.at
  <2>1. PICK m \in Instants : \A n \in Instants : m <= n BY <1>1, LeastNatural
  <2> QED BY <2>1
<1> QED BY <1>2, Zenon DEF Oldest

LEMMA RefusalsTold ==
  ASSUME ~ shared, WindowInv, Refusals, [Next]_vars, NEW c \in Callers,
         pc[c] = "oldest", pc'[c] = "idle"
  PROVE  /\ retry'[c] <= now[c] + Window
         /\ \A t \in now[c]..(retry'[c] - 1) : Cardinality(Since(t - Window)) >= Rpm
<1>t. /\ clock \in 0..MaxTime /\ hits \in SUBSET Hit /\ IsFiniteSet(hits)
      /\ pc \in [Callers -> Steps] /\ now \in [Callers -> 0..MaxTime]
  BY DEF WindowInv, Types, Room
<1>1. Refuse(c)
  <2>1. ASSUME NEW d \in Callers, d # c, Acquire(d) \/ CountHits(d) \/ Refuse(d) \/ RecordHit(d)
        PROVE FALSE
    BY <1>t, <2>1 DEF Acquire, CountHits, Refuse, RecordHit, Goto
  <2>2. ~ Tick /\ ~ UNCHANGED vars BY DEF Tick, vars
  <2>3. ~ Acquire(c) /\ ~ CountHits(c) /\ ~ RecordHit(c) BY DEF Acquire, CountHits, RecordHit
  <2> QED BY <2>1, <2>2, <2>3 DEF Next
<1>2. PICK kept : kept = Since(now[c] - Window) OBVIOUS
<1>3. kept \in SUBSET Hit /\ kept \subseteq hits /\ IsFiniteSet(kept)
  BY <1>t, <1>2, FS_Subset DEF Since
<1>4. Cardinality(kept) >= Rpm BY <1>2 DEF Refusals
<1>5. kept # {} BY <1>4, FS_EmptySet, RpmAssumption
<1>6. retry'[c] = Oldest(kept) + Window BY <1>1, <1>2, <1>5 DEF Refuse, Refusals
<1>7. PICK h \in kept : Oldest(kept) = h.at /\ \A g \in kept : h.at <= g.at
  BY <1>3, <1>5, OldestOf
<1>8. h.at \in Int /\ h.at <= now[c] BY <1>t, <1>3 DEF Hit, Refusals
<1>9. ASSUME NEW t \in now[c]..(retry'[c] - 1) PROVE Cardinality(Since(t - Window)) >= Rpm
  <2>1. t \in Int /\ t - Window < h.at
    BY <1>t, <1>6, <1>7, <1>8, WindowAssumption
  <2>2. kept \subseteq Since(t - Window) /\ Since(t - Window) \subseteq hits
    <3>1. \A g \in kept : g \in hits /\ g.at >= h.at /\ g.at \in Int BY <1>3, <1>7 DEF Hit
    <3>2. t - Window \in Int BY <2>1, WindowAssumption
    <3> QED BY <1>8, <2>1, <3>1, <3>2 DEF Since
  <2>3. Cardinality(kept) <= Cardinality(Since(t - Window)) BY <1>t, <2>2, FS_Subset
  <2>4. Cardinality(kept) \in Nat /\ Cardinality(Since(t - Window)) \in Nat
    BY <1>t, <1>3, <2>2, FS_Subset, FS_CardinalityType
  <2> QED BY <1>4, <2>3, <2>4, RpmAssumption
<1> QED BY <1>t, <1>6, <1>7, <1>8, <1>9, WindowAssumption

(***************************************************************************)
(* In one process a caller that is refused is told to wait for a window at *)
(* most, and at every instant before the one it is told the allowance is   *)
(* still used up by hits already recorded (rate_limiter.py:134-145).       *)
(***************************************************************************)
THEOREM RefusalsAreEarliest == Spec => RetryIsEarliest
<1> DEFINE IInv == shared \/ (WindowInv /\ Refusals)
<1>1. Init => IInv
  <2>1. Init => Refusals BY BoundAssumption DEF Init, Refusals
  <2> QED BY <2>1, InitWindow
<1>2. IInv /\ [Next]_vars => IInv'
  <2>1. [Next]_vars => shared' = shared
    BY DEF Next, Acquire, CountHits, Refuse, RecordHit, Tick, vars
  <2> QED BY <2>1, StepKeepsWindow, StepKeepsRefusals
<1> DEFINE Told ==
      \A c \in Callers : ~ shared /\ pc[c] = "oldest" /\ pc'[c] = "idle" =>
        /\ retry'[c] <= now[c] + Window
        /\ \A t \in now[c]..(retry'[c] - 1) : Cardinality(Since(t - Window)) >= Rpm
<1>3. IInv /\ [Next]_vars => [Told]_vars BY RefusalsTold
<1>4. IInv /\ [Next]_vars => (Told \/ UNCHANGED vars) BY <1>3
<1> QED BY <1>1, <1>2, <1>3, PTL DEF Spec, RetryIsEarliest

-----------------------------------------------------------------------------
(* The caches *)

Expiring == \E p \in Processes : step[p] = "expire"

Kinds == {"value", "counter", "hits"}

Counter == [is : {Nothing} \union (Nat \ {0}), until : {Never} \union Int]
Series == [is : [Adapters!Instants -> Nat], until : {Never} \union Int]

CacheTypes ==
  /\ instant \in Adapters!Instants
  /\ DOMAIN memory = Kinds /\ memory.counter \in Counter /\ memory.hits \in Series
  /\ DOMAIN redis = Kinds /\ redis.counter \in Counter /\ redis.hits \in Series
  /\ step \in [Processes -> {"idle", "expire"}]

(* Both series end at the same instant, or the one in memory was pruned away
   after it had ended; they agree on the window.  A hit in memory outlives the
   time to live before the series' end only in an expired series. *)
SameSeries ==
  /\ \/ memory.hits.until = redis.hits.until
     \/ memory.hits = Adapters!NoSeries /\ Adapters!LiveHits(redis.hits) = Adapters!NoHits
  /\ \A t \in Adapters!Instants :
       t >= instant - WindowWidth =>
         Adapters!LiveHits(memory.hits)[t] = Adapters!LiveHits(redis.hits)[t]
  /\ \A t \in Adapters!Instants :
       memory.hits.is[t] # 0 =>
         t <= instant /\ memory.hits.until \in Int /\ t + TimeToLive <= memory.hits.until

(* The counters are the same but for the deadline Redis has yet to be given,
   which is a time to live from now. *)
SameCounter ==
  ~ late /\ ~ died =>
    /\ \/ /\ Adapters!Live(memory.counter) = Nothing
          /\ Adapters!Live(redis.counter) = Nothing
       \/ memory.counter = redis.counter
       \/ /\ memory.counter.is = redis.counter.is
          /\ redis.counter.until = Never
          /\ memory.counter.until = instant + TimeToLive
          /\ Expiring
    /\ Expiring => \/ Adapters!Live(memory.counter) = Nothing
                   \/ memory.counter.until = instant + TimeToLive

CacheInv ==
  /\ CacheTypes
  /\ memory.value = redis.value
  /\ SameSeries
  /\ SameCounter
  /\ Adapters!CountersExpire

(* One kind is changed in an adapter: the others are what they were. *)
LEMMA OneKind ==
  ASSUME NEW m, NEW n, NEW series \in Kinds, NEW e, DOMAIN m = Kinds,
         n = [m EXCEPT ![series] = e]
  PROVE  /\ DOMAIN n = Kinds
         /\ n.value = IF series = "value" THEN e ELSE m.value
         /\ n.counter = IF series = "counter" THEN e ELSE m.counter
         /\ n.hits = IF series = "hits" THEN e ELSE m.hits
BY Zenon DEF Kinds

LEMMA EmptyFacts ==
  /\ Adapters!Empty \in Counter /\ Adapters!NoSeries \in Series
  /\ Adapters!Empty.is = Nothing /\ Adapters!Empty.until = Never
  /\ Adapters!NoSeries.is = Adapters!NoHits /\ Adapters!NoSeries.until = Never
  /\ Adapters!NoHits \in [Adapters!Instants -> Nat]
  /\ \A t \in Adapters!Instants : Adapters!NoHits[t] = 0
BY DEF Counter, Series, Adapters!Empty, Adapters!NoSeries, Adapters!NoHits

LEMMA InitCaches == Adapters!Init => CacheInv
<1> SUFFICES ASSUME Adapters!Init PROVE CacheInv
  OBVIOUS
<1>1. /\ memory.value = Adapters!Empty /\ memory.counter = Adapters!Empty
      /\ memory.hits = Adapters!NoSeries /\ DOMAIN memory = Kinds
      /\ redis = memory /\ instant = 0 /\ step = [p \in Processes |-> "idle"]
  BY DEF Adapters!Init, Kinds
<1>2. CacheTypes
  BY <1>1, EmptyFacts, CacheAssumption DEF CacheTypes, Adapters!Instants
<1>3. SameSeries
  BY <1>1, EmptyFacts DEF SameSeries
<1>4. SameCounter /\ Adapters!CountersExpire
  BY <1>1, EmptyFacts DEF SameCounter, Adapters!CountersExpire, Adapters!Live, Expiring
<1> QED BY <1>1, <1>2, <1>3, <1>4 DEF CacheInv

(* What follows of a series, of a counter, when it is left alone. *)
LEMMA SeriesAlone ==
  ASSUME CacheInv, memory'.hits = memory.hits, redis'.hits = redis.hits, instant' = instant
  PROVE  SameSeries'
BY DEF CacheInv, SameSeries, Adapters!LiveHits, Adapters!Expired

LEMMA CounterAlone ==
  ASSUME CacheInv, memory'.counter = memory.counter, redis'.counter = redis.counter,
         instant' = instant, step' = step, late' = late, died' = died
  PROVE  SameCounter' /\ Adapters!CountersExpire'
BY DEF CacheInv, SameCounter, Adapters!CountersExpire, Adapters!Live, Adapters!Expired, Expiring

LEMMA PutKeeps ==
  ASSUME CacheInv, NEW v \in Values, NEW ttl \in {Never, TimeToLive}, Adapters!Put(v, ttl)
  PROVE  CacheInv'
<1>1. PICK e : Adapters!BothSet("value", e) BY DEF Adapters!Put
<1>2. /\ instant' = instant /\ step' = step /\ late' = late /\ died' = died
  BY DEF Adapters!Put
<1>3. /\ DOMAIN memory' = Kinds /\ memory'.value = e
      /\ memory'.counter = memory.counter /\ memory'.hits = memory.hits
  BY <1>1, OneKind DEF Adapters!BothSet, CacheInv, CacheTypes, Kinds
<1>4. /\ DOMAIN redis' = Kinds /\ redis'.value = e
      /\ redis'.counter = redis.counter /\ redis'.hits = redis.hits
  BY <1>1, OneKind DEF Adapters!BothSet, CacheInv, CacheTypes, Kinds
<1>5. CacheTypes' BY <1>2, <1>3, <1>4 DEF CacheInv, CacheTypes, Adapters!Instants
<1> QED BY <1>2, <1>3, <1>4, <1>5, SeriesAlone, CounterAlone DEF CacheInv

LEMMA DeleteKeeps ==
  ASSUME CacheInv, NEW field \in Kinds, Adapters!Delete(field)
  PROVE  CacheInv'
<1>1. PICK e : /\ Adapters!BothSet(field, e)
               /\ e = IF field = "hits" THEN Adapters!NoSeries ELSE Adapters!Empty
  BY DEF Adapters!Delete
<1>2. /\ instant' = instant /\ step' = step /\ died' = died
      /\ late' = (late /\ field # "counter")
  BY DEF Adapters!Delete
<1>3. /\ DOMAIN memory' = Kinds
      /\ memory'.value = IF field = "value" THEN e ELSE memory.value
      /\ memory'.counter = IF field = "counter" THEN e ELSE memory.counter
      /\ memory'.hits = IF field = "hits" THEN e ELSE memory.hits
  BY <1>1, OneKind DEF Adapters!BothSet, CacheInv, CacheTypes
<1>4. /\ DOMAIN redis' = Kinds
      /\ redis'.value = IF field = "value" THEN e ELSE redis.value
      /\ redis'.counter = IF field = "counter" THEN e ELSE redis.counter
      /\ redis'.hits = IF field = "hits" THEN e ELSE redis.hits
  BY <1>1, OneKind DEF Adapters!BothSet, CacheInv, CacheTypes
<1>5. CacheTypes'
  BY <1>1, <1>2, <1>3, <1>4, EmptyFacts DEF CacheInv, CacheTypes, Adapters!Instants
<1>6. SameSeries'
  <2>1. CASE field = "hits"
    <3>1. memory'.hits = Adapters!NoSeries /\ redis'.hits = Adapters!NoSeries
      BY <1>1, <1>3, <1>4, <2>1
    <3> QED BY <3>1, EmptyFacts DEF SameSeries, Adapters!LiveHits, Adapters!Expired
  <2>2. CASE field # "hits" BY <1>2, <1>3, <1>4, <2>2, SeriesAlone
  <2> QED BY <2>1, <2>2
<1>7. SameCounter' /\ Adapters!CountersExpire'
  <2>1. CASE field = "counter"
    <3>1. memory'.counter = Adapters!Empty /\ redis'.counter = Adapters!Empty
      BY <1>1, <1>3, <1>4, <2>1
    <3> QED BY <3>1, EmptyFacts DEF SameCounter, Adapters!CountersExpire, Adapters!Live
  <2>2. CASE field # "counter"
    <3>1. late' <=> late BY <1>2, <2>2
    <3> QED BY <1>2, <1>3, <1>4, <2>2, <3>1
          DEF CacheInv, SameCounter, Adapters!CountersExpire, Adapters!Live,
              Adapters!Expired, Expiring
  <2> QED BY <2>1, <2>2
<1>8. memory'.value = redis'.value BY <1>3, <1>4 DEF CacheInv
<1> QED BY <1>5, <1>6, <1>7, <1>8 DEF CacheInv

(* One more of a counter. *)
LEMMA OneMoreCounted ==
  ASSUME NEW c \in Counter
  PROVE  [c EXCEPT !.is = @ + 1] = [is |-> c.is + 1, until |-> c.until]
<1>1. c = [is |-> c.is, until |-> c.until] BY DEF Counter
<1>2. \A a, b : [[is |-> a, until |-> b] EXCEPT !.is = @ + 1] = [is |-> a + 1, until |-> b]
  OBVIOUS
<1> QED BY <1>1, <1>2, Zenon

LEMMA IncrementKeeps ==
  ASSUME CacheInv, NEW p \in Processes, Adapters!Increment(p)
  PROVE  CacheInv'
<1> DEFINE M == memory.counter
           R == redis.counter
<1>1. /\ memory' = [memory EXCEPT !.counter = Adapters!Incremented(M)]
      /\ redis' = [redis EXCEPT !.counter = Adapters!Incr(R)]
      /\ step[p] = "idle"
      /\ step' = [step EXCEPT ![p] = IF redis'.counter.is = 1 THEN "expire" ELSE "idle"]
      /\ instant' = instant /\ died' = died /\ late' = late
  BY DEF Adapters!Increment, Adapters!MadeIt
<1>2. /\ DOMAIN memory' = Kinds /\ memory'.counter = Adapters!Incremented(M)
      /\ memory'.value = memory.value /\ memory'.hits = memory.hits
  BY <1>1, OneKind DEF CacheInv, CacheTypes, Kinds
<1>3. /\ DOMAIN redis' = Kinds /\ redis'.counter = Adapters!Incr(R)
      /\ redis'.value = redis.value /\ redis'.hits = redis.hits
  BY <1>1, OneKind DEF CacheInv, CacheTypes, Kinds
<1>4. M \in Counter /\ R \in Counter /\ instant \in Int
  BY DEF CacheInv, CacheTypes, Adapters!Instants
<1>5. memory'.counter = IF Adapters!Live(M) = Nothing
                         THEN [is |-> 1, until |-> instant + TimeToLive]
                         ELSE [is |-> M.is + 1, until |-> M.until]
  <2>1. [M EXCEPT !.is = @ + 1] = [is |-> M.is + 1, until |-> M.until]
    BY <1>4, OneMoreCounted
  <2> QED BY <1>2, <2>1, Zenon DEF Adapters!Incremented
<1>6. redis'.counter = IF Adapters!Live(R) = Nothing
                        THEN [is |-> 1, until |-> Never]
                        ELSE [is |-> R.is + 1, until |-> R.until]
  <2>1. [R EXCEPT !.is = @ + 1] = [is |-> R.is + 1, until |-> R.until]
    BY <1>4, OneMoreCounted
  <2> QED BY <1>3, <2>1, Zenon DEF Adapters!Incr
<1>7. memory'.counter \in Counter /\ redis'.counter \in Counter
  <2>3. Adapters!Live(M) # Nothing => M.is \in Nat \ {0}
    BY <1>4 DEF Counter, Adapters!Live
  <2>4. Adapters!Live(R) # Nothing => R.is \in Nat \ {0}
    BY <1>4 DEF Counter, Adapters!Live
  <2> QED BY <1>4, <1>5, <1>6, <2>3, <2>4, CacheAssumption DEF Counter
<1>8. /\ Adapters!Live(R) = Nothing => step'[p] = "expire"
      /\ Adapters!Live(R) # Nothing => step' = step
      /\ \A q \in Processes \ {p} : step'[q] = step[q]
      /\ step' \in [Processes -> {"idle", "expire"}]
  <2>1. Adapters!Live(R) # Nothing => R.is \in Nat \ {0}
    BY <1>4 DEF Counter, Adapters!Live
  <2>2. Adapters!Live(R) # Nothing => redis'.counter.is # 1
    BY <1>6, <2>1
  <2>3. step \in [Processes -> {"idle", "expire"}] BY DEF CacheInv, CacheTypes
  <2> QED BY <1>1, <1>6, <2>2, <2>3
<1>9. CacheTypes'
  BY <1>1, <1>2, <1>3, <1>7, <1>8 DEF CacheInv, CacheTypes, Adapters!Instants
<1>10. Adapters!CountersExpire'
  BY <1>1, <1>4, <1>6, <1>8 DEF CacheInv, Adapters!CountersExpire, Adapters!Live, Adapters!Expired
<1>11. SameCounter'
  <2> SUFFICES ASSUME ~ late, ~ died
               PROVE  /\ \/ memory'.counter = redis'.counter
                         \/ /\ memory'.counter.is = redis'.counter.is
                            /\ redis'.counter.until = Never
                            /\ memory'.counter.until = instant + TimeToLive
                            /\ Expiring'
                      /\ Expiring' => memory'.counter.until = instant + TimeToLive
    BY <1>1 DEF SameCounter
  <2>1. /\ \/ Adapters!Live(M) = Nothing /\ Adapters!Live(R) = Nothing
           \/ M = R
           \/ /\ M.is = R.is /\ R.until = Never /\ M.until = instant + TimeToLive
              /\ Expiring
        /\ Expiring => \/ Adapters!Live(M) = Nothing
                       \/ M.until = instant + TimeToLive
    BY DEF CacheInv, SameCounter
  <2>2. (Adapters!Live(M) = Nothing) <=> (Adapters!Live(R) = Nothing)
    BY <1>4, <2>1, CacheAssumption DEF Adapters!Live, Adapters!Expired
  <2>3. CASE Adapters!Live(M) = Nothing
    BY <1>5, <1>6, <1>8, <2>2, <2>3 DEF Expiring
  <2>4. CASE Adapters!Live(M) # Nothing
    <3>1. step' = step /\ (Expiring' <=> Expiring) BY <1>8, <2>2, <2>4 DEF Expiring
    <3> QED BY <1>5, <1>6, <2>1, <2>2, <2>4, <3>1
  <2> QED BY <2>3, <2>4
<1>12. SameSeries' BY <1>1, <1>2, <1>3, SeriesAlone
<1>13. memory'.value = redis'.value BY <1>2, <1>3 DEF CacheInv
<1> QED BY <1>9, <1>10, <1>11, <1>12, <1>13 DEF CacheInv

LEMMA PExpireKeeps ==
  ASSUME CacheInv, NEW p \in Processes, Adapters!PExpire(p)
  PROVE  CacheInv'
<1> DEFINE M == memory.counter
           R == redis.counter
<1>1. /\ memory' = memory /\ instant' = instant /\ died' = died /\ late' = late
      /\ step' = [step EXCEPT ![p] = "idle"] /\ step[p] = "expire"
  BY DEF Adapters!PExpire
<1>2. M \in Counter /\ R \in Counter /\ instant \in Int
  BY DEF CacheInv, CacheTypes, Adapters!Instants
<1>3. PICK e : e = [R EXCEPT !.until = instant + TimeToLive]
  OBVIOUS
<1>4. e = [is |-> R.is, until |-> instant + TimeToLive]
  BY <1>2, <1>3, Zenon DEF Counter
<1>5. redis' = IF Adapters!Live(R) = Nothing THEN redis ELSE [redis EXCEPT !.counter = e]
  BY <1>3, Zenon DEF Adapters!PExpire
<1>6. /\ DOMAIN redis' = Kinds /\ redis'.value = redis.value /\ redis'.hits = redis.hits
      /\ redis'.counter = IF Adapters!Live(R) = Nothing THEN R ELSE e
  <2>1. CASE Adapters!Live(R) = Nothing
    BY <1>5, <2>1 DEF CacheInv, CacheTypes
  <2>2. CASE Adapters!Live(R) # Nothing
    <3>1. redis' = [redis EXCEPT !.counter = e] BY <1>5, <2>2
    <3> QED BY <2>2, <3>1, OneKind DEF CacheInv, CacheTypes, Kinds
  <2> QED BY <2>1, <2>2
<1>7. e \in Counter
  BY <1>2, <1>4, CacheAssumption DEF Counter
<1>8. CacheTypes'
  BY <1>1, <1>2, <1>6, <1>7 DEF CacheInv, CacheTypes, Adapters!Instants
<1>9. Adapters!CountersExpire'
  <2>1. CASE Adapters!Live(R) = Nothing
    <3>1. R.is = Nothing \/ R.until # Never
      BY <2>1 DEF Adapters!Live, Adapters!Expired
    <3> QED BY <1>6, <2>1, <3>1 DEF Adapters!CountersExpire
  <2>2. CASE Adapters!Live(R) # Nothing
    <3>1. redis'.counter.until = instant + TimeToLive /\ instant + TimeToLive # Never
      BY <1>2, <1>4, <1>6, <2>2, CacheAssumption
    <3> QED BY <3>1 DEF Adapters!CountersExpire
  <2> QED BY <2>1, <2>2
<1>10. SameCounter'
  <2> SUFFICES ASSUME ~ late, ~ died
               PROVE  /\ \/ /\ Adapters!Live(M) = Nothing
                            /\ Adapters!Live(redis.counter)' = Nothing
                         \/ M = redis'.counter
                      /\ Expiring' => \/ Adapters!Live(M) = Nothing
                                      \/ M.until = instant + TimeToLive
    BY <1>1 DEF SameCounter, Adapters!Live, Adapters!Expired
  <2>1. Expiring BY <1>1 DEF Expiring
  <2>2. /\ \/ Adapters!Live(M) = Nothing /\ Adapters!Live(R) = Nothing
           \/ M = R
           \/ M.is = R.is /\ R.until = Never /\ M.until = instant + TimeToLive
        /\ Adapters!Live(M) = Nothing \/ M.until = instant + TimeToLive
    BY <2>1 DEF CacheInv, SameCounter
  <2>3. CASE Adapters!Live(R) = Nothing
    <3>1. redis'.counter = R BY <1>6, <2>3
    <3>2. Adapters!Live(redis.counter)' = Nothing
      BY <1>1, <2>3, <3>1 DEF Adapters!Live, Adapters!Expired
    <3>3. Adapters!Live(M) = Nothing
      BY <1>2, <2>2, <2>3, CacheAssumption DEF Adapters!Live, Adapters!Expired, Counter
    <3> QED BY <3>2, <3>3
  <2>4. CASE Adapters!Live(R) # Nothing
    <3>1. Adapters!Live(M) # Nothing /\ M.is = R.is
      BY <1>2, <2>2, <2>4, CacheAssumption DEF Adapters!Live, Adapters!Expired, Counter
    <3>2. M.until = instant + TimeToLive BY <2>2, <3>1
    <3>3. M = [is |-> M.is, until |-> M.until] BY <1>2 DEF Counter
    <3>4. M = redis'.counter BY <1>4, <1>6, <2>4, <3>1, <3>2, <3>3
    <3> QED BY <3>2, <3>4
  <2> QED BY <2>3, <2>4
<1>11. SameSeries' BY <1>1, <1>6, SeriesAlone
<1>12. memory'.value = redis'.value BY <1>1, <1>6 DEF CacheInv
<1> QED BY <1>8, <1>9, <1>10, <1>11, <1>12 DEF CacheInv

LEMMA DieKeeps ==
  ASSUME CacheInv, NEW p \in Processes, Adapters!Die(p)
  PROVE  CacheInv'
<1>1. /\ memory' = memory /\ redis' = redis /\ instant' = instant /\ died' = TRUE
      /\ step' = [step EXCEPT ![p] = "idle"]
  BY DEF Adapters!Die
<1>2. CacheTypes' BY <1>1 DEF CacheInv, CacheTypes, Adapters!Instants
<1>3. SameSeries' BY <1>1, SeriesAlone
<1> QED BY <1>1, <1>2, <1>3 DEF CacheInv, SameCounter, Adapters!CountersExpire

(* Within the window nothing that expired is missed. *)
LEMMA WindowOutlivesNothing ==
  ASSUME CacheInv, NEW t \in Adapters!Instants, t >= instant - WindowWidth
  PROVE  memory.hits.is[t] = Adapters!LiveHits(redis.hits)[t]
<1>1. /\ memory.hits \in Series /\ instant \in Int /\ t \in Int
  BY DEF CacheInv, CacheTypes, Adapters!Instants
<1>2. Adapters!LiveHits(memory.hits)[t] = Adapters!LiveHits(redis.hits)[t]
  BY DEF CacheInv, SameSeries
<1>3. CASE Adapters!Expired(memory.hits)
  <2>1. Adapters!LiveHits(memory.hits)[t] = 0 BY <1>3, EmptyFacts DEF Adapters!LiveHits
  <2>2. memory.hits.until <= instant BY <1>3 DEF Adapters!Expired
  <2>3. memory.hits.is[t] # 0 => memory.hits.until \in Int /\ t + TimeToLive <= memory.hits.until
    BY DEF CacheInv, SameSeries
  <2> QED BY <1>1, <1>2, <2>1, <2>2, <2>3, CacheAssumption
<1>4. CASE ~ Adapters!Expired(memory.hits) BY <1>2, <1>4 DEF Adapters!LiveHits
<1> QED BY <1>3, <1>4

LEMMA LiveHitsType ==
  ASSUME NEW s \in Series PROVE Adapters!LiveHits(s) \in [Adapters!Instants -> Nat]
BY EmptyFacts DEF Adapters!LiveHits, Series

LEMMA RecordHitKeeps ==
  ASSUME CacheInv, Adapters!RecordHit
  PROVE  CacheInv'
<1> DEFINE M == memory.hits
           L == Adapters!LiveHits(redis.hits)
           m == [is |-> Adapters!Recorded(M.is), until |-> instant + TimeToLive]
           r == [is |-> Adapters!Recorded(L), until |-> instant + TimeToLive]
<1>1. /\ instant' = instant /\ step' = step /\ late' = late /\ died' = died
      /\ memory' = [memory EXCEPT !.hits = m] /\ redis' = [redis EXCEPT !.hits = r]
  BY DEF Adapters!RecordHit
<1>2. /\ DOMAIN memory' = Kinds /\ memory'.hits = m
      /\ memory'.value = memory.value /\ memory'.counter = memory.counter
  BY <1>1, OneKind DEF CacheInv, CacheTypes, Kinds
<1>3. /\ DOMAIN redis' = Kinds /\ redis'.hits = r
      /\ redis'.value = redis.value /\ redis'.counter = redis.counter
  BY <1>1, OneKind DEF CacheInv, CacheTypes, Kinds
<1>4. /\ M.is \in [Adapters!Instants -> Nat] /\ L \in [Adapters!Instants -> Nat]
      /\ instant \in Adapters!Instants /\ instant \in Nat
  BY LiveHitsType DEF CacheInv, CacheTypes, Series, Adapters!Instants
<1>5. /\ Adapters!Recorded(M.is) \in [Adapters!Instants -> Nat]
      /\ Adapters!Recorded(L) \in [Adapters!Instants -> Nat]
      /\ \A t \in Adapters!Instants :
           /\ Adapters!Recorded(M.is)[t] = IF t = instant THEN M.is[t] + 1 ELSE M.is[t]
           /\ Adapters!Recorded(L)[t] = IF t = instant THEN L[t] + 1 ELSE L[t]
  BY <1>4 DEF Adapters!Recorded
<1>6. instant + TimeToLive \in Int /\ instant + TimeToLive > instant
      /\ instant + TimeToLive # Never
  BY <1>4, CacheAssumption
<1>7. m \in Series /\ r \in Series BY <1>5, <1>6 DEF Series
<1>8. CacheTypes'
  BY <1>1, <1>2, <1>3, <1>7 DEF CacheInv, CacheTypes, Adapters!Instants
<1>9. SameSeries'
  <2>1. Adapters!LiveHits(memory.hits)' = Adapters!Recorded(M.is)
    BY <1>1, <1>2, <1>4, <1>6 DEF Adapters!LiveHits, Adapters!Expired
  <2>2. Adapters!LiveHits(redis.hits)' = Adapters!Recorded(L)
    BY <1>1, <1>3, <1>4, <1>6 DEF Adapters!LiveHits, Adapters!Expired
  <2>3. \A t \in Adapters!Instants :
          t >= instant - WindowWidth => M.is[t] = L[t]
    BY WindowOutlivesNothing
  <2>4. \A t \in Adapters!Instants : t >= instant' - WindowWidth =>
          Adapters!LiveHits(memory.hits)'[t] = Adapters!LiveHits(redis.hits)'[t]
    BY <1>1, <1>5, <2>1, <2>2, <2>3
  <2>5. \A t \in Adapters!Instants : memory'.hits.is[t] # 0 =>
          /\ t <= instant' /\ memory'.hits.until \in Int
          /\ t + TimeToLive <= memory'.hits.until
    <3> SUFFICES ASSUME NEW t \in Adapters!Instants, m.is[t] # 0
                 PROVE  t <= instant
      BY <1>1, <1>2, <1>4, <1>6, CacheAssumption DEF Adapters!Instants
    <3>1. t = instant \/ M.is[t] # 0 BY <1>5
    <3>2. M.is[t] # 0 => t <= instant BY DEF CacheInv, SameSeries
    <3> QED BY <1>4, <3>1, <3>2
  <2>6. memory'.hits.until = redis'.hits.until BY <1>2, <1>3
  <2> QED BY <2>4, <2>5, <2>6 DEF SameSeries
<1>10. SameCounter' /\ Adapters!CountersExpire' BY <1>1, <1>2, <1>3, CounterAlone
<1>11. memory'.value = redis'.value BY <1>2, <1>3 DEF CacheInv
<1> QED BY <1>8, <1>9, <1>10, <1>11 DEF CacheInv

(* What is left of a series from an instant on. *)
LEMMA SinceFacts ==
  ASSUME NEW h \in [Adapters!Instants -> Nat], NEW s
  PROVE  /\ Adapters!Since(h, s) \in [Adapters!Instants -> Nat]
         /\ \A t \in Adapters!Instants :
              Adapters!Since(h, s)[t] = IF t < s THEN 0 ELSE h[t]
         /\ h = Adapters!NoHits => Adapters!Since(h, s) = h
BY DEF Adapters!Since, Adapters!NoHits

LEMMA OtherHits ==
  ASSUME NEW s \in Series, NEW h
  PROVE  [s EXCEPT !.is = h] = [is |-> h, until |-> s.until]
<1>1. s = [is |-> s.is, until |-> s.until] BY DEF Series
<1>2. \A a, b : [[is |-> a, until |-> b] EXCEPT !.is = h] = [is |-> h, until |-> b]
  OBVIOUS
<1> QED BY <1>1, <1>2, Zenon

LEMMA CountHitsKeeps ==
  ASSUME CacheInv, Adapters!CountHits
  PROVE  CacheInv'
<1> DEFINE M == memory.hits
           R == redis.hits
           from == instant - WindowWidth
           L == Adapters!LiveHits(R)
           r == [is |-> Adapters!Since(L, from), until |-> R.until]
<1>1. /\ instant' = instant /\ step' = step /\ late' = late /\ died' = died
      /\ memory' = [memory EXCEPT !.hits = Adapters!Pruned(M, from)]
  BY DEF Adapters!CountHits
<1>2. /\ M \in Series /\ R \in Series /\ L \in [Adapters!Instants -> Nat]
      /\ M.is \in [Adapters!Instants -> Nat] /\ instant \in Int
      /\ instant \in Adapters!Instants
  BY LiveHitsType DEF CacheInv, CacheTypes, Adapters!Instants, Series
<1>3. redis' = [redis EXCEPT !.hits = r]
  <2>1. [R EXCEPT !.is = Adapters!Since(L, from)] = r BY <1>2, OtherHits
  <2>2. redis' = [redis EXCEPT !.hits = [R EXCEPT !.is = Adapters!Since(L, from)]]
    BY Zenon DEF Adapters!CountHits
  <2> QED BY <2>1, <2>2
<1>4. /\ DOMAIN memory' = Kinds /\ memory'.hits = Adapters!Pruned(M, from)
      /\ memory'.value = memory.value /\ memory'.counter = memory.counter
  BY <1>1, OneKind DEF CacheInv, CacheTypes, Kinds
<1>5. /\ DOMAIN redis' = Kinds /\ redis'.hits = r
      /\ redis'.value = redis.value /\ redis'.counter = redis.counter
  BY <1>3, OneKind DEF CacheInv, CacheTypes, Kinds
<1>6. Adapters!Pruned(M, from)
        = IF Adapters!Expired(M) THEN Adapters!NoSeries
          ELSE [is |-> Adapters!Since(M.is, from), until |-> M.until]
  <2>1. [M EXCEPT !.is = Adapters!Since(M.is, from)]
          = [is |-> Adapters!Since(M.is, from), until |-> M.until]
    BY <1>2, OtherHits
  <2> QED BY <2>1, Zenon DEF Adapters!Pruned
<1>7. /\ Adapters!Since(M.is, from) \in [Adapters!Instants -> Nat]
      /\ Adapters!Since(L, from) \in [Adapters!Instants -> Nat]
      /\ \A t \in Adapters!Instants :
           /\ Adapters!Since(M.is, from)[t] = IF t < from THEN 0 ELSE M.is[t]
           /\ Adapters!Since(L, from)[t] = IF t < from THEN 0 ELSE L[t]
      /\ L = Adapters!NoHits => Adapters!Since(L, from) = Adapters!NoHits
      /\ M.is = Adapters!NoHits => Adapters!Since(M.is, from) = Adapters!NoHits
  BY <1>2, SinceFacts
<1>8. CacheTypes'
  <2>1. memory'.hits \in Series /\ redis'.hits \in Series
    BY <1>2, <1>4, <1>5, <1>6, <1>7, EmptyFacts DEF Series
  <2> QED BY <1>1, <1>4, <1>5, <2>1 DEF CacheInv, CacheTypes, Adapters!Instants
<1>9. SameSeries'
  <2>1. Adapters!LiveHits(redis.hits)'
          = IF Adapters!Expired(R) THEN Adapters!NoHits ELSE Adapters!Since(L, from)
    BY <1>1, <1>5 DEF Adapters!LiveHits, Adapters!Expired
  <2>2. Adapters!LiveHits(memory.hits)'
          = IF Adapters!Expired(M) THEN Adapters!NoHits ELSE Adapters!Since(M.is, from)
    BY <1>1, <1>4, <1>6, EmptyFacts DEF Adapters!LiveHits, Adapters!Expired
  <2>3. \/ memory'.hits.until = redis'.hits.until
        \/ memory'.hits = Adapters!NoSeries /\ Adapters!LiveHits(redis.hits)' = Adapters!NoHits
    <3>1. CASE M.until = R.until
      <4>1. Adapters!Expired(M) <=> Adapters!Expired(R) BY <3>1 DEF Adapters!Expired
      <4> QED BY <1>4, <1>5, <1>6, <2>1, <3>1, <4>1
    <3>2. CASE M = Adapters!NoSeries /\ L = Adapters!NoHits
      <4>1. ~ Adapters!Expired(M) /\ M.is = Adapters!NoHits /\ M.until = Never
        BY <3>2, EmptyFacts DEF Adapters!Expired
      <4>2. memory'.hits = Adapters!NoSeries
        BY <1>4, <1>6, <1>7, <4>1 DEF Adapters!NoSeries
      <4> QED BY <1>7, <2>1, <3>2, <4>2
    <3> QED BY <3>1, <3>2 DEF CacheInv, SameSeries
  <2>4. \A t \in Adapters!Instants : t >= instant' - WindowWidth =>
          Adapters!LiveHits(memory.hits)'[t] = Adapters!LiveHits(redis.hits)'[t]
    <3> SUFFICES ASSUME NEW t \in Adapters!Instants, t >= from
                 PROVE  Adapters!LiveHits(memory.hits)'[t] = Adapters!LiveHits(redis.hits)'[t]
      BY <1>1
    <3>1. ~ (t < from) BY <1>2, CacheAssumption DEF Adapters!Instants
    <3>2. Adapters!LiveHits(M)[t] = L[t] BY DEF CacheInv, SameSeries
    <3>3. Adapters!LiveHits(memory.hits)'[t] = Adapters!LiveHits(M)[t]
      BY <1>7, <2>2, <3>1 DEF Adapters!LiveHits
    <3>4. Adapters!LiveHits(redis.hits)'[t] = L[t]
      BY <1>7, <2>1, <3>1 DEF Adapters!LiveHits
    <3> QED BY <3>2, <3>3, <3>4
  <2>5. \A t \in Adapters!Instants : memory'.hits.is[t] # 0 =>
          /\ t <= instant' /\ memory'.hits.until \in Int
          /\ t + TimeToLive <= memory'.hits.until
    <3> SUFFICES ASSUME NEW t \in Adapters!Instants, memory'.hits.is[t] # 0
                 PROVE  /\ t <= instant /\ memory'.hits.until \in Int
                        /\ t + TimeToLive <= memory'.hits.until
      BY <1>1
    <3>1. ~ Adapters!Expired(M) BY <1>4, <1>6, EmptyFacts
    <3>2. M.is[t] # 0 /\ memory'.hits.until = M.until BY <1>4, <1>6, <1>7, <3>1
    <3> QED BY <3>2 DEF CacheInv, SameSeries
  <2> QED BY <2>3, <2>4, <2>5 DEF SameSeries
<1>10. SameCounter' /\ Adapters!CountersExpire' BY <1>1, <1>4, <1>5, CounterAlone
<1>11. memory'.value = redis'.value BY <1>4, <1>5 DEF CacheInv
<1> QED BY <1>8, <1>9, <1>10, <1>11 DEF CacheInv

LEMMA CacheTickKeeps ==
  ASSUME CacheInv, Adapters!Tick
  PROVE  CacheInv'
<1> DEFINE M == memory.hits
           R == redis.hits
<1>1. /\ memory' = memory /\ redis' = redis /\ step' = step /\ died' = died
      /\ instant < LastInstant /\ instant' = instant + 1
      /\ late' = (late \/ Expiring)
  BY DEF Adapters!Tick, Expiring
<1>2. /\ instant \in Int /\ instant' \in Adapters!Instants
      /\ memory.counter \in Counter /\ redis.counter \in Counter
      /\ M \in Series /\ R \in Series
  BY <1>1, CacheAssumption DEF CacheInv, CacheTypes, Adapters!Instants
<1>3. CacheTypes' BY <1>1, <1>2 DEF CacheInv, CacheTypes, Adapters!Instants
<1>4. SameSeries'
  <2>1. Adapters!LiveHits(R) = Adapters!NoHits => Adapters!LiveHits(redis.hits)' = Adapters!NoHits
    BY <1>1, <1>2 DEF Adapters!LiveHits, Adapters!Expired, Series
  <2>2. \A t \in Adapters!Instants : t >= instant' - WindowWidth =>
          Adapters!LiveHits(memory.hits)'[t] = Adapters!LiveHits(redis.hits)'[t]
    <3> SUFFICES ASSUME NEW t \in Adapters!Instants, t >= instant' - WindowWidth
                 PROVE  Adapters!LiveHits(memory.hits)'[t] = Adapters!LiveHits(redis.hits)'[t]
      OBVIOUS
    <3>1. CASE M.until = R.until
      <4>1. Adapters!Expired(memory.hits)' <=> Adapters!Expired(redis.hits)'
        BY <1>1, <3>1 DEF Adapters!Expired
      <4>2. Adapters!Expired(M) <=> Adapters!Expired(R) BY <3>1 DEF Adapters!Expired
      <4>3. Adapters!Expired(M) => Adapters!Expired(memory.hits)'
        BY <1>1, <1>2 DEF Adapters!Expired, Series
      <4>4. t >= instant - WindowWidth
        BY <1>1, <1>2, CacheAssumption DEF Adapters!Instants
      <4>5. Adapters!LiveHits(M)[t] = Adapters!LiveHits(R)[t]
        BY <4>4 DEF CacheInv, SameSeries
      <4> QED BY <1>1, <4>1, <4>2, <4>3, <4>5 DEF Adapters!LiveHits
    <3>2. CASE M = Adapters!NoSeries /\ Adapters!LiveHits(R) = Adapters!NoHits
      <4>1. Adapters!LiveHits(memory.hits)' = Adapters!NoHits
        BY <1>1, <3>2, EmptyFacts DEF Adapters!LiveHits, Adapters!Expired
      <4> QED BY <2>1, <3>2, <4>1
    <3> QED BY <3>1, <3>2 DEF CacheInv, SameSeries
  <2>3. \/ M.until = R.until
        \/ M = Adapters!NoSeries /\ Adapters!LiveHits(redis.hits)' = Adapters!NoHits
    BY <2>1 DEF CacheInv, SameSeries
  <2>4. \A t \in Adapters!Instants : M.is[t] # 0 =>
          /\ t <= instant' /\ M.until \in Int /\ t + TimeToLive <= M.until
    BY <1>1, <1>2 DEF CacheInv, SameSeries, Adapters!Instants
  <2> QED BY <1>1, <2>2, <2>3, <2>4 DEF SameSeries
<1>5. SameCounter'
  <2> SUFFICES ASSUME ~ late', ~ died'
               PROVE  /\ ~ Expiring'
                      /\ \/ /\ Adapters!Live(memory.counter)' = Nothing
                            /\ Adapters!Live(redis.counter)' = Nothing
                         \/ memory.counter = redis.counter
    BY <1>1 DEF SameCounter
  <2>1. ~ Expiring /\ ~ Expiring' BY <1>1 DEF Expiring
  <2>2. \/ /\ Adapters!Live(memory.counter) = Nothing
           /\ Adapters!Live(redis.counter) = Nothing
        \/ memory.counter = redis.counter
    BY <1>1, <2>1 DEF CacheInv, SameCounter
  <2>3. Adapters!Live(memory.counter) = Nothing => Adapters!Live(memory.counter)' = Nothing
    BY <1>1, <1>2 DEF Adapters!Live, Adapters!Expired, Counter
  <2>4. Adapters!Live(redis.counter) = Nothing => Adapters!Live(redis.counter)' = Nothing
    BY <1>1, <1>2 DEF Adapters!Live, Adapters!Expired, Counter
  <2> QED BY <2>1, <2>2, <2>3, <2>4
<1>6. Adapters!CountersExpire' BY <1>1 DEF CacheInv, Adapters!CountersExpire
<1>7. memory'.value = redis'.value BY <1>1 DEF CacheInv
<1> QED BY <1>3, <1>4, <1>5, <1>6, <1>7 DEF CacheInv

(* Any step of the caches. *)
LEMMA CacheStep ==
  ASSUME CacheInv, [Adapters!Next]_cacheVars PROVE CacheInv'
<1>1. CASE Adapters!Next
  BY <1>1, PutKeeps, DeleteKeeps, IncrementKeeps, PExpireKeeps, DieKeeps, RecordHitKeeps,
     CountHitsKeeps, CacheTickKeeps DEF Adapters!Next, Kinds
<1>2. CASE UNCHANGED cacheVars
  <2>1. /\ memory' = memory /\ redis' = redis /\ instant' = instant
        /\ step' = step /\ late' = late /\ died' = died
    BY <1>2 DEF cacheVars
  <2>2. CacheTypes' BY <2>1 DEF CacheInv, CacheTypes, Adapters!Instants
  <2>3. SameSeries' BY <2>1, SeriesAlone
  <2>4. SameCounter' /\ Adapters!CountersExpire' BY <2>1, CounterAlone
  <2> QED BY <2>1, <2>2, <2>3, <2>4 DEF CacheInv
<1> QED BY <1>1, <1>2

(* What the invariant says to a caller. *)
LEMMA CacheInvSaysSo == CacheInv => AdaptersAgree /\ CountersExpire
<1> SUFFICES ASSUME CacheInv PROVE Adapters!AdaptersAgree
  BY DEF CacheInv, AdaptersAgree, CountersExpire
<1>1. Adapters!Live(memory.value) = Adapters!Live(redis.value) BY DEF CacheInv
<1>2. Adapters!Since(Adapters!LiveHits(memory.hits), instant - WindowWidth)
        = Adapters!Since(Adapters!LiveHits(redis.hits), instant - WindowWidth)
  <2>1. instant \in Int BY DEF CacheInv, CacheTypes, Adapters!Instants
  <2>2. \A t \in Adapters!Instants : t < instant - WindowWidth \/ t >= instant - WindowWidth
    BY <2>1, CacheAssumption DEF Adapters!Instants
  <2> QED BY <2>2 DEF CacheInv, SameSeries, Adapters!Since
<1>3. (\A p \in Processes : step[p] = "idle") /\ ~ late /\ ~ died
        => Adapters!Live(memory.counter) = Adapters!Live(redis.counter)
  BY DEF CacheInv, SameCounter, Expiring
<1> QED BY <1>1, <1>2, <1>3 DEF Adapters!AdaptersAgree

(***************************************************************************)
(* A caller cannot tell the cache adapters apart, and a counter decays     *)
(* unless its maker died, for any number of processes, any time to live    *)
(* longer than the window, any clock and any count                         *)
(* (memory.py:77-131, redis.py:110-164).                                   *)
(***************************************************************************)
THEOREM CachesAgree == Adapters!Spec => [](AdaptersAgree /\ CountersExpire)
<1>1. Adapters!Init => CacheInv BY InitCaches
<1>2. CacheInv /\ [Adapters!Next]_(Adapters!vars) => CacheInv'
  BY CacheStep DEF Adapters!vars, cacheVars
<1>3. CacheInv => AdaptersAgree /\ CountersExpire BY CacheInvSaysSo
<1> QED BY <1>1, <1>2, <1>3, PTL DEF Adapters!Spec

-----------------------------------------------------------------------------
(* Retrying *)

(* The backoff is a number of percents before any attempt. *)
LEMMA BackoffType == \A n \in Nat : Retrying!Backoff[n] \in Nat
<1> DEFINE Step == [i \in Nat |-> [d \in Nat |-> Multiplier * d]]
           Meant(f) == f = [n \in Nat |-> IF n = 0 THEN 100 ELSE Multiplier * f[n - 1]]
<1>1. Multiplier \in Nat /\ 100 \in Nat BY RetryAssumption
<1>2. Step \in [Nat -> [Nat -> Nat]]
  <2>1. \A a, b \in Nat : a * b \in Nat OBVIOUS
  <2> QED BY <1>1, <2>1
<1>3. PICK f : Iterating(f, Nat, 100, Step)
  <2> HIDE DEF Step
  <2> QED BY <1>1, <1>2, Iterates
<1>4. f \in [Nat -> Nat] /\ f[0] = 100 /\ \A n \in Nat : f[n + 1] = Multiplier * f[n]
  BY <1>3 DEF Iterating
<1>5. Meant(f)
  <2> SUFFICES ASSUME NEW n \in Nat
               PROVE  f[n] = IF n = 0 THEN 100 ELSE Multiplier * f[n - 1]
    BY <1>4
  <2>1. CASE n = 0 BY <1>4, <2>1
  <2>2. CASE n # 0
    <3>1. n - 1 \in Nat /\ (n - 1) + 1 = n BY <2>2
    <3>2. f[(n - 1) + 1] = Multiplier * f[n - 1] BY <1>4, <3>1
    <3> QED BY <2>2, <3>1, <3>2
  <2> QED BY <2>1, <2>2
<1>6. Meant(Retrying!Backoff)
  <2>1. Retrying!Backoff = CHOOSE g : Meant(g) BY DEF Retrying!Backoff
  <2> HIDE DEF Meant
  <2> QED BY <1>5, <2>1
<1> DEFINE P == {n \in Nat : Retrying!Backoff[n] \in Nat}
<1>7. 0 \in P BY <1>6
<1>8. ASSUME NEW n \in P PROVE n + 1 \in P
  <2>1. n + 1 \in Nat /\ n + 1 # 0 /\ (n + 1) - 1 = n OBVIOUS
  <2>2. Retrying!Backoff[n + 1] = Multiplier * Retrying!Backoff[n] BY <1>6, <2>1
  <2>3. \A a, b \in Nat : a * b \in Nat OBVIOUS
  <2> QED BY <1>1, <2>1, <2>2, <2>3
<1>9. P \in SUBSET Nat OBVIOUS
<1> HIDE DEF P
<1>10. P = Nat BY <1>7, <1>8, <1>9, Inductive
<1> QED BY <1>10 DEF P

(* A larger number of percents is more of the same jitter. *)
LEMMA MoreOfTheSame ==
  ASSUME NEW a \in Int, NEW b \in Int, NEW c \in Nat, a <= b
  PROVE  a * c <= b * c
OBVIOUS

(* No pause outgrows the cap by more than the jitter. *)
LEMMA DelayBounded ==
  ASSUME NEW n \in Nat, jitter \in 0..100, NEW d \in Retrying!Delays(n)
  PROVE  d \in Int /\ 100 * d <= MaxDelay * (100 + jitter)
<1> DEFINE base == Retrying!BaseDelay(n)
<1>1. Retrying!Backoff[n] \in Nat /\ MaxDelay \in Nat BY BackoffType, RetryAssumption
<1>2. base \in Int /\ base <= MaxDelay
  BY <1>1 DEF Retrying!BaseDelay, Retrying!Smaller
<1>3. d \in Int /\ 100 * (d - base) \in (-(jitter * base))..(jitter * base)
  BY <1>2 DEF Retrying!Delays
<1> HIDE DEF base
<1>4. jitter * base \in Int /\ 100 + jitter \in Nat BY <1>2
<1>5. 100 * d <= 100 * base + jitter * base BY <1>2, <1>3, <1>4
<1>6. base * (100 + jitter) = 100 * base + jitter * base BY <1>2
<1>7. base * (100 + jitter) <= MaxDelay * (100 + jitter)
  BY <1>1, <1>2, <1>4, MoreOfTheSame
<1>8. MaxDelay * (100 + jitter) \in Int /\ base * (100 + jitter) \in Int BY <1>1, <1>2, <1>4
<1> QED BY <1>3, <1>5, <1>6, <1>7, <1>8

Ends == {"value", "other", "retryable"}

(* A call that is still running failed in a way to be retried each time, and
   slept after each; one that is not has no attempt open. *)
RetryInv ==
  /\ maxRetries \in Nat /\ jitter \in 0..100 /\ attempt \in Nat
  /\ outcomes \in Seq(Ends) /\ delays \in Seq(Int)
  /\ attempt \in Len(outcomes)..(Len(outcomes) + 1) /\ attempt <= maxRetries + 1
  /\ attempt > Len(outcomes) => result = "running"
  /\ result = "running" =>
       Len(delays) = Len(outcomes) /\ \A i \in DOMAIN outcomes : outcomes[i] = "retryable"
  /\ Retrying!RetryKeepsItsPromise

LEMMA RetryStep ==
  ASSUME RetryInv, [Retrying!Next]_retryVars PROVE RetryInv'
<1> DEFINE Promise == Retrying!RetryKeepsItsPromise
<1>1. CASE Retrying!Call
  BY <1>1 DEF RetryInv, Retrying!Call, Retrying!TotalAttempts, Retrying!RetryKeepsItsPromise
<1>2. ASSUME NEW o \in Ends, outcomes' = Append(outcomes, o), attempt > Len(outcomes),
             attempt' = attempt, maxRetries' = maxRetries, jitter' = jitter
      PROVE  /\ outcomes' \in Seq(Ends) /\ Len(outcomes') = Len(outcomes) + 1
             /\ attempt' = Len(outcomes') /\ Len(outcomes') <= maxRetries + 1
             /\ outcomes'[Len(outcomes')] = o
             /\ \A i \in DOMAIN outcomes' : i # Len(outcomes') => outcomes'[i] = "retryable"
             /\ result = "running" /\ Len(delays) = Len(outcomes)
  <2>1. result = "running" /\ Len(delays) = Len(outcomes) BY <1>2 DEF RetryInv
  <2>2. \A i \in DOMAIN outcomes : outcomes[i] = "retryable" BY <2>1 DEF RetryInv
  <2> QED BY <1>2, <2>1, <2>2 DEF RetryInv
<1>3. CASE Retrying!Succeed
  <2>1. delays' = delays /\ result' = "value" BY <1>3 DEF Retrying!Succeed
  <2> QED BY <1>2, <1>3, <2>1
        DEF RetryInv, Retrying!Succeed, Retrying!RetryKeepsItsPromise, Ends
<1>4. CASE Retrying!Propagate
  <2>1. delays' = delays /\ result' = "other" BY <1>4 DEF Retrying!Propagate
  <2> QED BY <1>2, <1>4, <2>1
        DEF RetryInv, Retrying!Propagate, Retrying!RetryKeepsItsPromise, Ends
<1>5. CASE Retrying!Fail
  <2>1. /\ outcomes' = Append(outcomes, "retryable") /\ attempt > Len(outcomes)
        /\ attempt' = attempt /\ maxRetries' = maxRetries /\ jitter' = jitter
    BY <1>5 DEF Retrying!Fail
  <2>2. /\ outcomes' \in Seq(Ends) /\ Len(outcomes') = Len(outcomes) + 1
        /\ attempt' = Len(outcomes') /\ Len(outcomes') <= maxRetries + 1
        /\ \A i \in DOMAIN outcomes' : outcomes'[i] = "retryable"
        /\ result = "running" /\ Len(delays) = Len(outcomes)
    BY <1>2, <2>1 DEF Ends
  <2>3. CASE attempt < maxRetries + 1
    <3>1. PICK d \in Retrying!Delays(attempt - 1) : delays' = Append(delays, d)
      BY <1>5, <2>3 DEF Retrying!Fail, Retrying!TotalAttempts
    <3>2. result' = result BY <1>5, <2>3 DEF Retrying!Fail, Retrying!TotalAttempts
    <3>3. d \in Int /\ 100 * d <= MaxDelay * (100 + jitter)
      <4>1. attempt - 1 \in Nat BY <2>1 DEF RetryInv
      <4> QED BY <3>1, <4>1, DelayBounded DEF RetryInv
    <3>4. /\ delays' \in Seq(Int) /\ Len(delays') = Len(outcomes')
          /\ \A i \in DOMAIN delays' : 100 * delays'[i] <= MaxDelay * (100 + jitter)
      BY <2>2, <3>1, <3>3 DEF RetryInv, Retrying!RetryKeepsItsPromise
    <3> QED BY <2>1, <2>2, <3>2, <3>4 DEF RetryInv, Retrying!RetryKeepsItsPromise
  <2>4. CASE ~ (attempt < maxRetries + 1)
    <3>1. delays' = delays /\ result' = "exhausted"
      BY <1>5, <2>4 DEF Retrying!Fail, Retrying!TotalAttempts
    <3> QED BY <2>1, <2>2, <2>4, <3>1 DEF RetryInv, Retrying!RetryKeepsItsPromise
  <2> QED BY <2>3, <2>4
<1>6. CASE Retrying!CancelSleep
  <2>1. /\ maxRetries' = maxRetries /\ jitter' = jitter /\ attempt' = attempt
        /\ outcomes' = outcomes /\ delays' = delays /\ result' = "other"
        /\ attempt = Len(outcomes)
    BY <1>6 DEF Retrying!CancelSleep
  <2>2. Promise' BY <2>1 DEF RetryInv, Retrying!RetryKeepsItsPromise
  <2>3. ~ (attempt > Len(outcomes)) BY <2>1 DEF RetryInv
  <2> QED BY <2>1, <2>2, <2>3 DEF RetryInv
<1>7. CASE UNCHANGED retryVars
  BY <1>7 DEF RetryInv, retryVars, Retrying!RetryKeepsItsPromise
<1> QED BY <1>1, <1>3, <1>4, <1>5, <1>6, <1>7 DEF Retrying!Next

LEMMA InitRetry == Retrying!Init => RetryInv
BY RetryAssumption DEF Retrying!Init, RetryInv, Retrying!RetryKeepsItsPromise

(***************************************************************************)
(* The caller gets the first answer, RetryExhausted only after one failure *)
(* more than retries are allowed, and no pause outgrows the cap by more    *)
(* than the jitter, for any policy the constructor accepts                 *)
(* (retry.py:172-191, 258-304).                                            *)
(***************************************************************************)
THEOREM RetryPromise == Retrying!Spec => []RetryKeepsItsPromise
<1>1. Retrying!Init => RetryInv BY InitRetry
<1>2. RetryInv /\ [Retrying!Next]_(Retrying!vars) => RetryInv'
  BY RetryStep DEF Retrying!vars, retryVars
<1>3. RetryInv => RetryKeepsItsPromise BY DEF RetryInv, RetryKeepsItsPromise
<1> QED BY <1>1, <1>2, <1>3, PTL DEF Retrying!Spec

-----------------------------------------------------------------------------
(* The circuit breaker of one process *)

(* What a transition still has to write, and the states it can be in then. *)
OpeningLeft == {<<"state:open", "opened_at:now", "-calls">>}
OpenedLeft == {<<"opened_at:now", "-calls">>}
HalfOpeningLeft == {<<"-calls", "state:half_open">>, <<"state:half_open">>}
ClosingLeft == {<<"state:closed", "-failures", "-opened_at", "-calls">>}
ClosedLeft == {<<"-failures", "-opened_at", "-calls">>, <<"-opened_at", "-calls">>, <<"-failures">>}
EndingLeft == {<<"-calls">>}

MayBeLeft ==
  {left \in OpeningLeft : state \in {"closed", "half_open"}}
    \union {left \in OpenedLeft : state = "open"}
    \union {left \in HalfOpeningLeft :
               state = "open" /\ (left = <<"state:half_open">> => calls = 0)}
    \union ClosingLeft
    \union {left \in ClosedLeft : state = "closed"}
    \union {left \in EndingLeft : state \in {"open", "closed"}}

BreakerTypes ==
  /\ state \in {"closed", "open", "half_open"}
  /\ calls \in Nat
  /\ breakerPc \in [Workers -> Breaker!Steps]
  /\ DOMAIN writes = Workers
  /\ probes \subseteq Workers

(* Nobody is interrupted inside a method, and a method is where it is for the
   state it read. *)
Methods ==
  /\ \A v, w \in Workers : v # w => breakerPc[v] \in Breaker!Outside \/ breakerPc[w] \in Breaker!Outside
  /\ \A w \in Workers :
       /\ breakerPc[w] = "check" => state = "open"
       /\ breakerPc[w] = "admit" => state = "half_open"
       /\ breakerPc[w] = "count" => state = "closed"
       /\ breakerPc[w] = "write" => writes[w] \in MayBeLeft

(* While the circuit is half-open, as many calls were counted as were admitted
   or more, one at least if any was; and each of those admitted is in flight or
   being reported, unless one was lost. *)
Probing ==
  /\ Cardinality(probes) <= MaxProbes
  /\ state = "half_open" =>
       /\ Cardinality(probes) <= calls
       /\ probes = {} => calls = 0
       /\ ~ lost => \A w \in probes :
                      breakerPc[w] \in {"calling", "succeeded", "failed", "write"}

BreakerInv == BreakerTypes /\ Methods /\ Probing

LEMMA ProbesFinite ==
  ASSUME probes \subseteq Workers
  PROVE  IsFiniteSet(probes) /\ Cardinality(probes) \in Nat
BY BreakerAssumption, FS_Subset, FS_CardinalityType

LEMMA BreakerStarts == Breaker!Init => BreakerInv
<1> SUFFICES ASSUME Breaker!Init PROVE BreakerInv OBVIOUS
<1>1. Cardinality(probes) = 0 BY FS_EmptySet DEF Breaker!Init
<1> QED BY <1>1, BreakerAssumption
        DEF Breaker!Init, BreakerInv, BreakerTypes, Methods, Probing, Breaker!Steps, Breaker!Outside

(* A step of one worker that nobody is inside a method beside. *)
LEMMA OneMoves ==
  ASSUME BreakerInv, NEW w \in Workers, NEW to \in Breaker!Steps,
         \A v \in Workers \ {w} : breakerPc[v] \in Breaker!Outside,
         breakerPc' = [breakerPc EXCEPT ![w] = to],
         state' \in {"closed", "open", "half_open"}, calls' \in Nat, probes' \subseteq Workers,
         DOMAIN writes' = Workers,
         to = "check" => state' = "open", to = "admit" => state' = "half_open",
         to = "count" => state' = "closed", to = "write" => writes'[w] \in MayBeLeft',
         Probing'
  PROVE  BreakerInv'
<1>1. BreakerTypes' BY DEF BreakerInv, BreakerTypes
<1>2. \A v \in Workers \ {w} : breakerPc'[v] = breakerPc[v]
  BY DEF BreakerInv, BreakerTypes
<1>3. breakerPc'[w] = to BY DEF BreakerInv, BreakerTypes
<1>4. \A v \in Workers \ {w} : breakerPc'[v] \notin {"check", "admit", "count", "write"}
  BY <1>2 DEF Breaker!Outside
<1>5. \A v \in Workers \ {w} : breakerPc'[v] \in Breaker!Outside BY <1>2
<1>6. \A v, u \in Workers : v # u =>
        breakerPc'[v] \in Breaker!Outside \/ breakerPc'[u] \in Breaker!Outside
  BY <1>5
<1>7. \A v \in Workers :
        /\ breakerPc'[v] = "check" => state' = "open"
        /\ breakerPc'[v] = "admit" => state' = "half_open"
        /\ breakerPc'[v] = "count" => state' = "closed"
        /\ breakerPc'[v] = "write" => writes'[v] \in MayBeLeft'
  BY <1>3, <1>4
<1>8. Methods' BY <1>6, <1>7 DEF Methods
<1> QED BY <1>1, <1>8 DEF BreakerInv

(* One that leaves the circuit and its probes alone. *)
LEMMA QuietStep ==
  ASSUME BreakerInv, NEW w \in Workers, NEW to \in Breaker!Steps,
         \A v \in Workers \ {w} : breakerPc[v] \in Breaker!Outside,
         breakerPc' = [breakerPc EXCEPT ![w] = to],
         UNCHANGED <<state, calls, probes>>, lost => lost', DOMAIN writes' = Workers,
         to = "check" => state = "open", to = "admit" => state = "half_open",
         to = "count" => state = "closed", to = "write" => writes'[w] \in MayBeLeft,
         state = "half_open" /\ ~ lost' /\ w \in probes
           => to \in {"calling", "succeeded", "failed", "write"}
  PROVE  BreakerInv'
<1>1. \A v \in Workers \ {w} : breakerPc'[v] = breakerPc[v]
  BY DEF BreakerInv, BreakerTypes
<1>2. breakerPc'[w] = to BY DEF BreakerInv, BreakerTypes
<1>3. MayBeLeft' = MayBeLeft
  BY DEF MayBeLeft, OpeningLeft, OpenedLeft, HalfOpeningLeft, ClosingLeft, ClosedLeft, EndingLeft
<1>4. Probing' BY <1>1, <1>2 DEF BreakerInv, Probing
<1>5. state' \in {"closed", "open", "half_open"} /\ calls' \in Nat /\ probes' \subseteq Workers
  BY DEF BreakerInv, BreakerTypes
<1> QED BY <1>3, <1>4, <1>5, OneMoves

(* The ends of the lists of writes. *)
LEMMA WriteLists ==
  /\ \A a : Head(<<a>>) = a /\ Tail(<<a>>) = <<>> /\ Len(<<a>>) = 1
  /\ \A a, b : Head(<<a, b>>) = a /\ Tail(<<a, b>>) = <<b>> /\ Len(<<a, b>>) = 2
  /\ \A a, b, c : Head(<<a, b, c>>) = a /\ Tail(<<a, b, c>>) = <<b, c>> /\ Len(<<a, b, c>>) = 3
  /\ \A a, b, c, d : /\ Head(<<a, b, c, d>>) = a /\ Tail(<<a, b, c, d>>) = <<b, c, d>>
                     /\ Len(<<a, b, c, d>>) = 4
OBVIOUS

(* A write of one worker, after which it still has writes to make or has none. *)
LEMMA WriteStep ==
  ASSUME BreakerInv, NEW w \in Workers, Breaker!Write(w),
         \A v \in Workers \ {w} : breakerPc[v] \in Breaker!Outside
  PROVE  BreakerInv' /\ (Head(writes[w]) = "state:open" => state # "open")
<1> DEFINE left == writes[w]
           wrote == Head(left)
           to == IF Len(left) > 1 THEN "write" ELSE IF wrote = "state:half_open" THEN "admit" ELSE "idle"
<1>1. /\ breakerPc[w] = "write"
      /\ breakerPc' = [breakerPc EXCEPT ![w] = to]
      /\ writes' = [writes EXCEPT ![w] = Tail(@)]
      /\ calls' = IF wrote = "-calls" THEN 0 ELSE calls
      /\ wrote = "state:open" => state' = "open"
      /\ wrote = "state:half_open" => state' = "half_open" /\ probes' = {}
      /\ wrote = "state:closed" => state' = "closed"
      /\ wrote \notin {"state:open", "state:half_open", "state:closed"} => state' = state
      /\ wrote # "state:half_open" => probes' = probes
  BY DEF Breaker!Write, Breaker!Goto, Breaker!history
<1>2. DOMAIN writes' = Workers /\ writes'[w] = Tail(left)
  BY <1>1 DEF BreakerInv, BreakerTypes
<1>3. left \in MayBeLeft BY <1>1 DEF BreakerInv, Methods
<1>4. to \in Breaker!Steps /\ to \in {"write", "admit", "idle"} BY DEF Breaker!Steps, Breaker!Outside
<1>5. calls' \in Nat /\ state' \in {"closed", "open", "half_open"} /\ probes' \subseteq Workers
  BY <1>1 DEF BreakerInv, BreakerTypes
<1>6. Cardinality(probes') <= MaxProbes
  <2>1. probes' = {} => Cardinality(probes') = 0 BY FS_EmptySet
  <2>2. probes' = {} \/ probes' = probes BY <1>1
  <2> HIDE DEF to, left, wrote
  <2> QED BY <2>1, <2>2, BreakerAssumption DEF BreakerInv, Probing
<1>7. ASSUME to = "write" => writes'[w] \in MayBeLeft',
             to = "admit" => state' = "half_open",
             state' = "half_open" => probes' = {} /\ calls' = 0
      PROVE  BreakerInv'
  <2>1. probes' = {} => Cardinality(probes') = 0 BY FS_EmptySet
  <2> HIDE DEF to, left, wrote
  <2>2. Probing' BY <1>6, <1>7, <2>1 DEF Probing
  <2> QED BY <1>1, <1>2, <1>4, <1>5, <1>7, <2>2, OneMoves
<1>8. CASE left = <<"state:open", "opened_at:now", "-calls">> /\ state \in {"closed", "half_open"}
  <2>1. wrote = "state:open" /\ to = "write" /\ Tail(left) = <<"opened_at:now", "-calls">>
    BY <1>8, WriteLists
  <2>2. Tail(left) \in MayBeLeft' BY <1>1, <2>1 DEF MayBeLeft, OpenedLeft
  <2> QED BY <1>1, <1>2, <1>7, <1>8, <2>1, <2>2
<1>9. CASE left = <<"opened_at:now", "-calls">> /\ state = "open"
  <2>1. wrote = "opened_at:now" /\ to = "write" /\ Tail(left) = <<"-calls">>
    BY <1>9, WriteLists
  <2>2. Tail(left) \in MayBeLeft' BY <1>1, <1>9, <2>1 DEF MayBeLeft, EndingLeft
  <2> QED BY <1>1, <1>2, <1>7, <1>9, <2>1, <2>2
<1>10. CASE left = <<"-calls", "state:half_open">> /\ state = "open"
  <2>1. wrote = "-calls" /\ to = "write" /\ Tail(left) = <<"state:half_open">>
    BY <1>10, WriteLists
  <2>2. Tail(left) \in MayBeLeft' BY <1>1, <1>10, <2>1 DEF MayBeLeft, HalfOpeningLeft
  <2> QED BY <1>1, <1>2, <1>7, <1>10, <2>1, <2>2
<1>11. CASE left = <<"state:half_open">> /\ state = "open" /\ calls = 0
  <2>1. wrote = "state:half_open" /\ to = "admit" BY <1>11, WriteLists
  <2> QED BY <1>1, <1>7, <1>11, <2>1
<1>12. CASE left = <<"state:closed", "-failures", "-opened_at", "-calls">>
  <2>1. wrote = "state:closed" /\ to = "write" /\ Tail(left) = <<"-failures", "-opened_at", "-calls">>
    BY <1>12, WriteLists
  <2>2. Tail(left) \in MayBeLeft' BY <1>1, <2>1 DEF MayBeLeft, ClosedLeft
  <2> QED BY <1>1, <1>2, <1>7, <2>1, <2>2
<1>13. CASE left = <<"-failures", "-opened_at", "-calls">> /\ state = "closed"
  <2>1. wrote = "-failures" /\ to = "write" /\ Tail(left) = <<"-opened_at", "-calls">>
    BY <1>13, WriteLists
  <2>2. Tail(left) \in MayBeLeft' BY <1>1, <1>13, <2>1 DEF MayBeLeft, ClosedLeft
  <2> QED BY <1>1, <1>2, <1>7, <1>13, <2>1, <2>2
<1>14. CASE left = <<"-opened_at", "-calls">> /\ state = "closed"
  <2>1. wrote = "-opened_at" /\ to = "write" /\ Tail(left) = <<"-calls">>
    BY <1>14, WriteLists
  <2>2. Tail(left) \in MayBeLeft' BY <1>1, <1>14, <2>1 DEF MayBeLeft, EndingLeft
  <2> QED BY <1>1, <1>2, <1>7, <1>14, <2>1, <2>2
<1>15. CASE left = <<"-failures">> /\ state = "closed"
  <2>1. wrote = "-failures" /\ to = "idle" BY <1>15, WriteLists
  <2> QED BY <1>1, <1>7, <1>15, <2>1
<1>16. CASE left = <<"-calls">> /\ state \in {"open", "closed"}
  <2>1. wrote = "-calls" /\ to = "idle" BY <1>16, WriteLists
  <2> QED BY <1>1, <1>7, <1>16, <2>1
<1> HIDE DEF to, left, wrote
<1> QED BY <1>3, <1>8, <1>9, <1>10, <1>11, <1>12, <1>13, <1>14, <1>15, <1>16
        DEF MayBeLeft, OpeningLeft, OpenedLeft, HalfOpeningLeft, ClosingLeft, ClosedLeft, EndingLeft

(* A step that may leave one worker somewhere else; only the wall clock moves
   without one. *)
LEMMA BreakerStep ==
  ASSUME ~ Shared, BreakerInv, [Breaker!Next]_breakerVars
  PROVE  /\ BreakerInv'
         /\ \A w \in Workers :
              breakerPc[w] = "write" /\ Head(writes[w]) = "state:open" /\ writes'[w] # writes[w]
                => state # "open"
<1> DEFINE Calm == \A w \in Workers :
             breakerPc[w] = "write" /\ Head(writes[w]) = "state:open" /\ writes'[w] # writes[w]
               => state # "open"
<1>1. CASE UNCHANGED <<state, calls, breakerPc, writes, probes, lost>>
  <2>1. MayBeLeft' = MayBeLeft
    BY <1>1 DEF MayBeLeft, OpeningLeft, OpenedLeft, HalfOpeningLeft, ClosingLeft, ClosedLeft, EndingLeft
  <2>2. BreakerTypes' BY <1>1 DEF BreakerInv, BreakerTypes
  <2>3. Methods' BY <1>1, <2>1 DEF BreakerInv, Methods
  <2>4. Probing' BY <1>1 DEF BreakerInv, Probing
  <2> QED BY <1>1, <2>2, <2>3, <2>4 DEF BreakerInv
<1>2. CASE Breaker!Elapse BY <1>1, <1>2 DEF Breaker!Elapse, Breaker!history
<1>3. CASE UNCHANGED breakerVars BY <1>1, <1>3 DEF breakerVars
<1>4. ASSUME NEW w \in Workers,
             Breaker!Ask(w) \/ Breaker!Continue(w) \/ Breaker!Reset(w) \/ Breaker!Abandon(w)
      PROVE  BreakerInv' /\ Calm
  <2>1. \A v \in Workers \ {w} : breakerPc[v] \in Breaker!Outside
    BY <1>4 DEF Breaker!Ask, Breaker!Continue, Breaker!Reset, Breaker!Abandon, Breaker!CheckRecovery,
                Breaker!Admit, Breaker!Answer, Breaker!RecordSuccess, Breaker!RecordFailure,
                Breaker!CountFailure, Breaker!Write, Breaker!MayRun
  <2>2. \A v \in Workers \ {w} : breakerPc[v] # "write" BY <2>1 DEF Breaker!Outside
  <2>3. ASSUME breakerPc[w] # "write" PROVE Calm BY <2>2, <2>3
  <2>4. CASE Breaker!Ask(w)
    <3>1. breakerPc[w] = "idle" /\ UNCHANGED <<state, calls, probes, lost, writes>>
      BY <2>4 DEF Breaker!Ask, Breaker!cache, Breaker!history
    <3>2. PICK to \in {"calling", "check", "admit"} :
            /\ breakerPc' = [breakerPc EXCEPT ![w] = to]
            /\ to = "check" => state = "open"
            /\ to = "admit" => state = "half_open"
      BY <2>4 DEF Breaker!Ask, Breaker!Goto, BreakerInv, BreakerTypes
    <3>3. state = "half_open" /\ ~ lost => w \notin probes BY <3>1 DEF BreakerInv, Probing
    <3>4. to \in Breaker!Steps /\ DOMAIN writes' = Workers
      BY <3>1 DEF Breaker!Steps, Breaker!Outside, BreakerInv, BreakerTypes
    <3>5. BreakerInv' BY <2>1, <3>1, <3>2, <3>3, <3>4, QuietStep
    <3> QED BY <2>3, <3>1, <3>5
  <2>5. CASE Breaker!CheckRecovery(w)
    <3>1. breakerPc[w] = "check" /\ UNCHANGED <<state, calls, probes, lost>>
      BY <2>5 DEF Breaker!CheckRecovery, Breaker!cache, Breaker!history
    <3>2. state = "open" BY <3>1 DEF BreakerInv, Methods
    <3>3. PICK to \in {"idle", "write"} :
            /\ breakerPc' = [breakerPc EXCEPT ![w] = to]
            /\ DOMAIN writes' = Workers
            /\ to = "write" => writes'[w] = <<"-calls", "state:half_open">>
      BY <2>5 DEF Breaker!CheckRecovery, Breaker!Begin, Breaker!Goto, Breaker!HalfOpenWrites,
                  BreakerInv, BreakerTypes
    <3>4. to \in Breaker!Steps BY DEF Breaker!Steps, Breaker!Outside
    <3>5. to = "write" => writes'[w] \in MayBeLeft
      <4>1. <<"-calls", "state:half_open">> # <<"state:half_open">>
        OBVIOUS
      <4> QED BY <3>2, <3>3, <4>1 DEF MayBeLeft, HalfOpeningLeft
    <3>6. BreakerInv' BY <2>1, <3>1, <3>2, <3>3, <3>4, <3>5, QuietStep
    <3> QED BY <2>3, <3>1, <3>6
  <2>6. CASE Breaker!Admit(w)
    <3>1. /\ breakerPc[w] = "admit" /\ state' = state /\ calls' = calls + 1
          /\ UNCHANGED <<writes, lost>>
      BY <2>6 DEF Breaker!Admit
    <3>2. state = "half_open" /\ calls \in Nat /\ DOMAIN writes' = Workers
      BY <3>1 DEF BreakerInv, Methods, BreakerTypes
    <3>3. IsFiniteSet(probes) /\ Cardinality(probes) \in Nat BY ProbesFinite DEF BreakerInv, BreakerTypes
    <3>4. ~ lost => w \notin probes BY <3>1, <3>2 DEF BreakerInv, Probing
    <3>5. Cardinality(probes) <= calls /\ (probes = {} => calls = 0) /\ MaxProbes \in Nat \ {0}
      BY <3>2, BreakerAssumption DEF BreakerInv, Probing
    <3>6. CASE calls + 1 <= MaxProbes
      <4>1. breakerPc' = [breakerPc EXCEPT ![w] = "calling"] /\ probes' = probes \union {w}
        BY <2>6, <3>6 DEF Breaker!Admit, Breaker!Goto
      <4>2. /\ Cardinality(probes \union {w}) \in Nat
            /\ Cardinality(probes \union {w}) <= Cardinality(probes) + 1
        <5>1. Cardinality(probes \union {w}) =
                IF w \in probes THEN Cardinality(probes) ELSE Cardinality(probes) + 1
          BY <3>3, FS_AddElement
        <5> QED BY <3>3, <5>1
      <4>3. Cardinality(probes') <= MaxProbes /\ Cardinality(probes') <= calls' /\ probes' # {}
        BY <3>1, <3>2, <3>3, <3>5, <3>6, <4>1, <4>2
      <4>4. \A v \in Workers : breakerPc'[v] = IF v = w THEN "calling" ELSE breakerPc[v]
        BY <4>1 DEF BreakerInv, BreakerTypes
      <4>5. ~ lost' => \A v \in probes' : breakerPc'[v] \in {"calling", "succeeded", "failed", "write"}
        BY <3>1, <3>2, <4>1, <4>4 DEF BreakerInv, Probing, BreakerTypes
      <4>6. Probing' BY <4>3, <4>5 DEF Probing
      <4>7. "calling" \in Breaker!Steps /\ probes' \subseteq Workers /\ calls' \in Nat
        BY <3>1, <3>2, <4>1 DEF Breaker!Steps, Breaker!Outside, BreakerInv, BreakerTypes
      <4>8. BreakerInv' BY <2>1, <3>1, <3>2, <4>1, <4>6, <4>7, OneMoves
      <4> QED BY <2>3, <3>1, <4>8
    <3>7. CASE ~ (calls + 1 <= MaxProbes)
      <4>1. breakerPc' = [breakerPc EXCEPT ![w] = "idle"] /\ probes' = probes
        BY <2>6, <3>7 DEF Breaker!Admit, Breaker!Goto
      <4>2. probes # {} /\ Cardinality(probes) <= calls' BY <3>1, <3>2, <3>3, <3>5, <3>7
      <4>3. \A v \in Workers : breakerPc'[v] = IF v = w THEN "idle" ELSE breakerPc[v]
        BY <4>1 DEF BreakerInv, BreakerTypes
      <4>4. ~ lost' => \A v \in probes' : breakerPc'[v] \in {"calling", "succeeded", "failed", "write"}
        BY <3>1, <3>2, <3>4, <4>1, <4>3 DEF BreakerInv, Probing, BreakerTypes
      <4>5. Probing' BY <4>1, <4>2, <4>4 DEF BreakerInv, Probing
      <4>6. "idle" \in Breaker!Steps /\ probes' \subseteq Workers /\ calls' \in Nat
        BY <3>1, <3>2, <4>1 DEF Breaker!Steps, Breaker!Outside, BreakerInv, BreakerTypes
      <4>7. BreakerInv' BY <2>1, <3>1, <3>2, <4>1, <4>5, <4>6, OneMoves
      <4> QED BY <2>3, <3>1, <4>7
    <3> QED BY <3>6, <3>7
  <2>7. CASE Breaker!Answer(w)
    <3>1. breakerPc[w] = "calling" /\ UNCHANGED <<state, calls, probes, lost, writes>>
      BY <2>7 DEF Breaker!Answer, Breaker!cache, Breaker!history
    <3>2. PICK to \in {"succeeded", "failed"} : breakerPc' = [breakerPc EXCEPT ![w] = to]
      BY <2>7 DEF Breaker!Answer, Breaker!Goto
    <3>3. to \in Breaker!Steps /\ DOMAIN writes' = Workers
      BY <3>1 DEF Breaker!Steps, BreakerInv, BreakerTypes
    <3>4. BreakerInv' BY <2>1, <3>1, <3>2, <3>3, QuietStep
    <3> QED BY <2>3, <3>1, <3>4
  <2>8. CASE Breaker!RecordSuccess(w)
    <3>1. breakerPc[w] = "succeeded" /\ UNCHANGED <<state, calls, probes, lost>>
      BY <2>8 DEF Breaker!RecordSuccess, Breaker!cache, Breaker!history
    <3>2. PICK to \in {"idle", "write"} :
            /\ breakerPc' = [breakerPc EXCEPT ![w] = to]
            /\ DOMAIN writes' = Workers
            /\ to = "idle" => state = "open"
            /\ to = "write" =>
                 \/ writes'[w] = <<"state:closed", "-failures", "-opened_at", "-calls">>
                 \/ state = "closed" /\ writes'[w] = <<"-failures">>
      BY <2>8 DEF Breaker!RecordSuccess, Breaker!Begin, Breaker!Goto, Breaker!ClosedWrites,
                  BreakerInv, BreakerTypes
    <3>3. to \in Breaker!Steps BY DEF Breaker!Steps, Breaker!Outside
    <3>4. to = "write" => writes'[w] \in MayBeLeft BY <3>2 DEF MayBeLeft, ClosingLeft, ClosedLeft
    <3>5. BreakerInv' BY <2>1, <3>1, <3>2, <3>3, <3>4, QuietStep
    <3> QED BY <2>3, <3>1, <3>5
  <2>9. CASE Breaker!RecordFailure(w)
    <3>1. breakerPc[w] = "failed" /\ UNCHANGED <<state, calls, probes, lost>>
      BY <2>9 DEF Breaker!RecordFailure, Breaker!cache, Breaker!history
    <3>2. PICK to \in {"idle", "write", "count"} :
            /\ breakerPc' = [breakerPc EXCEPT ![w] = to]
            /\ DOMAIN writes' = Workers
            /\ to = "idle" => state = "open"
            /\ to = "count" => state = "closed"
            /\ to = "write" =>
                 state = "half_open" /\ writes'[w] = <<"state:open", "opened_at:now", "-calls">>
      BY <2>9 DEF Breaker!RecordFailure, Breaker!Begin, Breaker!Goto, Breaker!OpenWrites,
                  BreakerInv, BreakerTypes
    <3>3. to \in Breaker!Steps BY DEF Breaker!Steps, Breaker!Outside
    <3>4. to = "write" => writes'[w] \in MayBeLeft BY <3>2 DEF MayBeLeft, OpeningLeft
    <3>5. BreakerInv' BY <2>1, <3>1, <3>2, <3>3, <3>4, QuietStep
    <3> QED BY <2>3, <3>1, <3>5
  <2>10. CASE Breaker!CountFailure(w)
    <3>1. breakerPc[w] = "count" /\ UNCHANGED <<state, calls, probes, lost>>
      BY <2>10 DEF Breaker!CountFailure, Breaker!history
    <3>2. state = "closed" BY <3>1 DEF BreakerInv, Methods
    <3>3. PICK to \in {"idle", "write"} :
            /\ breakerPc' = [breakerPc EXCEPT ![w] = to]
            /\ DOMAIN writes' = Workers
            /\ to = "write" => writes'[w] = <<"state:open", "opened_at:now", "-calls">>
      BY <2>10 DEF Breaker!CountFailure, Breaker!Begin, Breaker!Goto, Breaker!OpenWrites,
                   BreakerInv, BreakerTypes
    <3>4. to \in Breaker!Steps BY DEF Breaker!Steps, Breaker!Outside
    <3>5. to = "write" => writes'[w] \in MayBeLeft BY <3>2, <3>3 DEF MayBeLeft, OpeningLeft
    <3>6. BreakerInv' BY <2>1, <3>1, <3>2, <3>3, <3>4, <3>5, QuietStep
    <3> QED BY <2>3, <3>1, <3>6
  <2>11. CASE Breaker!Write(w)
    <3>1. BreakerInv' /\ (Head(writes[w]) = "state:open" => state # "open")
      BY <2>1, <2>11, WriteStep
    <3> QED BY <2>2, <3>1
  <2>12. CASE Breaker!Reset(w)
    <3>1. /\ breakerPc[w] = "idle"
          /\ UNCHANGED <<state, calls, probes, lost>>
          /\ breakerPc' = [breakerPc EXCEPT ![w] = "write"]
          /\ DOMAIN writes' = Workers
          /\ writes'[w] = <<"state:closed", "-failures", "-opened_at", "-calls">>
      BY <2>12 DEF Breaker!Reset, Breaker!Begin, Breaker!Goto, Breaker!ClosedWrites,
                   Breaker!cache, Breaker!history, BreakerInv, BreakerTypes
    <3>2. "write" \in Breaker!Steps /\ writes'[w] \in MayBeLeft
      BY <3>1 DEF Breaker!Steps, MayBeLeft, ClosingLeft
    <3>3. BreakerInv' BY <2>1, <3>1, <3>2, QuietStep
    <3> QED BY <2>3, <3>1, <3>3
  <2>13. CASE Breaker!Abandon(w)
    <3>1. /\ breakerPc[w] = "calling"
          /\ UNCHANGED <<state, calls, probes, writes>>
          /\ breakerPc' = [breakerPc EXCEPT ![w] = "idle"]
          /\ lost' = (lost \/ w \in probes)
      BY <2>13 DEF Breaker!Abandon, Breaker!Goto, Breaker!cache
    <3>2. "idle" \in Breaker!Steps /\ DOMAIN writes' = Workers /\ (lost => lost') /\ (w \in probes => lost')
      BY <3>1 DEF Breaker!Steps, Breaker!Outside, BreakerInv, BreakerTypes
    <3>3. BreakerInv' BY <2>1, <3>1, <3>2, QuietStep
    <3> QED BY <2>3, <3>1, <3>3
  <2> QED BY <1>4, <2>4, <2>5, <2>6, <2>7, <2>8, <2>9, <2>10, <2>11, <2>12, <2>13 DEF Breaker!Continue
<1> QED BY <1>2, <1>3, <1>4 DEF Breaker!Next

(* What the invariant says between the methods. *)
LEMMA BreakerPromises == BreakerInv => ProbesBounded /\ NotWedged
<1> SUFFICES ASSUME BreakerInv PROVE ProbesBounded /\ NotWedged OBVIOUS
<1>1. ProbesBounded
  <2>1. Breaker!Cardinality(probes) = Cardinality(probes) BY Zenon DEF Breaker!Cardinality, Cardinality
  <2> QED BY <2>1, Zenon DEF BreakerInv, Probing, ProbesBounded, Breaker!ProbesBounded
<1>2. ASSUME \A w \in Workers : breakerPc[w] = "idle", state = "half_open", ~ lost
      PROVE  calls < MaxProbes
  <2>1. probes = {} BY <1>2 DEF BreakerInv, Probing, BreakerTypes
  <2> QED BY <1>2, <2>1, BreakerAssumption DEF BreakerInv, Probing
<1> QED BY <1>1, <1>2 DEF NotWedged, Breaker!NotWedged

(***************************************************************************)
(* Between workers of one process, where nothing comes between the writes  *)
(* of a transition (circuit_breaker.py:23-27): a half-open circuit that    *)
(* lost no probe always has one to give, no more probes run than are       *)
(* allowed, and a circuit opens once for what it saw, for any workers,     *)
(* threshold and number of probes.                                         *)
(***************************************************************************)
THEOREM OneProcessRecovers ==
  ASSUME ~ Shared
  PROVE  Breaker!Spec => [](ProbesBounded /\ NotWedged) /\ OpensOnce
<1>1. Breaker!Init => BreakerInv BY BreakerStarts
<1>2. BreakerInv /\ [Breaker!Next]_(Breaker!vars) => BreakerInv'
  BY BreakerStep DEF Breaker!vars, breakerVars
<1>3. BreakerInv /\ [Breaker!Next]_(Breaker!vars) =>
        [\A w \in Workers :
           breakerPc[w] = "write" /\ Head(writes[w]) = "state:open" /\ writes'[w] # writes[w]
             => state # "open"]_(Breaker!vars)
  BY BreakerStep DEF Breaker!vars, breakerVars
<1>4. BreakerInv => ProbesBounded /\ NotWedged BY BreakerPromises
<1> QED BY <1>1, <1>2, <1>3, <1>4, PTL DEF Breaker!Spec, OpensOnce, Breaker!OpensOnce

-----------------------------------------------------------------------------
(* All of them, side by side *)

(***************************************************************************)
(* The parts share nothing, so each keeps its promise beside the others.   *)
(***************************************************************************)
THEOREM GuardsHold ==
  MCSpec => [](WindowBound /\ AdaptersAgree /\ CountersExpire /\ RetryKeepsItsPromise)
<1>1. MCInit => Init /\ Adapters!Init /\ Retrying!Init BY DEF MCInit
<1>2. [MCNext]_all => [Next]_vars
  BY DEF MCNext, all, breakerVars, cacheVars, retryVars
<1>3. [MCNext]_all => [Adapters!Next]_(Adapters!vars)
  BY DEF MCNext, all, cacheVars, Adapters!vars
<1>4. [MCNext]_all => [Retrying!Next]_(Retrying!vars)
  BY DEF MCNext, all, retryVars, Retrying!vars
<1>5. MCSpec => Spec BY <1>1, <1>2, PTL DEF MCSpec, Spec
<1>6. MCSpec => Adapters!Spec BY <1>1, <1>3, PTL DEF MCSpec, Adapters!Spec
<1>7. MCSpec => Retrying!Spec BY <1>1, <1>4, PTL DEF MCSpec, Retrying!Spec
<1> QED BY <1>5, <1>6, <1>7, WindowHolds, CachesAgree, RetryPromise, PTL

-----------------------------------------------------------------------------
(* The chunkers *)

(* Where the next chunk starts, as long as there is one: inside the previous
   chunk or right after it, and not further back than the overlap. *)
Ready ==
  ~ done =>
    /\ start < text.length
    /\ chunks = <<>> => start = 0
    /\ chunks # <<>> =>
         /\ chunks[Len(chunks)].start < start
         /\ start <= chunks[Len(chunks)].end
         /\ chunks[Len(chunks)].end <= start + overlap
         /\ chunks[Len(chunks)].end < text.length

CutInv == ChunkerTypeOK /\ ChunksCover /\ Ready

(* What both chunkers do: a chunk after the previous one's end, within the
   size, and a start inside the new chunk that has moved on. *)
Cut(end, both) ==
  /\ Yield(end, both)
  /\ start < end /\ end <= start + size /\ end <= text.length
  /\ chunks # <<>> => PreviousEnd < end
  /\ done' = (end = text.length)
  /\ end # text.length => start < start' /\ start' <= end /\ end <= start' + overlap
  /\ start' \in Nat
  /\ UNCHANGED <<text, size, overlap, chunker>>

(* Some facts about the parameters, in the form the steps need. *)
LEMMA ChunkerParameters ==
  ASSUME ChunkerTypeOK
  PROVE  /\ text.length \in Nat \ {0} /\ text.ends \in [1..text.length -> Marks]
         /\ size \in Nat \ {0} /\ overlap \in Nat /\ overlap < size
         /\ LookBack \in Nat \ {0} /\ start \in Nat
BY CutTextsAssumption, SizesAssumption DEF ChunkerTypeOK

(* The type of what was cut before. *)
LEMMA PreviousType ==
  ASSUME ChunkerTypeOK, chunks # <<>>
  PROVE  /\ Len(chunks) \in Nat \ {0}
         /\ Len(chunks) \in 1..Len(chunks)
         /\ chunks[Len(chunks)].start \in Nat
         /\ chunks[Len(chunks)].end \in Nat
         /\ PreviousEnd = chunks[Len(chunks)].end
         /\ PreviousEnd \in Nat
<1> DEFINE C == [start : Nat, end : Nat, overlap : Int]
<1>1. chunks \in Seq(C)
  BY DEF ChunkerTypeOK
<1> HIDE DEF C
<1>2. Len(chunks) \in Nat \ {0}
  BY <1>1
<1>3. chunks[Len(chunks)] \in C
  BY <1>1, <1>2
<1> QED
  BY <1>2, <1>3 DEF PreviousEnd, C

(* A chunk of the sliding window ends past the previous chunk. *)
LEMMA SlidingCuts ==
  ASSUME CutInv, SlidingChunk
  PROVE  \E end \in 1..text.length, both \in Int : Cut(end, both)
<1> USE ChunkerParameters DEF CutInv
<1>1. PICK end \in 1..text.length :
        /\ SlidingEnd(end)
        /\ Yield(end, IF chunks = <<>> THEN 0 ELSE IF overlap <= start THEN overlap ELSE start)
        /\ done' = (end >= text.length)
        /\ start' = IF end >= text.length THEN start ELSE SlidingStart(end)
  BY DEF SlidingChunk
<1>2. ~ done /\ UNCHANGED <<text, size, overlap, chunker>>
  BY DEF SlidingChunk
<1>3. PICK found \in 1..text.length :
        /\ IF Limit < text.length THEN FindBreakPoint(found) ELSE found = Limit
        /\ end = IF chunks # <<>> /\ found <= PreviousEnd THEN Limit ELSE found
  BY <1>1 DEF SlidingEnd
<1>4. Limit \in Nat /\ start < Limit /\ Limit <= start + size /\ Limit <= text.length
  BY <1>2 DEF Limit, Ready
<1>5. start <= SearchStart /\ SearchStart < Limit /\ SearchStart \in Nat
  BY <1>4 DEF SearchStart
<1>6. start < found /\ found <= Limit
  <2>1. CASE Limit = text.length
    BY <2>1, <1>3, <1>4
  <2>2. CASE Limit < text.length
    <3>1. FindBreakPoint(found)
      BY <2>2, <1>3
    <3>2. \A p \in ParagraphBreaks \union SentenceEndings : start < p /\ p <= Limit
      BY <1>4, <1>5 DEF ParagraphBreaks, SentenceEndings, Positions
    <3>3. ASSUME NEW marks, LastOfKind(found, marks) PROVE start < found /\ found <= Limit
      BY <3>3, <1>5 DEF LastOfKind, IsLastOf, Positions
    <3> QED
      BY <3>1, <3>2, <3>3, <1>4 DEF FindBreakPoint, IsLastOf, Newline, Space
  <2> QED
    BY <2>1, <2>2, <1>4
<1>7. chunks # <<>> => PreviousEnd < Limit
  BY <1>2, PreviousType DEF Limit, Ready
<1>8. start < end /\ end <= Limit /\ (chunks # <<>> => PreviousEnd < end)
  BY <1>3, <1>4, <1>6, <1>7, PreviousType
<1>9. /\ end # text.length => start < start' /\ start' <= end /\ end <= start' + overlap
      /\ start' \in Nat
  BY <1>1, <1>4, <1>8 DEF SlidingStart
<1> DEFINE both == IF chunks = <<>> THEN 0 ELSE IF overlap <= start THEN overlap ELSE start
<1>10. both \in Int
  OBVIOUS
<1>11. Cut(end, both)
  BY <1>1, <1>2, <1>4, <1>8, <1>9 DEF Cut
<1> QED
  BY <1>10, <1>11

(* So does one of the boundary chunker. *)
LEMMA BoundaryCuts ==
  ASSUME CutInv, BoundaryChunk
  PROVE  \E end \in 1..text.length, both \in Int : Cut(end, both)
<1> USE ChunkerParameters DEF CutInv
<1>1. PICK end \in 1..text.length :
        /\ IF Limit = text.length THEN end = text.length ELSE BoundaryEnd(end)
        /\ Yield(end, IF chunks = <<>> THEN 0 ELSE PreviousEnd - start)
        /\ done' = (end = text.length)
        /\ start' = IF end = text.length THEN start ELSE BoundaryStart(end)
  BY DEF BoundaryChunk
<1>2. ~ done /\ UNCHANGED <<text, size, overlap, chunker>>
  BY DEF BoundaryChunk
<1>3. Limit \in Nat /\ start < Limit /\ Limit <= start + size /\ Limit <= text.length
  BY <1>2 DEF Limit, Ready
<1>4. chunks # <<>> => PreviousEnd < Limit
  BY <1>2, PreviousType DEF Limit, Ready
<1>5. After >= start /\ (chunks # <<>> => After >= PreviousEnd)
  BY PreviousType DEF After, PreviousEnd
<1>6. start < end /\ end <= Limit /\ (chunks # <<>> => PreviousEnd < end)
  <2>1. CASE Limit = text.length
    BY <2>1, <1>1, <1>3, <1>4
  <2>2. CASE Limit # text.length
    <3>1. \A marks : \A p \in Within(marks) :
            start < p /\ p <= Limit /\ (chunks # <<>> => PreviousEnd < p)
      BY <1>3, <1>5, PreviousType DEF Within, Positions, After, PreviousEnd
    <3> QED
      BY <2>2, <1>1, <1>3, <1>4, <3>1 DEF BoundaryEnd, IsLastOf
  <2> QED
    BY <2>1, <2>2
<1>7. /\ end # text.length => start < start' /\ start' <= end /\ end <= start' + overlap
      /\ start' \in Nat
  <2>1. CASE end = text.length
    BY <2>1, <1>1
  <2>2. CASE end # text.length
    <3>1. start' = BoundaryStart(end)
      BY <2>2, <1>1
    <3>2. start \in Nat /\ end \in Nat /\ overlap \in Nat /\ start < end
      BY <1>6
    <3> QED
      BY <2>2, <3>1, <3>2 DEF BoundaryStart
  <2> QED
    BY <2>1, <2>2
<1> DEFINE both == IF chunks = <<>> THEN 0 ELSE PreviousEnd - start
<1>8. both \in Int
  BY PreviousType
<1>9. Cut(end, both)
  BY <1>1, <1>2, <1>3, <1>6, <1>7 DEF Cut
<1> QED
  BY <1>8, <1>9

(* A cut keeps the chunks linked. *)
LEMMA CutPreserves ==
  ASSUME CutInv, ~ done, NEW end \in 1..text.length, NEW both \in Int, Cut(end, both)
  PROVE  CutInv'
<1> USE ChunkerParameters DEF CutInv
<1> DEFINE n == Len(chunks)
           C == [start : Nat, end : Nat, overlap : Int]
           new == [start |-> start, end |-> end, overlap |-> both]
<1>1. chunks \in Seq(C) /\ new \in C
  BY DEF ChunkerTypeOK
<1>2. chunks' = Append(chunks, new)
  BY DEF Cut, Yield
<1>a. new.start = start /\ new.end = end
  OBVIOUS
<1>b. \A c \in C : c.start \in Nat /\ c.end \in Nat
  OBVIOUS
<1> HIDE DEF C, new
<1>c. /\ n \in Nat
      /\ Len(chunks') = n + 1
      /\ \A i \in 1..n : chunks'[i] = chunks[i] /\ chunks[i] \in C
      /\ chunks'[n + 1] = new
      /\ chunks' \in Seq(C)
      /\ chunks' # <<>>
  BY <1>1, <1>2
<1>d. chunks # <<>> => n \in Nat \ {0} /\ 1 \in 1..n /\ n \in 1..n
  BY <1>1
<1>e. /\ start < end /\ end <= start + size /\ end <= text.length
      /\ chunks # <<>> => PreviousEnd < end
      /\ done' = (end = text.length)
      /\ end # text.length => start < start' /\ start' <= end /\ end <= start' + overlap
      /\ start' \in Nat
      /\ UNCHANGED <<text, size, overlap, chunker>>
  BY DEF Cut, ChunkerTypeOK
<1>4. ChunkerTypeOK'
  BY <1>c, <1>e DEF ChunkerTypeOK, C
<1>5. Sized'
  <2> SUFFICES ASSUME NEW i \in 1..(n + 1)
               PROVE  chunks'[i].start < chunks'[i].end /\ chunks'[i].end <= chunks'[i].start + size
    BY <1>c, <1>e DEF Sized
  <2>1. CASE i = n + 1
    BY <2>1, <1>a, <1>c, <1>e
  <2>2. CASE i \in 1..n
    BY <2>2, <1>c DEF Sized, ChunksCover
  <2> QED
    BY <2>1, <2>2, <1>c
<1>6. Linked'
  <2> SUFFICES ASSUME NEW i \in 1..n
               PROVE  /\ chunks'[i].start < chunks'[i + 1].start
                      /\ chunks'[i + 1].start <= chunks'[i].end
                      /\ chunks'[i].end < chunks'[i + 1].end
    <3>1. Len(chunks') - 1 = n BY <1>c
    <3> QED BY <3>1 DEF Linked
  <2>1. CASE i = n
    <3>1. chunks # <<>> BY <2>1
    <3>2. chunks[n].start < start /\ start <= chunks[n].end /\ PreviousEnd = chunks[n].end
      BY <3>1, PreviousType DEF Ready
    <3>3. chunks'[n] = chunks[n] /\ chunks'[n + 1] = new BY <1>c, <2>1
    <3> QED BY <1>a, <1>e, <2>1, <3>1, <3>2, <3>3
  <2>2. CASE i + 1 \in 1..n
    BY <2>2, <1>c DEF Linked, ChunksCover
  <2> QED
    BY <2>1, <2>2, <1>c
<1>7. Whole'
  <2>1. chunks'[1].start = 0
    <3>1. CASE chunks = <<>>
      BY <3>1, <1>a, <1>c DEF Ready
    <3>2. CASE chunks # <<>>
      BY <3>2, <1>c, <1>d DEF Whole, ChunksCover
    <3> QED
      BY <3>1, <3>2
  <2> QED
    BY <2>1, <1>a, <1>c, <1>e DEF Whole
<1>8. Ready'
  <2>1. chunks'[Len(chunks')] = new
    BY <1>c
  <2>2. text' = text /\ overlap' = overlap
    BY <1>e
  <2>3. CASE end = text.length
    BY <2>3, <1>e DEF Ready
  <2>4. CASE end # text.length
    <3>1. start < start' /\ start' <= end /\ end <= start' + overlap /\ end < text.length
      BY <2>4, <1>e
    <3> QED
      BY <3>1, <2>1, <2>2, <1>a, <1>c, <1>e DEF Ready
  <2> QED
    BY <2>3, <2>4
<1> QED
  BY <1>4, <1>5, <1>6, <1>7, <1>8 DEF ChunksCover

(***************************************************************************)
(* Both chunkers: no character lost, no chunk inside another, none too     *)
(* long, for every text, size and overlap (extraction/chunkers).           *)
(***************************************************************************)
THEOREM ChunkersCover == ChunkerSpec => []ChunksCover
<1>1. ChunkerInit => CutInv
  <2> SUFFICES ASSUME ChunkerInit PROVE CutInv
    OBVIOUS
  <2>1. ChunkerTypeOK
    <3> DEFINE C == [start : Nat, end : Nat, overlap : Int]
    <3>1. chunks = <<>>
      BY DEF ChunkerInit
    <3>2. chunks \in Seq(C)
      <4> HIDE DEF C
      <4> QED
        BY <3>1
    <3> QED
      BY <3>2 DEF ChunkerInit, ChunkerTypeOK
  <2> QED
    BY <2>1, ChunkerParameters DEF CutInv, ChunkerInit, ChunksCover, Sized, Linked, Whole, Ready
<1>2. CutInv /\ [ChunkerNext]_chunkerVars => CutInv'
  <2> SUFFICES ASSUME CutInv, [ChunkerNext]_chunkerVars PROVE CutInv'
    OBVIOUS
  <2>1. CASE SlidingChunk
    BY <2>1, SlidingCuts, CutPreserves DEF SlidingChunk
  <2>2. CASE BoundaryChunk
    BY <2>2, BoundaryCuts, CutPreserves DEF BoundaryChunk
  <2>3. CASE UNCHANGED chunkerVars
    BY <2>3 DEF chunkerVars, CutInv, ChunkerTypeOK, ChunksCover, Sized, Linked, Whole, Ready
  <2> QED
    BY <2>1, <2>2, <2>3 DEF ChunkerNext, Returned
<1> QED
  BY <1>1, <1>2, PTL DEF ChunkerSpec, CutInv

-----------------------------------------------------------------------------
(* Pages *)

(* The first l of a list of numbers by size: none that comes after is below
   the last of them. *)
Listing(order, m, S) ==
  /\ m \in Nat /\ order \in [1..m -> S]
  /\ \A i, j \in 1..m : i < j => order[i] < order[j]
  /\ \A x \in S : \E i \in 1..m : order[i] = x

LEMMA FirstPlaces ==
  ASSUME NEW S \in SUBSET Nat, NEW m, NEW order, Listing(order, m, S), NEW l \in 1..m
  PROVE  /\ \A i \in 1..l : order[i] <= order[l]
         /\ \A x \in S : x <= order[l] => \E i \in 1..l : order[i] = x
<1> USE DEF Listing
<1>1. \A i \in 1..m : order[i] \in Nat OBVIOUS
<1>2. ASSUME NEW i \in 1..l PROVE order[i] <= order[l]
  <2>1. i \in 1..m /\ (i = l \/ i < l) OBVIOUS
  <2> QED BY <1>1, <2>1
<1>3. ASSUME NEW x \in S, x <= order[l] PROVE \E i \in 1..l : order[i] = x
  <2>1. PICK i \in 1..m : order[i] = x OBVIOUS
  <2>2. ~ (l < i)
    <3> SUFFICES ASSUME l < i PROVE FALSE OBVIOUS
    <3>1. order[l] < order[i] OBVIOUS
    <3>2. order[l] \in Nat /\ order[i] \in Nat BY <1>1
    <3> QED BY <1>3, <2>1, <3>1, <3>2
  <2> QED BY <2>1, <2>2
<1> QED BY <1>2, <1>3

(* A page of a list of numbers by size: its first n, all of them if it is
   shorter, and otherwise none that comes after is below its last. *)
IsPage(p, S, n) ==
  LET order == Ranked(S, Ascending(S))
  IN p = SubSeq(order, 1, IF Len(order) < n THEN Len(order) ELSE n)

LEMMA FirstPage ==
  ASSUME NEW S \in SUBSET Nat, IsFiniteSet(S), NEW n \in Nat \ {0}, NEW p, IsPage(p, S, n)
  PROVE  /\ p \in Seq(S) /\ Len(p) \in Nat /\ Len(p) <= n
         /\ \A i, j \in 1..Len(p) : i < j => p[i] < p[j]
         /\ Len(p) < n => \A x \in S : \E i \in 1..Len(p) : p[i] = x
         /\ ~ (Len(p) < n) =>
              /\ Len(p) \in 1..Len(p)
              /\ \A i \in 1..Len(p) : p[i] <= p[Len(p)]
              /\ \A x \in S : x <= p[Len(p)] => \E i \in 1..Len(p) : p[i] = x
<1>1. \A x, y \in S : <<x, y>> \in Ascending(S) <=> x < y BY DEF Ascending
<1>2. Orders(Ascending(S), S) BY <1>1 DEF Orders
<1>3. PICK m : m = Cardinality(S) OBVIOUS
<1>0. PICK order : order = Ranked(S, Ascending(S)) OBVIOUS
<1>4. /\ m \in Nat /\ order \in [1..m -> S]
      /\ \A i, j \in 1..m : i < j => order[i] < order[j]
      /\ \A x \in S : \E i \in 1..m : order[i] = x
  <2>1. Ranking(order, S, Ascending(S)) BY <1>0, <1>2, RankedIsRanking
  <2>2. /\ order \in [1..m -> S]
        /\ \A i, j \in 1..m : i < j => <<order[i], order[j]>> \in Ascending(S)
        /\ \A x \in S : \E i \in 1..m : order[i] = x
    BY <1>3, <2>1 DEF Ranking
  <2> QED BY <1>1, <1>3, <2>2, FS_CardinalityType
<1>5. order \in Seq(S) /\ Len(order) = m BY <1>4
<1>6. PICK l : l = IF m < n THEN m ELSE n OBVIOUS
<1>7. l \in Nat /\ l <= m /\ l <= n /\ (l < n => l = m) BY <1>4, <1>6
<1>8. p \in Seq(S) /\ Len(p) = l /\ \A i \in 1..l : p[i] = order[i] /\ i \in 1..m
  <2>1. p = SubSeq(order, 1, l) BY <1>0, <1>5, <1>6 DEF IsPage
  <2> QED BY <1>4, <1>5, <1>7, <2>1
<1>9. \A i, j \in 1..l : i < j => p[i] < p[j] BY <1>4, <1>8
<1>10. ASSUME l < n, NEW x \in S PROVE \E i \in 1..l : p[i] = x BY <1>4, <1>7, <1>8, <1>10
<1>11. ASSUME ~ (l < n)
       PROVE  /\ l \in 1..l
              /\ \A i \in 1..l : p[i] <= p[l]
              /\ \A x \in S : x <= p[l] => \E i \in 1..l : p[i] = x
  <2>1. l \in 1..l /\ l \in 1..m BY <1>7, <1>11
  <2>2. /\ \A i \in 1..l : order[i] <= order[l]
        /\ \A x \in S : x <= order[l] => \E i \in 1..l : order[i] = x
    <3>1. Listing(order, m, S) BY <1>4 DEF Listing
    <3> HIDE DEF Listing
    <3> QED BY <2>1, <3>1, FirstPlaces
  <2> QED BY <1>8, <2>1, <2>2
<1> QED BY <1>7, <1>8, <1>9, <1>10, <1>11

-----------------------------------------------------------------------------
(* The scan of a timeline *)

Extent == {NoEntity} \union Extents

Entry == [id : Timeline!Ids, extent : Extent \ {NoEntity}]

(* Ids are yielded in order, up to the cursor while it runs; what stood still
   and is behind the cursor, or anywhere when it is done, was yielded as it
   is. *)
ScanInv ==
  /\ stored \in [Timeline!Ids -> Extent]
  /\ cursor \in Nat
  /\ settled \subseteq Timeline!Ids
  /\ yielded \in Seq(Entry)
  /\ \A i, j \in 1..Len(yielded) : i < j => yielded[i].id < yielded[j].id
  /\ scan = "running" => \A i \in 1..Len(yielded) : yielded[i].id <= cursor
  /\ \A i \in settled : stored[i] # NoEntity /\ (i <= cursor \/ scan = "done") =>
       \E j \in 1..Len(yielded) : yielded[j] = [id |-> i, extent |-> stored[i]]

LEMMA IdsAreNumbers == \A i \in Timeline!Ids : i \in Nat
BY TimelineAssumption DEF Timeline!Ids

(* An instance sorts as Sorting does. *)
LEMMA TimelinesSort ==
  \A S : Timeline!Ranked(S, Timeline!Ascending(S)) = Ranked(S, Ascending(S))
BY Zenon DEF Timeline!Ranked, Timeline!Ascending, Timeline!Cardinality, Ranked, Ascending,
             Cardinality

LEMMA EntriesAreNumbered ==
  ASSUME ScanInv
  PROVE  \A i \in 1..Len(yielded) : yielded[i].id \in Nat
<1>1. \A e \in Entry : e.id \in Nat BY IdsAreNumbers DEF Entry
<1>2. \A i \in 1..Len(yielded) : yielded[i] \in Entry BY DEF ScanInv
<1> QED BY <1>1, <1>2

LEMMA ScanStarts == ASSUME Timeline!Init PROVE ScanInv
BY DEF Timeline!Init, ScanInv, Extent

LEMMA Reading ==
  ASSUME ScanInv, Timeline!ReadPage
  PROVE  ScanInv'
<1> DEFINE after == {i \in Timeline!Ids : i > cursor /\ stored[i] # NoEntity}
<1>2. PICK p : p = Timeline!Page OBVIOUS
<1>3. IsPage(p, after, EntitiesPerPage)
  <2>1. PICK order : order = Timeline!Ranked(after, Timeline!Ascending(after)) OBVIOUS
  <2>2. order = Ranked(after, Ascending(after)) BY <2>1, TimelinesSort
  <2> QED BY <1>2, <2>1, <2>2, Zenon DEF Timeline!Page, IsPage
<1>4. after \in SUBSET Nat /\ IsFiniteSet(after)
  <2>1. IsFiniteSet(Timeline!Ids) BY TimelineAssumption, FS_Interval DEF Timeline!Ids
  <2>2. after \subseteq Timeline!Ids /\ Timeline!Ids \subseteq Nat BY DEF Timeline!Ids
  <2> HIDE DEF after
  <2> QED BY <2>1, <2>2, FS_Subset
<1>5. \A x : x \in after <=> x \in Timeline!Ids /\ x > cursor /\ stored[x] # NoEntity OBVIOUS
<1> HIDE DEF after
<1>6. /\ p \in Seq(after) /\ Len(p) \in Nat
      /\ \A i, j \in 1..Len(p) : i < j => p[i] < p[j]
      /\ Len(p) < EntitiesPerPage => \A x \in after : \E i \in 1..Len(p) : p[i] = x
      /\ ~ (Len(p) < EntitiesPerPage) =>
           /\ Len(p) \in 1..Len(p)
           /\ \A i \in 1..Len(p) : p[i] <= p[Len(p)]
           /\ \A x \in after : x <= p[Len(p)] => \E i \in 1..Len(p) : p[i] = x
  BY <1>3, <1>4, FirstPage, TimelineAssumption
<1>7. \A i \in 1..Len(p) : p[i] \in after BY <1>6
<1>8. PICK new : new = [i \in 1..Len(p) |-> [id |-> p[i], extent |-> stored[p[i]]]] OBVIOUS
<1>9. new \in Seq(Entry) /\ Len(new) = Len(p)
  <2>1. \A i \in 1..Len(p) : p[i] \in Timeline!Ids /\ stored[p[i]] \in Extent \ {NoEntity}
    BY <1>5, <1>7 DEF ScanInv
  <2>2. \A i \in 1..Len(p) : new[i] \in Entry BY <1>8, <2>1 DEF Entry
  <2>3. PICK l \in Nat : l = Len(p) BY <1>6
  <2>4. new \in [1..l -> Entry] BY <1>8, <2>2, <2>3
  <2>5. new \in Seq(Entry) /\ Len(new) = l BY <2>4
  <2> QED BY <2>3, <2>5
<1>10. /\ scan = "running" /\ yielded' = yielded \o new
       /\ IF Len(p) < EntitiesPerPage THEN scan' = "done" /\ cursor' = cursor
          ELSE cursor' = Timeline!Ext!Last(p) /\ scan' = scan
       /\ stored' = stored /\ settled' = settled
  <2>1. DOMAIN p = 1..Len(p) BY <1>6
  <2> QED BY <1>2, <1>8, <2>1 DEF Timeline!ReadPage, Timeline!IsLast, Timeline!NextCursor
<1>11. Timeline!Ext!Last(p) = p[Len(p)] BY DEF Timeline!Ext!Last
<1>12. PICK n \in Nat : n = Len(yielded) BY DEF ScanInv
<1>13. PICK l \in Nat : l = Len(p) BY <1>6
<1>14. /\ yielded' \in Seq(Entry) /\ Len(yielded') = n + l
       /\ \A i \in 1..n : yielded'[i] = yielded[i]
       /\ \A i \in 1..l : yielded'[n + i] = [id |-> p[i], extent |-> stored[p[i]]]
  BY <1>8, <1>9, <1>10, <1>12, <1>13 DEF ScanInv
<1>15. \A i \in 1..(n + l) : \/ i \in 1..n /\ yielded'[i] = yielded[i] /\ yielded[i].id \in Nat
                             \/ /\ ~ (i <= n) /\ i - n \in 1..l
                                /\ yielded'[i].id = p[i - n] /\ p[i - n] \in Nat
                                /\ p[i - n] > cursor
  <2> SUFFICES ASSUME NEW i \in 1..(n + l), i \notin 1..n
               PROVE  /\ ~ (i <= n) /\ i - n \in 1..l
                      /\ yielded'[i].id = p[i - n] /\ p[i - n] \in Nat
                      /\ p[i - n] > cursor
    BY <1>12, <1>14, EntriesAreNumbered
  <2>1. ~ (i <= n) /\ i - n \in 1..l /\ n + (i - n) = i OBVIOUS
  <2>2. p[i - n] \in Timeline!Ids /\ p[i - n] > cursor BY <1>5, <1>7, <1>13, <2>1
  <2>3. yielded'[i] = [id |-> p[i - n], extent |-> stored[p[i - n]]] BY <1>14, <2>1
  <2> QED BY <2>1, <2>2, <2>3, IdsAreNumbers
<1>16. \A i \in 1..n : yielded[i].id <= cursor BY <1>10, <1>12 DEF ScanInv
<1>17. ASSUME NEW i \in 1..(n + l), NEW j \in 1..(n + l), i < j
       PROVE  yielded'[i].id < yielded'[j].id
  <2>1. CASE i \in 1..n /\ j \in 1..n BY <1>12, <1>14, <1>17, <2>1 DEF ScanInv
  <2>2. CASE i \in 1..n /\ j \notin 1..n
    <3>1. yielded'[i].id <= cursor /\ yielded'[i].id \in Nat BY <1>14, <1>15, <1>16, <2>2
    <3>2. yielded'[j].id > cursor /\ yielded'[j].id \in Nat BY <1>15, <2>2
    <3>3. cursor \in Nat BY DEF ScanInv
    <3> QED BY <3>1, <3>2, <3>3
  <2>3. CASE i \notin 1..n /\ j \notin 1..n
    <3>1. i - n < j - n BY <1>17
    <3> QED BY <1>6, <1>13, <1>15, <2>3, <3>1
  <2> QED BY <1>17, <2>1, <2>2, <2>3
<1>18. /\ cursor' \in Nat
       /\ scan' = "running" => \A i \in 1..(n + l) : yielded'[i].id <= cursor'
  <2>1. CASE l < EntitiesPerPage BY <1>10, <1>13, <2>1 DEF ScanInv
  <2>2. CASE ~ (l < EntitiesPerPage)
    <3>1. PICK last : last = p[l] OBVIOUS
    <3>2. /\ last \in Nat /\ cursor' = last /\ cursor < last
          /\ \A i \in 1..l : p[i] <= last
      BY <1>4, <1>5, <1>6, <1>7, <1>10, <1>11, <1>13, <2>2, <3>1
    <3>3. \A i \in 1..n : yielded[i].id <= last BY <1>15, <1>16, <3>2 DEF ScanInv
    <3> QED BY <1>15, <3>2, <3>3
  <2> QED BY <2>1, <2>2
<1>19. ASSUME NEW x \in settled, stored[x] # NoEntity, x <= cursor' \/ scan' = "done"
       PROVE  \E j \in 1..(n + l) : yielded'[j] = [id |-> x, extent |-> stored[x]]
  <2>1. x \in Timeline!Ids /\ x \in Nat /\ cursor \in Nat BY IdsAreNumbers DEF ScanInv
  <2>2. CASE x <= cursor
    <3>1. PICK j \in 1..n : yielded[j] = [id |-> x, extent |-> stored[x]]
      BY <1>12, <1>19, <2>2 DEF ScanInv
    <3> QED BY <1>14, <3>1
  <2>3. CASE ~ (x <= cursor)
    <3>1. x \in after BY <1>5, <1>19, <2>1, <2>3
    <3>2. PICK i \in 1..l : p[i] = x
      <4>1. CASE l < EntitiesPerPage BY <1>6, <1>13, <3>1, <4>1
      <4>2. CASE ~ (l < EntitiesPerPage)
        <5>1. cursor' = p[Len(p)] /\ scan' # "done" BY <1>10, <1>11, <1>13, <4>2
        <5> QED BY <1>6, <1>13, <1>19, <3>1, <4>2, <5>1
      <4> QED BY <4>1, <4>2
    <3>3. yielded'[n + i] = [id |-> x, extent |-> stored[x]] /\ n + i \in 1..(n + l)
      BY <1>14, <3>2
    <3> QED BY <3>3
  <2> QED BY <2>2, <2>3
<1> QED BY <1>10, <1>14, <1>17, <1>18, <1>19 DEF ScanInv

LEMMA ScanSteps ==
  ASSUME ScanInv, Timeline!Next
  PROVE  ScanInv'
<1>1. CASE Timeline!ReadPage BY <1>1, Reading
<1>2. CASE Timeline!Stall BY <1>2 DEF Timeline!Stall, ScanInv
<1>3. ASSUME NEW i \in Timeline!Ids, NEW what \in Extent, Timeline!Write(i, what)
      PROVE  ScanInv'
  <2>1. /\ stored' = [stored EXCEPT ![i] = what] /\ settled' = settled \ {i}
        /\ cursor' = cursor /\ scan' = scan /\ yielded' = yielded
    BY <1>3 DEF Timeline!Write
  <2>2. stored' \in [Timeline!Ids -> Extent] BY <2>1 DEF ScanInv
  <2>3. \A x \in settled' : x \in settled /\ stored'[x] = stored[x] BY <2>1 DEF ScanInv
  <2> QED BY <2>1, <2>2, <2>3 DEF ScanInv
<1> QED BY <1>1, <1>2, <1>3 DEF Timeline!Next, Extent

LEMMA ScansHold == AlgorithmsSpec => [](part = "timeline" => ScanInv)
<1> DEFINE Inv == part = "timeline" => ScanInv
<1>1. AlgorithmsInit => Inv BY ScanStarts DEF AlgorithmsInit
<1>2. Inv /\ [AlgorithmsNext]_algorithmVars => Inv'
  <2> SUFFICES ASSUME Inv, [AlgorithmsNext]_algorithmVars, part' = "timeline" PROVE ScanInv'
    OBVIOUS
  <2>1. part = "timeline" /\ ScanInv BY DEF AlgorithmsNext, algorithmVars
  <2>2. CASE Timeline!Next BY <2>1, <2>2, ScanSteps
  <2>3. CASE UNCHANGED timelineVars BY <2>1, <2>3 DEF timelineVars, ScanInv
  <2> QED BY <2>1, <2>2, <2>3 DEF AlgorithmsNext, algorithmVars
<1> QED BY <1>1, <1>2, PTL DEF AlgorithmsSpec

LEMMA YieldedApart ==
  ASSUME ScanInv
  PROVE  \A i, j \in 1..Len(yielded) : yielded[i].id = yielded[j].id => i = j
<1>1. \A i \in 1..Len(yielded) : yielded[i].id \in Nat BY EntriesAreNumbered
<1> SUFFICES ASSUME NEW i \in 1..Len(yielded), NEW j \in 1..Len(yielded), yielded[i].id = yielded[j].id
             PROVE  i = j
  OBVIOUS
<1>2. ~ (i < j) /\ ~ (j < i) BY <1>1 DEF ScanInv
<1>3. i \in Int /\ j \in Int OBVIOUS
<1> QED BY <1>2, <1>3

(***************************************************************************)
(* However a tenant is written while it is paged through by id: whatever   *)
(* stood still is yielded as it is, and nothing twice, for any page size   *)
(* and any number of entities (temporal/query.py:225-245).                 *)
(***************************************************************************)
THEOREM ScansSeeWhatStoodStill == AlgorithmsSpec => []ScanSeesSettled
<1>1. (part = "timeline" => ScanInv) => ScanSeesSettled
  <2> SUFFICES ASSUME ScanInv, scan = "done" PROVE Timeline!ScanSeesSettled
    BY DEF ScanSeesSettled, Timeline!ScanSeesSettled
  <2>1. DOMAIN yielded = 1..Len(yielded) BY DEF ScanInv
  <2>2. \A e : (\E j \in 1..Len(yielded) : yielded[j] = e) => e \in Timeline!Ext!ToSet(yielded)
    BY <2>1, Zenon DEF Timeline!Ext!ToSet
  <2> QED BY <2>1, <2>2, YieldedApart DEF ScanInv, Timeline!ScanSeesSettled
<1> QED BY <1>1, ScansHold, PTL

-----------------------------------------------------------------------------
(* The relations of a timeline *)

(* Lists of numbers of one length, by the first place in which they differ. *)
LEMMA LessOrders ==
  ASSUME NEW n \in Nat \ {0}
  PROVE  /\ \A u \in [1..n -> Int] : ~ Timeline!Less(u, u)
         /\ \A u, l, m \in [1..n -> Int] :
              Timeline!Less(u, l) /\ Timeline!Less(l, m) => Timeline!Less(u, m)
         /\ \A u, l \in [1..n -> Int] :
              u[n] # l[n] => Timeline!Less(u, l) \/ Timeline!Less(l, u)
<1>1. ASSUME NEW u \in [1..n -> Int], NEW l \in [1..n -> Int]
      PROVE  Timeline!Less(u, l) <=> \E i \in 1..n : u[i] < l[i] /\ \A j \in 1..(i - 1) : u[j] = l[j]
  BY DEF Timeline!Less
<1>2. ASSUME NEW u \in [1..n -> Int] PROVE ~ Timeline!Less(u, u) BY <1>1
<1>3. ASSUME NEW u \in [1..n -> Int], NEW l \in [1..n -> Int], NEW m \in [1..n -> Int],
             Timeline!Less(u, l), Timeline!Less(l, m)
      PROVE  Timeline!Less(u, m)
  <2>1. PICK i \in 1..n : u[i] < l[i] /\ \A j \in 1..(i - 1) : u[j] = l[j] BY <1>1, <1>3
  <2>2. PICK h \in 1..n : l[h] < m[h] /\ \A j \in 1..(h - 1) : l[j] = m[j] BY <1>1, <1>3
  <2>3. CASE i < h
    <3>1. i \in 1..(h - 1) /\ 1..(i - 1) \subseteq 1..(h - 1) BY <2>3
    <3>2. u[i] < m[i] /\ \A j \in 1..(i - 1) : u[j] = m[j] BY <2>1, <2>2, <3>1
    <3> QED BY <1>1, <3>2
  <2>4. CASE i = h
    <3>1. u[i] < m[i] /\ \A j \in 1..(i - 1) : u[j] = m[j] BY <2>1, <2>2, <2>4
    <3> QED BY <1>1, <3>1
  <2>5. CASE h < i
    <3>1. h \in 1..(i - 1) /\ 1..(h - 1) \subseteq 1..(i - 1) BY <2>5
    <3>2. u[h] < m[h] /\ \A j \in 1..(h - 1) : u[j] = m[j] BY <2>1, <2>2, <3>1
    <3> QED BY <1>1, <3>2
  <2> QED BY <2>3, <2>4, <2>5
<1>4. ASSUME NEW u \in [1..n -> Int], NEW l \in [1..n -> Int], u[n] # l[n]
      PROVE  Timeline!Less(u, l) \/ Timeline!Less(l, u)
  <2>1. PICK T : T = {i \in 1..n : u[i] # l[i]} OBVIOUS
  <2>2. T \in SUBSET Nat /\ n \in T BY <1>4, <2>1
  <2>3. PICK i \in T : \A j \in T : i <= j BY <2>2, LeastNatural
  <2>4. i \in 1..n /\ u[i] # l[i] BY <2>1
  <2>5. \A j \in 1..(i - 1) : u[j] = l[j]
    <3> SUFFICES ASSUME NEW j \in 1..(i - 1), u[j] # l[j] PROVE FALSE OBVIOUS
    <3>1. j \in 1..n /\ ~ (i <= j) BY <2>4
    <3> QED BY <2>1, <2>3, <3>1
  <2>6. u[i] < l[i] \/ l[i] < u[i] BY <2>4
  <2> QED BY <1>1, <2>4, <2>5, <2>6
<1> QED BY <1>2, <1>3, <1>4

(* The interval of an extent, and that it is not empty. *)
Spanning(b) ==
  /\ b = [lower |-> b.lower, upper |-> b.upper]
  /\ {b.lower, b.upper} \ {None} \subseteq Timeline!Moment
  /\ None \notin {b.lower, b.upper} => Timeline!At(b.lower) < Timeline!At(b.upper)

LEMMA NextUnit ==
  ASSUME NEW n \in Int, NEW w \in {1, 2, 4, 8, 16, 192}
  PROVE  ((n \div w) + 1) * w \in Int /\ ((n \div w) + 1) * w > n
<1>1. CASE w = 1 BY <1>1
<1>2. CASE w = 2 BY <1>2
<1>3. CASE w = 4 BY <1>3
<1>4. CASE w = 8 BY <1>4
<1>5. CASE w = 16 BY <1>5
<1>6. CASE w = 192 BY <1>6
<1> QED BY <1>1, <1>2, <1>3, <1>4, <1>5, <1>6

LEMMA Widening ==
  ASSUME NEW m \in Timeline!Moment, NEW p \in {None} \union DOMAIN Timeline!Width,
         Timeline!Widen(m, p) # Raised
  PROVE  /\ Timeline!Widen(m, p) \in Timeline!Moment
         /\ Timeline!At(m) < Timeline!At(Timeline!Widen(m, p))
<1>1. PICK w \in {1, 2, 4, 8, 16, 192} :
        w = Timeline!Width[IF p = None THEN "instant" ELSE p]
  BY DEF Timeline!Width
<1>2. PICK next : next = [m EXCEPT !.local = ((@ \div w) + 1) * w] OBVIOUS
<1>3. Timeline!Widen(m, p) = next BY <1>1, <1>2 DEF Timeline!Widen
<1>4. m.local \in Int /\ m.offset \in Int /\ m = [local |-> m.local, offset |-> m.offset]
  BY DEF Timeline!Moment
<1>5. PICK later \in Int : later = ((m.local \div w) + 1) * w /\ later > m.local
  BY <1>4, NextUnit
<1>6. next = [local |-> later, offset |-> m.offset] BY <1>2, <1>4, <1>5
<1> QED BY <1>3, <1>4, <1>5, <1>6 DEF Timeline!At, Timeline!Moment

LEMMA BoundsSpan ==
  ASSUME NEW x \in Extents, Timeline!Bounds(x) # None
  PROVE  Spanning(Timeline!Bounds(x))
<1>1. /\ {x.start, x.end} \ {None} \subseteq Timeline!Moment
      /\ None \notin {x.start, x.end} => Timeline!At(x.start) <= Timeline!At(x.end)
      /\ x.precision \in {None} \union DOMAIN Timeline!Width
      /\ Timeline!Bounds(x) # Raised
  BY ExtentsAssumption
<1>2. PICK anchor \in Timeline!Moment : anchor = Timeline!Given(x.start, x.end)
  BY <1>1 DEF Timeline!Bounds, Timeline!Given
<1>3. anchor # None BY ExtentsAssumption
<1>4. ASSUME NEW l, NEW u, Timeline!Interval(l, u) = Timeline!Bounds(x)
      PROVE  /\ l # Raised /\ u # Raised
             /\ Timeline!Bounds(x) = [lower |-> l, upper |-> u]
  BY <1>1, <1>4 DEF Timeline!Interval
<1>5. CASE x.uncertainty = "before"
  <2>1. Timeline!Bounds(x) = Timeline!Interval(None, anchor)
    BY <1>2, <1>3, <1>5 DEF Timeline!Bounds, Timeline!UpTo
  <2>2. Timeline!Bounds(x) = [lower |-> None, upper |-> anchor] BY <1>4, <2>1
  <2> QED BY <2>2 DEF Spanning
<1>6. CASE x.uncertainty = "after"
  <2>1. PICK w : w = Timeline!Widen(anchor, x.precision) OBVIOUS
  <2>2. Timeline!Bounds(x) = Timeline!Interval(w, None)
    BY <1>2, <1>3, <1>6, <2>1 DEF Timeline!Bounds
  <2>3. Timeline!Bounds(x) = [lower |-> w, upper |-> None] /\ w # Raised BY <1>4, <2>2
  <2>4. w \in Timeline!Moment BY <1>1, <2>1, <2>3, Widening
  <2> QED BY <2>3, <2>4 DEF Spanning
<1>7. CASE x.uncertainty \notin {"before", "after"}
  <2>1. PICK last : last = Timeline!Given(x.end, x.start) OBVIOUS
  <2>2. last \in Timeline!Moment BY <1>1, <1>2, <1>3, <2>1 DEF Timeline!Given
  <2>3. PICK w : w = Timeline!Widen(last, x.precision) OBVIOUS
  <2>4. Timeline!Bounds(x) = Timeline!Interval(x.start, w)
    BY <1>2, <1>3, <1>7, <2>1, <2>3 DEF Timeline!Bounds
  <2>5. Timeline!Bounds(x) = [lower |-> x.start, upper |-> w] /\ w # Raised BY <1>4, <2>4
  <2>6. w \in Timeline!Moment /\ Timeline!At(last) < Timeline!At(w)
    BY <1>1, <2>2, <2>3, <2>5, Widening
  <2>7. \A m \in Timeline!Moment : Timeline!At(m) \in Int BY DEF Timeline!Moment, Timeline!At
  <2>8. x.start # None => Timeline!At(x.start) < Timeline!At(w)
    <3>1. x.start # None => x.start \in Timeline!Moment BY <1>1
    <3>2. x.start # None => Timeline!At(x.start) <= Timeline!At(last)
      BY <1>1, <2>1, <2>7, <3>1 DEF Timeline!Given
    <3> QED BY <2>2, <2>6, <2>7, <3>1, <3>2
  <2>9. PICK b : b = Timeline!Bounds(x) OBVIOUS
  <2>10. b.lower = x.start /\ b.upper = w /\ b = [lower |-> b.lower, upper |-> b.upper] BY <2>5, <2>9
  <2> QED BY <1>1, <2>6, <2>8, <2>9, <2>10 DEF Spanning
<1> QED BY <1>5, <1>6, <1>7

(* A dated entry of what was read. *)
DatedEntry(e) == e \in Entry /\ Timeline!Bounds(e.extent) # None

LEMMA EntriesSpan ==
  ASSUME NEW e, DatedEntry(e)
  PROVE  Spanning(Timeline!Bounds(e.extent))
BY BoundsSpan DEF DatedEntry, Entry, Extent

LEMMA EndKeys ==
  ASSUME NEW p, p = None \/ p \in Timeline!Moment
  PROVE  /\ \E u \in Int, l \in Int : Timeline!LowerKey(p) = <<IF p = None THEN 0 ELSE 1, u, l>>
         /\ \E u \in Int, l \in Int : Timeline!UpperKey(p) = <<IF p = None THEN 2 ELSE 1, u, l>>
<1>1. CASE p = None BY <1>1 DEF Timeline!LowerKey, Timeline!UpperKey
<1>2. CASE p # None /\ p \in Timeline!Moment
  <2>1. p.local \in Int /\ p.offset \in Int BY <1>2 DEF Timeline!Moment
  <2>2. PICK o \in Int : o = Timeline!OffsetKey(p.offset)
    BY <2>1 DEF Timeline!OffsetKey, Timeline!Width
  <2> QED BY <1>2, <2>1, <2>2 DEF Timeline!LowerKey, Timeline!UpperKey
<1> QED BY <1>1, <1>2

LEMMA Joining ==
  ASSUME NEW S, NEW a \in Seq(S), NEW b \in Seq(S)
  PROVE  /\ a \o b \in Seq(S) /\ Len(a \o b) = Len(a) + Len(b)
         /\ \A i \in 1..Len(a) : (a \o b)[i] = a[i]
         /\ \A i \in 1..Len(b) : (a \o b)[Len(a) + i] = b[i]
OBVIOUS

LEMMA ListsAreFunctions ==
  ASSUME NEW S, NEW n \in Nat, NEW s \in Seq(S), Len(s) = n
  PROVE  s \in [1..n -> S]
OBVIOUS

LEMMA Triple ==
  ASSUME NEW a \in Int, NEW b \in Int, NEW c \in Int
  PROVE  <<a, b, c>> \in Seq(Int)
OBVIOUS

LEMMA Keys ==
  ASSUME NEW e, DatedEntry(e)
  PROVE  /\ Timeline!OrderKey(e) \in [1..7 -> Int]
         /\ Timeline!OrderKey(e)[7] = e.id
         /\ \A i \in 1..3 : Timeline!OrderKey(e)[i] = Timeline!LowerKey(Timeline!Bounds(e.extent).lower)[i]
<1>1. PICK b : b = Timeline!Bounds(e.extent) OBVIOUS
<1>2. (b.lower = None \/ b.lower \in Timeline!Moment) /\ (b.upper = None \/ b.upper \in Timeline!Moment)
  BY <1>1, EntriesSpan DEF Spanning
<1>3. PICK a1 \in Int, a2 \in Int, a3 \in Int : Timeline!LowerKey(b.lower) = <<a1, a2, a3>>
  BY <1>2, EndKeys
<1>4. PICK c1 \in Int, c2 \in Int, c3 \in Int : Timeline!UpperKey(b.upper) = <<c1, c2, c3>>
  BY <1>2, EndKeys
<1>5. e.id \in Int BY IdsAreNumbers DEF DatedEntry, Entry
<1>6. PICK i \in Int : i = e.id BY <1>5
<1>7. Timeline!OrderKey(e) = <<a1, a2, a3>> \o <<c1, c2, c3>> \o <<i>>
  BY <1>1, <1>3, <1>4, <1>6 DEF Timeline!OrderKey
<1>8. PICK a \in Seq(Int) : a = <<a1, a2, a3>> BY Triple
<1>9. PICK c \in Seq(Int) : c = <<c1, c2, c3>> BY Triple
<1>10. PICK d \in Seq(Int) : d = <<i>>
  <2>1. <<i>> \in Seq(Int) OBVIOUS
  <2> QED BY <2>1
<1>11. Len(a) = 3 /\ Len(c) = 3 /\ Len(d) = 1 /\ a[1] = a1 /\ a[2] = a2 /\ a[3] = a3 /\ d[1] = i
  BY <1>8, <1>9, <1>10
<1>12. PICK u \in Seq(Int) : u = a \o c BY Joining
<1>13. Len(u) = 6 /\ \A n \in 1..3 : u[n] = a[n]
  <2>1. Len(a \o c) = Len(a) + Len(c) /\ \A n \in 1..Len(a) : (a \o c)[n] = a[n] BY Joining
  <2>2. Len(u) = 3 + 3 /\ \A n \in 1..3 : u[n] = a[n] BY <1>11, <1>12, <2>1
  <2> QED BY <2>2
<1>14. PICK t \in Seq(Int) : t = u \o d BY Joining
<1>15. Len(t) = 7 /\ t[7] = i /\ \A n \in 1..3 : t[n] = a[n]
  <2>1. Len(t) = 6 + 1 /\ (\A n \in 1..6 : t[n] = u[n]) /\ \A n \in 1..1 : t[6 + n] = d[n]
    <3>1. /\ Len(u \o d) = Len(u) + Len(d)
          /\ \A n \in 1..Len(u) : (u \o d)[n] = u[n]
          /\ \A n \in 1..Len(d) : (u \o d)[Len(u) + n] = d[n]
      BY Joining
    <3> QED BY <1>11, <1>13, <1>14, <3>1
  <2>2. Len(t) = 7 BY <2>1
  <2>3. t[6 + 1] = d[1] BY <2>1
  <2>4. t[7] = d[1] BY <2>3
  <2>5. \A n \in 1..3 : n \in 1..6 OBVIOUS
  <2> QED BY <1>11, <1>13, <2>1, <2>2, <2>4, <2>5
<1>16. Timeline!OrderKey(e) = t BY <1>7, <1>8, <1>9, <1>10, <1>12, <1>14
<1>17. t \in [1..7 -> Int] BY <1>15, ListsAreFunctions
<1>18. \A n \in 1..3 : a[n] = Timeline!LowerKey(b.lower)[n] BY <1>3, <1>8
<1> QED BY <1>1, <1>6, <1>15, <1>16, <1>17, <1>18

(* Which of two entries the key puts first. *)
Earlier(e, f) == Timeline!Less(Timeline!OrderKey(e), Timeline!OrderKey(f))

EarlierIn(S) == {p \in S \X S : Earlier(p[1], p[2])}

Apart(S) == \A e, f \in S : e.id = f.id => e = f

LEMMA EarlierOrders ==
  ASSUME NEW S, \A e \in S : DatedEntry(e), Apart(S)
  PROVE  Orders(EarlierIn(S), S)
<1>1. \A e, f : e \in S /\ f \in S => (<<e, f>> \in EarlierIn(S) <=> Earlier(e, f)) BY DEF EarlierIn
<1>2. \A e \in S : Timeline!OrderKey(e) \in [1..7 -> Int] /\ Timeline!OrderKey(e)[7] = e.id BY Keys
<1>3. 7 \in Nat \ {0} OBVIOUS
<1>4. \A e \in S : ~ Earlier(e, e) BY <1>2, <1>3, LessOrders DEF Earlier
<1>5. \A e, f, g \in S : Earlier(e, f) /\ Earlier(f, g) => Earlier(e, g)
  BY <1>2, <1>3, LessOrders DEF Earlier
<1>6. \A e, f \in S : e # f => Earlier(e, f) \/ Earlier(f, e)
  <2> SUFFICES ASSUME NEW e \in S, NEW f \in S, e # f PROVE Earlier(e, f) \/ Earlier(f, e)
    OBVIOUS
  <2>1. e.id # f.id BY DEF Apart
  <2>2. PICK u \in [1..7 -> Int] : u = Timeline!OrderKey(e) BY <1>2
  <2>3. PICK l \in [1..7 -> Int] : l = Timeline!OrderKey(f) BY <1>2
  <2>4. u[7] # l[7] BY <1>2, <2>1, <2>2, <2>3
  <2>5. Timeline!Less(u, l) \/ Timeline!Less(l, u) BY <1>3, <2>4, LessOrders
  <2> QED BY <2>2, <2>3, <2>5 DEF Earlier
<1> QED BY <1>1, <1>4, <1>5, <1>6 DEF Orders

(* A list of dated entries, each once and in the order of their keys. *)
Line(line, n) ==
  /\ n \in Nat /\ line \in [1..n -> Entry]
  /\ \A i \in 1..n : DatedEntry(line[i])
  /\ \A i, j \in 1..n : i < j => Earlier(line[i], line[j])
  /\ \A i, j \in 1..n : line[i].id = line[j].id => i = j

LEMMA Sorted ==
  ASSUME NEW S, IsFiniteSet(S), \A e \in S : DatedEntry(e), Apart(S)
  PROVE  /\ Line(Timeline!Chronological(S), Cardinality(S))
         /\ \A e : e \in S <=> \E i \in 1..Cardinality(S) : Timeline!Chronological(S)[i] = e
<1>1. PICK n \in Nat : n = Cardinality(S) BY FS_CardinalityType
<1>2. PICK line : line = Ranked(S, EarlierIn(S)) OBVIOUS
<1>3. Timeline!Chronological(S) = line
  <2>1. \A R : Timeline!Ranked(S, R) = Ranked(S, R)
    BY Zenon DEF Timeline!Ranked, Timeline!Cardinality, Ranked, Cardinality
  <2> QED BY <1>2, <2>1, Zenon DEF Timeline!Chronological, EarlierIn, Earlier
<1>4. Orders(EarlierIn(S), S) BY EarlierOrders
<1>5. Ranking(line, S, EarlierIn(S)) BY <1>2, <1>4, RankedIsRanking
<1>6. /\ line \in [1..n -> S]
      /\ \A i, j \in 1..n : i < j => <<line[i], line[j]>> \in EarlierIn(S)
      /\ \A x \in S : \E i \in 1..n : line[i] = x
  BY <1>1, <1>5 DEF Ranking
<1>7. \A i, j \in 1..n : i < j => Earlier(line[i], line[j]) /\ line[i] # line[j]
  BY <1>4, <1>6 DEF EarlierIn, Orders
<1>8. ASSUME NEW i \in 1..n, NEW j \in 1..n, line[i].id = line[j].id PROVE i = j
  <2>1. line[i] = line[j] BY <1>6, <1>8 DEF Apart
  <2>2. ~ (i < j) /\ ~ (j < i) BY <1>7, <2>1
  <2> QED BY <2>2
<1>9. line \in [1..n -> Entry] /\ \A i \in 1..n : DatedEntry(line[i]) BY <1>6 DEF DatedEntry
<1> QED BY <1>1, <1>3, <1>6, <1>7, <1>8, <1>9 DEF Line

(* Of a list without copies every entry counts, and no more once it is read
   backwards first. *)
LEMMA CopiesDoNotCount ==
  ASSUME NEW n, NEW line, Line(line, n)
  PROVE  /\ Timeline!Unique(line) = {line[i] : i \in 1..n}
         /\ Timeline!Unique(Timeline!Ext!Reverse(line) \o line) = {line[i] : i \in 1..n}
<1>1. n \in Nat /\ line \in [1..n -> Entry] /\ \A i, j \in 1..n : line[i].id = line[j].id => i = j
  BY DEF Line
<1>2. Len(line) = n /\ DOMAIN line = 1..n BY <1>1
<1>3. Timeline!Unique(line) = {line[i] : i \in 1..n}
  <2>1. {u \in DOMAIN line : \A j \in 1..(u - 1) : line[j].id # line[u].id} = 1..n BY <1>1, <1>2
  <2> QED BY <2>1 DEF Timeline!Unique
<1>4. PICK back : back = Timeline!Ext!Reverse(line) OBVIOUS
<1>5. back = [i \in 1..n |-> line[(n - i) + 1]] BY <1>2, <1>4 DEF Timeline!Ext!Reverse
<1>6. \A i \in 1..n : (n - i) + 1 \in 1..n BY <1>1
<1>7. back \in [1..n -> Entry] BY <1>1, <1>5, <1>6
<1>8. PICK both : both = back \o line OBVIOUS
<1>9. /\ Len(both) = n + n /\ DOMAIN both = 1..(n + n)
      /\ \A i \in 1..n : both[i] = line[(n - i) + 1]
      /\ \A i \in 1..n : both[n + i] = line[i]
  <2>1. back \in Seq(Entry) /\ Len(back) = n /\ line \in Seq(Entry) BY <1>1, <1>7
  <2>2. /\ Len(both) = n + n /\ DOMAIN both = 1..(n + n)
        /\ \A i \in 1..n : both[i] = back[i]
        /\ \A i \in 1..n : both[n + i] = line[i]
    <3>1. both \in Seq(Entry) BY <1>8, <2>1, Joining
    <3>2. /\ Len(back \o line) = Len(back) + Len(line)
          /\ \A i \in 1..Len(back) : (back \o line)[i] = back[i]
          /\ \A i \in 1..Len(line) : (back \o line)[Len(back) + i] = line[i]
      <4>1. back \in Seq(Entry) /\ line \in Seq(Entry) BY <2>1
      <4> QED BY <4>1
    <3>3. Len(both) = n + n /\ n + n \in Nat BY <1>1, <1>2, <1>8, <2>1, <3>2
    <3> QED BY <1>2, <1>8, <2>1, <3>1, <3>2, <3>3
  <2> QED BY <1>5, <2>2
<1>10. {u \in DOMAIN both : \A j \in 1..(u - 1) : both[j].id # both[u].id} = 1..n
  <2>1. ASSUME NEW u \in 1..n, NEW j \in 1..(u - 1) PROVE both[j].id # both[u].id
    <3>1. j \in 1..n /\ (n - j) + 1 \in 1..n /\ (n - u) + 1 \in 1..n /\ (n - j) + 1 # (n - u) + 1
      BY <1>1, <1>6
    <3> QED BY <1>1, <1>9, <3>1
  <2>2. ASSUME NEW u \in 1..(n + n), u \notin 1..n
        PROVE  \E j \in 1..(u - 1) : both[j].id = both[u].id
    <3>1. u - n \in 1..n /\ n + (u - n) = u BY <1>1, <2>2
    <3>2. PICK j : j = (n - (u - n)) + 1 OBVIOUS
    <3>3. j \in 1..n /\ (n - j) + 1 = u - n /\ j \in 1..(u - 1) BY <1>1, <3>1, <3>2
    <3>4. both[u] = line[u - n] BY <1>9, <3>1
    <3>5. both[j] = line[u - n] BY <1>9, <3>3
    <3> QED BY <3>3, <3>4, <3>5
  <2>3. \A u \in 1..n : u \in 1..(n + n) BY <1>1
  <2> QED BY <1>9, <2>1, <2>2, <2>3
<1>11. Timeline!Unique(both) = {both[i] : i \in 1..n} BY <1>10 DEF Timeline!Unique
<1>12. {both[i] : i \in 1..n} = {line[i] : i \in 1..n}
  <2>1. \A i \in 1..n : \E j \in 1..n : both[i] = line[j] BY <1>6, <1>9
  <2>2. ASSUME NEW i \in 1..n PROVE \E j \in 1..n : line[i] = both[j]
    <3>1. (n - i) + 1 \in 1..n /\ (n - ((n - i) + 1)) + 1 = i BY <1>1
    <3> QED BY <1>9, <3>1
  <2> QED BY <2>1, <2>2
<1> QED BY <1>3, <1>4, <1>8, <1>11, <1>12

(* What can be said of the relation of two entries, whichever was met first. *)
WellRelated(r, e, f) ==
  /\ r.relation \in {"before", "contains", "overlaps", "equals"}
  /\ \/ r.source = e.id /\ r.target = f.id
     \/ r.source = f.id /\ r.target = e.id
  /\ r.relation = "before" =>
       \/ r.source = e.id /\ r.target = f.id
       \/ /\ r.source = f.id /\ r.target = e.id
          /\ Timeline!Disjoint(Timeline!Bounds(f.extent).upper, Timeline!Bounds(e.extent).lower)

LEMMA RelatedWell ==
  ASSUME NEW e, NEW f
  PROVE  WellRelated(Timeline!Related(e, f), e, f)
<1>1. PICK u : u = Timeline!RelateBounds(Timeline!Bounds(e.extent), Timeline!Bounds(f.extent))
  OBVIOUS
<1>2. u \in {"equals", "before", "after", "during", "contains", "overlaps"}
  BY <1>1 DEF Timeline!RelateBounds
<1>3. u = "after" =>
        Timeline!Disjoint(Timeline!Bounds(f.extent).upper, Timeline!Bounds(e.extent).lower)
  BY <1>1 DEF Timeline!RelateBounds
<1>4. Timeline!Related(e, f) =
        CASE u = "after" -> [source |-> f.id, target |-> e.id, relation |-> "before"]
          [] u = "during" -> [source |-> f.id, target |-> e.id, relation |-> "contains"]
          [] OTHER -> [source |-> e.id, target |-> f.id, relation |-> u]
  BY <1>1 DEF Timeline!Related
<1>5. CASE u = "after"
  <2>1. Timeline!Related(e, f) = [source |-> f.id, target |-> e.id, relation |-> "before"]
    BY <1>4, <1>5
  <2> QED BY <1>3, <1>5, <2>1 DEF WellRelated
<1>6. CASE u = "during"
  <2>1. Timeline!Related(e, f) = [source |-> f.id, target |-> e.id, relation |-> "contains"]
    BY <1>4, <1>6
  <2> QED BY <2>1 DEF WellRelated
<1>7. CASE u \notin {"after", "during"}
  <2>1. Timeline!Related(e, f) = [source |-> e.id, target |-> f.id, relation |-> u] BY <1>4, <1>7
  <2>2. u \in {"equals", "before", "contains", "overlaps"} BY <1>2, <1>7
  <2> QED BY <2>1, <2>2 DEF WellRelated
<1> QED BY <1>5, <1>6, <1>7

(* What is over before something else begins has the smaller key, if both
   began on one clock. *)
LEMMA BeforeIsEarlier ==
  ASSUME NEW e, NEW f, DatedEntry(e), DatedEntry(f), Timeline!SameClock(e, f),
         Timeline!Disjoint(Timeline!Bounds(e.extent).upper, Timeline!Bounds(f.extent).lower)
  PROVE  Earlier(e, f)
<1>1. PICK a : a = Timeline!Bounds(e.extent) OBVIOUS
<1>2. PICK b : b = Timeline!Bounds(f.extent) OBVIOUS
<1>3. Spanning(a) /\ Spanning(b) BY <1>1, <1>2, EntriesSpan
<1>4. a.upper # None /\ b.lower # None /\ Timeline!At(a.upper) <= Timeline!At(b.lower)
  BY <1>1, <1>2 DEF Timeline!Disjoint
<1>5. a.lower = None \/ (a.lower # None /\ a.lower.offset = b.lower.offset)
  BY <1>1, <1>2, <1>4 DEF Timeline!SameClock
<1>6. PICK u \in [1..7 -> Int] :
        u = Timeline!OrderKey(e) /\ \A i \in 1..3 : u[i] = Timeline!LowerKey(a.lower)[i]
  BY <1>1, Keys
<1>7. PICK l \in [1..7 -> Int] :
        l = Timeline!OrderKey(f) /\ \A i \in 1..3 : l[i] = Timeline!LowerKey(b.lower)[i]
  BY <1>2, Keys
<1>8. \E i \in 1..7 : u[i] < l[i] /\ \A j \in 1..(i - 1) : u[j] = l[j]
  <2>1. l[1] = 1 /\ l[2] = b.lower.local BY <1>4, <1>7 DEF Timeline!LowerKey
  <2>2. CASE a.lower = None
    <3>1. u[1] = 0 BY <1>6, <2>2 DEF Timeline!LowerKey
    <3>2. u[1] < l[1] /\ \A j \in 1..(1 - 1) : u[j] = l[j] BY <2>1, <3>1
    <3> QED BY <3>2
  <2>3. CASE a.lower # None
    <3>1. u[1] = 1 /\ u[2] = a.lower.local BY <1>6, <2>3 DEF Timeline!LowerKey
    <3>2. a.lower \in Timeline!Moment /\ a.upper \in Timeline!Moment /\ b.lower \in Timeline!Moment
      BY <1>3, <1>4, <2>3 DEF Spanning
    <3>3. Timeline!At(a.lower) < Timeline!At(a.upper) BY <1>3, <1>4, <2>3 DEF Spanning
    <3>4. \A m \in Timeline!Moment : m.local \in Int /\ m.offset \in Int BY DEF Timeline!Moment
    <3>5. a.lower.local - a.lower.offset < b.lower.local - b.lower.offset
      BY <1>4, <3>2, <3>3, <3>4 DEF Timeline!At
    <3>6. a.lower.local < b.lower.local BY <1>5, <2>3, <3>2, <3>4, <3>5
    <3>7. u[2] < l[2] /\ \A j \in 1..(2 - 1) : u[j] = l[j] BY <2>1, <3>1, <3>6
    <3> QED BY <3>7
  <2> QED BY <2>2, <2>3
<1>9. Timeline!Less(u, l) BY <1>8 DEF Timeline!Less
<1> QED BY <1>6, <1>7, <1>9 DEF Earlier

LEMMA EarlierOneWay ==
  ASSUME NEW e, NEW f, DatedEntry(e), DatedEntry(f), Earlier(e, f)
  PROVE  ~ Earlier(f, e)
<1>1. PICK u \in [1..7 -> Int] : u = Timeline!OrderKey(e) BY Keys
<1>2. PICK l \in [1..7 -> Int] : l = Timeline!OrderKey(f) BY Keys
<1>3. 7 \in Nat \ {0} OBVIOUS
<1>4. ~ Timeline!Less(u, u) /\ (Timeline!Less(u, l) /\ Timeline!Less(l, u) => Timeline!Less(u, u))
  BY <1>3, LessOrders
<1> QED BY <1>1, <1>2, <1>4 DEF Earlier

(* Each pair of a line, in its order. *)
PairsOf(line, n) ==
  {Timeline!Related(line[p[1]], line[p[2]]) : p \in {q \in (1..n) \X (1..n) : q[1] < q[2]}}

LEMMA PairsAre ==
  ASSUME NEW n, NEW line
  PROVE  \A r : r \in PairsOf(line, n) <=>
           \E i, j \in 1..n : i < j /\ r = Timeline!Related(line[i], line[j])
<1>1. \A r : r \in PairsOf(line, n) <=>
        \E p \in (1..n) \X (1..n) : p[1] < p[2] /\ r = Timeline!Related(line[p[1]], line[p[2]])
  BY DEF PairsOf
<1>2. \A i, j : i \in 1..n /\ j \in 1..n =>
        <<i, j>> \in (1..n) \X (1..n) /\ <<i, j>>[1] = i /\ <<i, j>>[2] = j
  OBVIOUS
<1>3. \A p \in (1..n) \X (1..n) : p[1] \in 1..n /\ p[2] \in 1..n OBVIOUS
<1>4. ASSUME NEW i \in 1..n, NEW j \in 1..n, i < j
      PROVE  Timeline!Related(line[i], line[j]) \in PairsOf(line, n)
  <2>1. PICK p \in (1..n) \X (1..n) : p[1] = i /\ p[2] = j BY <1>2
  <2> QED BY <1>1, <1>4, <2>1
<1>5. ASSUME NEW r \in PairsOf(line, n)
      PROVE  \E i, j \in 1..n : i < j /\ r = Timeline!Related(line[i], line[j])
  <2>1. PICK p \in (1..n) \X (1..n) : p[1] < p[2] /\ r = Timeline!Related(line[p[1]], line[p[2]])
    BY <1>1
  <2> QED BY <1>3, <2>1
<1> QED BY <1>4, <1>5

(* The relations of two entities. *)
Between(S, a, b) == {r \in S : {r.source, r.target} = {a, b}}

LEMMA PairsAgree ==
  ASSUME NEW n, NEW line, Line(line, n)
  PROVE  /\ \A i, j \in 1..n : i # j =>
              Cardinality(Between(PairsOf(line, n), line[i].id, line[j].id)) = 1
         /\ \A r \in PairsOf(line, n) :
              /\ r.relation \in {"before", "contains", "overlaps", "equals"}
              /\ \A i, j \in 1..n :
                   /\ r.relation = "before" /\ r.source = line[i].id /\ r.target = line[j].id
                   /\ Timeline!SameClock(line[i], line[j])
                   => i < j
              /\ \E i, j \in 1..n : r.source = line[i].id /\ r.target = line[j].id
<1>1. /\ n \in Nat /\ \A i \in 1..n : DatedEntry(line[i])
      /\ \A i, j \in 1..n : i < j => Earlier(line[i], line[j])
      /\ \A i, j \in 1..n : line[i].id = line[j].id => i = j
  BY DEF Line
<1>2. ASSUME NEW i \in 1..n, NEW j \in 1..n, i < j
      PROVE  LET r == Timeline!Related(line[i], line[j]) IN
               Between(PairsOf(line, n), line[i].id, line[j].id) = {r}
  <2>1. PICK r : r = Timeline!Related(line[i], line[j]) OBVIOUS
  <2>2. r \in PairsOf(line, n) BY <1>2, <2>1, PairsAre
  <2>3. {r.source, r.target} = {line[i].id, line[j].id}
    <3>1. WellRelated(r, line[i], line[j]) BY <2>1, RelatedWell
    <3> QED BY <3>1 DEF WellRelated
  <2>4. ASSUME NEW q \in PairsOf(line, n), {q.source, q.target} = {line[i].id, line[j].id}
        PROVE  q = r
    <3>1. PICK g \in 1..n, h \in 1..n : g < h /\ q = Timeline!Related(line[g], line[h]) BY PairsAre
    <3>2. {line[g].id, line[h].id} = {line[i].id, line[j].id}
      <4>1. WellRelated(q, line[g], line[h]) BY <3>1, RelatedWell
      <4> QED BY <2>4, <4>1 DEF WellRelated
    <3>3. (g = i /\ h = j) \/ (g = j /\ h = i) \/ (g = i /\ h = i) \/ (g = j /\ h = j)
      BY <1>1, <3>2
    <3>4. g = i /\ h = j BY <1>1, <1>2, <3>1, <3>2, <3>3
    <3> QED BY <2>1, <3>1, <3>4
  <2> QED BY <2>1, <2>2, <2>3, <2>4 DEF Between
<1>3. ASSUME NEW i \in 1..n, NEW j \in 1..n, i # j
      PROVE  Cardinality(Between(PairsOf(line, n), line[i].id, line[j].id)) = 1
  <2>1. CASE i < j
    <3>1. Between(PairsOf(line, n), line[i].id, line[j].id) = {Timeline!Related(line[i], line[j])}
      BY <1>2, <2>1
    <3> QED BY <3>1, FS_Singleton
  <2>2. CASE j < i
    <3>1. Between(PairsOf(line, n), line[j].id, line[i].id) = {Timeline!Related(line[j], line[i])}
      BY <1>2, <2>2
    <3>2. \A S, a, c : Between(S, a, c) = Between(S, c, a)
      <4>1. \A a, c : {a, c} = {c, a} OBVIOUS
      <4> QED BY <4>1 DEF Between
    <3> QED BY <3>1, <3>2, FS_Singleton
  <2> QED BY <1>1, <1>3, <2>1, <2>2
<1>4. ASSUME NEW r \in PairsOf(line, n)
      PROVE  /\ r.relation \in {"before", "contains", "overlaps", "equals"}
             /\ \A i, j \in 1..n :
                  /\ r.relation = "before" /\ r.source = line[i].id /\ r.target = line[j].id
                  /\ Timeline!SameClock(line[i], line[j])
                  => i < j
             /\ \E i, j \in 1..n : r.source = line[i].id /\ r.target = line[j].id
  <2>1. PICK g \in 1..n, h \in 1..n : g < h /\ r = Timeline!Related(line[g], line[h])
    BY <1>4, PairsAre
  <2>2. /\ r.relation \in {"before", "contains", "overlaps", "equals"}
        /\ \/ r.source = line[g].id /\ r.target = line[h].id
           \/ r.source = line[h].id /\ r.target = line[g].id
        /\ r.relation = "before" =>
             \/ r.source = line[g].id /\ r.target = line[h].id
             \/ /\ r.source = line[h].id /\ r.target = line[g].id
                /\ Timeline!Disjoint(Timeline!Bounds(line[h].extent).upper,
                                     Timeline!Bounds(line[g].extent).lower)
    <3>1. WellRelated(r, line[g], line[h]) BY <2>1, RelatedWell
    <3> QED BY <3>1 DEF WellRelated
  <2>3. ASSUME NEW i \in 1..n, NEW j \in 1..n, r.relation = "before",
               r.source = line[i].id, r.target = line[j].id, Timeline!SameClock(line[i], line[j])
        PROVE  i < j
    <3>1. CASE r.source = line[g].id /\ r.target = line[h].id BY <1>1, <2>1, <2>3, <3>1
    <3>2. CASE ~ (r.source = line[g].id /\ r.target = line[h].id)
      <4>1. i = h /\ j = g BY <1>1, <2>2, <2>3, <3>2
      <4>2. Timeline!Disjoint(Timeline!Bounds(line[h].extent).upper,
                              Timeline!Bounds(line[g].extent).lower)
        BY <2>2, <2>3, <3>2
      <4>3. Earlier(line[h], line[g]) BY <1>1, <2>3, <4>1, <4>2, BeforeIsEarlier
      <4>4. ~ Earlier(line[h], line[g]) BY <1>1, <2>1, EarlierOneWay
      <4> QED BY <4>3, <4>4
    <3> QED BY <3>1, <3>2
  <2> QED BY <2>2, <2>3
<1> QED BY <1>3, <1>4

(* The property, of any line and what was found on it. *)
Follows(line, found, again) ==
  LET Place(id) == CHOOSE i \in DOMAIN line : line[i].id = id
  IN found # Raised =>
       /\ found = again
       /\ \A i, j \in DOMAIN line : i # j =>
            Timeline!Cardinality({r \in found : {r.source, r.target} = {line[i].id, line[j].id}}) = 1
       /\ \A r \in found :
            /\ r.relation \in {"before", "contains", "overlaps", "equals"}
            /\ r.relation = "before" /\ Timeline!SameClock(line[Place(r.source)], line[Place(r.target)])
                 => Place(r.source) < Place(r.target)

LEMMA RelationsFollow ==
  ASSUME ScanInv
  PROVE  Timeline!RelationsFollowTheTimeline
<1>1. PICK T : T = {e \in Timeline!Ext!ToSet(yielded) : Timeline!InWindow(e)} OBVIOUS
<1>2. \A e \in T : (\E i \in 1..Len(yielded) : yielded[i] = e) /\ Timeline!Bounds(e.extent) # None
  <2>1. DOMAIN yielded = 1..Len(yielded) BY DEF ScanInv
  <2>2. \A e \in Timeline!Ext!ToSet(yielded) : \E i \in 1..Len(yielded) : yielded[i] = e
    BY <2>1, Zenon DEF Timeline!Ext!ToSet
  <2> QED BY <1>1, <2>2 DEF Timeline!InWindow, Timeline!Dated
<1>3. \A e \in T : DatedEntry(e)
  <2>1. \A i \in 1..Len(yielded) : yielded[i] \in Entry BY DEF ScanInv
  <2> QED BY <1>2, <2>1 DEF DatedEntry
<1>4. Apart(T) BY <1>2, YieldedApart DEF Apart
<1>5. IsFiniteSet(T)
  <2>1. PICK m \in Nat : m = Len(yielded) BY DEF ScanInv
  <2>2. IsFiniteSet(1..m) BY <2>1, FS_Interval
  <2>3. IsFiniteSet({yielded[i] : i \in 1..m})
    <3>1. PICK R : R = {yielded[i] : i \in 1..m} OBVIOUS
    <3>2. yielded \in Surjection(1..m, R) BY <2>1, <3>1 DEF Surjection, ScanInv
    <3> QED BY <2>2, <3>1, <3>2, FS_Surjection
  <2>4. T \subseteq {yielded[i] : i \in 1..m} BY <1>2, <2>1
  <2> QED BY <2>3, <2>4, FS_Subset
<1>6. PICK n \in Nat : n = Cardinality(T) BY <1>5, FS_CardinalityType
<1>7. PICK line : line = Timeline!Chronological(T) OBVIOUS
<1>8. Line(line, n) /\ \A e : e \in T <=> \E i \in 1..n : line[i] = e
  BY <1>3, <1>4, <1>5, <1>6, <1>7, Sorted
<1>9. T = {line[i] : i \in 1..n} BY <1>8
<1>10. Timeline!Timeline = line BY <1>1, <1>7 DEF Timeline!Timeline
<1>11. DOMAIN line = 1..n /\ Len(line) = n BY <1>8 DEF Line
<1>12. PICK found : found = Timeline!InferRelations(line) OBVIOUS
<1>13. ASSUME NEW es, Timeline!Unique(es) = T
       PROVE  Timeline!InferRelations(es) =
                IF (n * (n - 1)) \div 2 > MaxPairs THEN Raised ELSE PairsOf(line, n)
  <2>1. {e \in Timeline!Unique(es) : Timeline!Dated(e)} = T BY <1>2, <1>13 DEF Timeline!Dated
  <2> QED BY <1>7, <1>11, <2>1 DEF Timeline!InferRelations, PairsOf
<1>14. Timeline!Unique(line) = T /\ Timeline!Unique(Timeline!Ext!Reverse(line) \o line) = T
  BY <1>8, <1>9, CopiesDoNotCount
<1>15. found = Timeline!InferRelations(Timeline!Ext!Reverse(line) \o line) BY <1>12, <1>13, <1>14
<1>16. ASSUME found # Raised PROVE found = PairsOf(line, n) BY <1>12, <1>13, <1>14, <1>16
<1>17. Follows(line, found, Timeline!InferRelations(Timeline!Ext!Reverse(line) \o line))
  <2> DEFINE Place(id) == CHOOSE i \in DOMAIN line : line[i].id = id
  <2>1. ASSUME NEW i \in 1..n PROVE Place(line[i].id) = i
    BY <1>8, <1>11 DEF Line
  <2> HIDE DEF Place
  <2> SUFFICES ASSUME found # Raised
               PROVE  /\ \A i, j \in DOMAIN line : i # j =>
                           Timeline!Cardinality({r \in found :
                             {r.source, r.target} = {line[i].id, line[j].id}}) = 1
                      /\ \A r \in found :
                           /\ r.relation \in {"before", "contains", "overlaps", "equals"}
                           /\ /\ r.relation = "before"
                              /\ Timeline!SameClock(line[Place(r.source)], line[Place(r.target)])
                              => Place(r.source) < Place(r.target)
    BY <1>15 DEF Follows, Place
  <2>2. found = PairsOf(line, n) BY <1>16
  <2>3. ASSUME NEW i \in DOMAIN line, NEW j \in DOMAIN line, i # j
        PROVE  Timeline!Cardinality({r \in found : {r.source, r.target} = {line[i].id, line[j].id}}) = 1
    <3>1. {r \in found : {r.source, r.target} = {line[i].id, line[j].id}} =
            Between(found, line[i].id, line[j].id)
      BY DEF Between
    <3>2. Cardinality(Between(found, line[i].id, line[j].id)) = 1
      BY <1>8, <1>11, <2>2, <2>3, PairsAgree
    <3>3. \A S : Timeline!Cardinality(S) = Cardinality(S)
      BY Zenon DEF Timeline!Cardinality, Cardinality
    <3> QED BY <3>1, <3>2, <3>3
  <2>4. ASSUME NEW r \in found
        PROVE  /\ r.relation \in {"before", "contains", "overlaps", "equals"}
               /\ /\ r.relation = "before"
                  /\ Timeline!SameClock(line[Place(r.source)], line[Place(r.target)])
                  => Place(r.source) < Place(r.target)
    <3>1. PICK i \in 1..n, j \in 1..n : r.source = line[i].id /\ r.target = line[j].id
      BY <1>8, <2>2, PairsAgree
    <3>2. Place(r.source) = i /\ Place(r.target) = j BY <2>1, <3>1
    <3> QED BY <1>8, <2>2, <3>1, <3>2, PairsAgree
  <2> QED BY <2>3, <2>4
<1>18. Follows(Timeline!Timeline, Timeline!InferRelations(Timeline!Timeline),
               Timeline!InferRelations(Timeline!Ext!Reverse(Timeline!Timeline) \o Timeline!Timeline))
  BY <1>10, <1>12, <1>17
<1> QED BY <1>18, Zenon DEF Timeline!RelationsFollowTheTimeline, Follows

(***************************************************************************)
(* Whatever order the entities of a scan come in and however often, every  *)
(* pair is related once and by a relation that reads forwards, and of two  *)
(* that begin on one clock the one that is before the other comes before   *)
(* it on the timeline, for any extents and any number of entities          *)
(* (temporal/inference.py:205-276).                                        *)
(***************************************************************************)
THEOREM RelationsAgree == AlgorithmsSpec => []RelationsFollowTheTimeline
<1>1. (part = "timeline" => ScanInv) => RelationsFollowTheTimeline
  BY RelationsFollow DEF RelationsFollowTheTimeline
<1> QED BY <1>1, ScansHold, PTL

-----------------------------------------------------------------------------
(* Themes *)

LEMMA ThemesSort ==
  \A S, R : /\ Clusters!Ranked(S, R) = Ranked(S, R)
            /\ Clusters!Ascending(S) = Ascending(S)
            /\ Clusters!Count(S) = Cardinality(S)
BY Zenon DEF Clusters!Ranked, Clusters!Ascending, Clusters!Count, Clusters!Cardinality,
             Ranked, Ascending, Cardinality

OnPage == {page[i] : i \in DOMAIN page}

(* Up to where everything that stood still has been read. *)
ReadUpTo(x) ==
  \/ phase = "entities" /\ x <= lastRead
  \/ phase = "edges" /\ (Len(page) < NodesPerPage \/ x <= page[Len(page)])
  \/ phase \in {"moving", "describing", "done"}

(* Of which entities the edges have been read. *)
EdgesRead(x) == x \in entities /\ ~ (phase = "edges" /\ x \in OnPage)

Tenant ==
  /\ held \subseteq Clusters!Ids
  /\ \A e \in edges : {e.source, e.target} \subseteq held

(* The entities that stood still are read up to there, and so are their
   edges. *)
Topology ==
  /\ entities \subseteq Clusters!Ids
  /\ lastRead \in Nat
  /\ phase = "edges" => page \in Seq(Nat)
  /\ \A x \in held \ written.entities : ReadUpTo(x) => x \in entities
  /\ \A e \in edges \ written.edges :
       EdgesRead(e.source) \/ EdgesRead(e.target) => e \in byId

(* Every entity read has a community, ... *)
Partitioned == phase \in {"moving", "describing", "done"} => DOMAIN community = entities

(* ... and a large one the answer to its own prompt, if it has any. *)
Described ==
  phase \in {"describing", "done"} =>
    /\ DOMAIN answers = Clusters!Large
    /\ \A c \in Clusters!Large :
         /\ answers[c] \in {Pending, Failure, Clusters!Prompt(c)}
         /\ phase = "done" => answers[c] # Pending

ThemesInv == Tenant /\ Topology /\ Partitioned /\ Described

LEMMA ThemesStart == ASSUME Clusters!Init PROVE ThemesInv
<1>1. PICK t \in Tenants : held = t.entities /\ edges = t.edges BY DEF Clusters!Init
<1>2. /\ phase = "entities" /\ lastRead = 0 /\ entities = {} BY DEF Clusters!Init
<1>3. Tenant BY <1>1, ThemesAssumption DEF Tenant, Clusters!Ids
<1>4. \A x \in held : ~ (x <= 0)
  BY <1>3, ThemesAssumption DEF Tenant, Clusters!Ids
<1>5. Topology BY <1>2, <1>4 DEF Topology, ReadUpTo, EdgesRead
<1> QED BY <1>2, <1>3, <1>5 DEF ThemesInv, Partitioned, Described

LEMMA ReadingEntities ==
  ASSUME ThemesInv, Clusters!ReadEntities
  PROVE  ThemesInv'
<1> DEFINE after == {x \in held : x > lastRead}
<1>1. PICK p : p = Clusters!NextPage OBVIOUS
<1>2. IsPage(p, after, NodesPerPage)
  <2>1. PICK order : order = Clusters!Ranked(after, Clusters!Ascending(after)) OBVIOUS
  <2>2. order = Ranked(after, Ascending(after))
    <3> HIDE DEF after
    <3> QED BY <2>1, ThemesSort
  <2> QED BY <1>1, <2>1, <2>2, Zenon DEF Clusters!NextPage, IsPage
<1>3. after \in SUBSET Nat /\ IsFiniteSet(after)
  <2>1. IsFiniteSet(Clusters!Ids) /\ \A x \in Clusters!Ids : x \in Nat
    BY ThemesAssumption, FS_Interval DEF Clusters!Ids
  <2>2. after \subseteq Clusters!Ids BY DEF ThemesInv, Tenant
  <2> HIDE DEF after
  <2> QED BY <2>1, <2>2, FS_Subset
<1>4. \A x : x \in after <=> x \in held /\ x > lastRead OBVIOUS
<1> HIDE DEF after
<1>5. /\ p \in Seq(after) /\ Len(p) \in Nat
      /\ Len(p) < NodesPerPage => \A x \in after : \E i \in 1..Len(p) : p[i] = x
      /\ ~ (Len(p) < NodesPerPage) =>
           \A x \in after : x <= p[Len(p)] => \E i \in 1..Len(p) : p[i] = x
  BY <1>2, <1>3, FirstPage, ThemesAssumption
<1>6. PICK got : got = {p[i] : i \in 1..Len(p)} OBVIOUS
<1>7. /\ phase = "entities" /\ phase' = "edges" /\ page' = p /\ entities' = entities \union got
      /\ UNCHANGED <<held, edges, written, lastRead, byId>>
  <2>1. DOMAIN p = 1..Len(p) BY <1>5
  <2> QED BY <1>1, <1>6, <2>1, Zenon
          DEF Clusters!ReadEntities, Clusters!Ext!ToSet, Clusters!store, Clusters!scan
<1>8. Tenant' BY <1>7 DEF ThemesInv, Tenant
<1>9. Topology'
  <2>1. entities' \subseteq Clusters!Ids
    BY <1>4, <1>5, <1>6, <1>7 DEF ThemesInv, Tenant, Topology
  <2>2. p \in Seq(Nat)
    <3>1. \A x \in after : x \in Nat BY <1>3
    <3>2. p \in [1..Len(p) -> Nat] BY <1>5, <3>1
    <3> QED BY <1>5, <3>2
  <2>3. ASSUME NEW x \in held, x \notin written.entities, ReadUpTo(x)'
        PROVE  x \in entities'
    <3>1. x \in Nat /\ lastRead \in Nat BY <1>3, <1>4, ThemesAssumption DEF ThemesInv, Tenant, Topology, Clusters!Ids
    <3>2. CASE x <= lastRead BY <1>7, <2>3, <3>2 DEF ThemesInv, Topology, ReadUpTo
    <3>3. CASE ~ (x <= lastRead)
      <4>1. x \in after BY <1>4, <2>3, <3>1, <3>3
      <4>2. Len(p) < NodesPerPage \/ x <= p[Len(p)] BY <1>7, <2>3 DEF ReadUpTo
      <4>3. \E i \in 1..Len(p) : p[i] = x BY <1>5, <4>1, <4>2
      <4> QED BY <1>6, <1>7, <4>3
    <3> QED BY <3>2, <3>3
  <2>4. ASSUME NEW e \in edges, e \notin written.edges, NEW x \in {e.source, e.target}, EdgesRead(x)'
        PROVE  e \in byId
    <3>1. x \notin got /\ x \in entities
      <4>1. DOMAIN p = 1..Len(p) BY <1>5
      <4>2. OnPage' = got BY <1>6, <1>7, <4>1 DEF OnPage
      <4> QED BY <1>7, <2>4, <4>2 DEF EdgesRead
    <3>2. EdgesRead(x) BY <1>7, <3>1 DEF EdgesRead
    <3> QED BY <2>4, <3>2 DEF ThemesInv, Topology
  <2> QED BY <1>7, <2>1, <2>2, <2>3, <2>4 DEF ThemesInv, Topology
<1> QED BY <1>7, <1>8, <1>9 DEF ThemesInv, Partitioned, Described

LEMMA ReadingEdges ==
  ASSUME ThemesInv, Clusters!ReadEdges
  PROVE  ThemesInv'
<1>1. /\ phase = "edges" /\ page \in Seq(Nat) /\ UNCHANGED <<held, edges, written, entities>>
      /\ byId' = byId \union {e \in edges : e.source \in OnPage \/ e.target \in OnPage}
  BY Zenon DEF Clusters!ReadEdges, Clusters!Touching, Clusters!Ext!ToSet, Clusters!store, OnPage,
               ThemesInv, Topology
<1>2. IF Len(page) < NodesPerPage
      THEN phase' = "moving" /\ lastRead' = lastRead /\ community' = [x \in entities |-> x]
      ELSE phase' = "entities" /\ lastRead' = page[Len(page)]
  BY DEF Clusters!ReadEdges, Clusters!Ext!Last
<1>3. Tenant' BY <1>1 DEF ThemesInv, Tenant
<1>4. lastRead' \in Nat
  <2>1. CASE Len(page) < NodesPerPage BY <1>2, <2>1 DEF ThemesInv, Topology
  <2>2. CASE ~ (Len(page) < NodesPerPage)
    <3>1. Len(page) \in 1..Len(page) BY <1>1, <2>2, ThemesAssumption
    <3> QED BY <1>1, <1>2, <2>2, <3>1
  <2> QED BY <2>1, <2>2
<1>5. \A x : ReadUpTo(x)' => ReadUpTo(x) BY <1>1, <1>2 DEF ReadUpTo
<1>6. ASSUME NEW e \in edges, e \notin written.edges, NEW x \in {e.source, e.target}, EdgesRead(x)'
      PROVE  e \in byId'
  <2>1. x \in entities BY <1>1, <1>6 DEF EdgesRead
  <2>2. CASE x \in OnPage BY <1>1, <1>6, <2>2
  <2>3. CASE x \notin OnPage
    <3>1. EdgesRead(x) BY <2>1, <2>3 DEF EdgesRead
    <3> QED BY <1>1, <1>6, <3>1 DEF ThemesInv, Topology
  <2> QED BY <2>2, <2>3
<1>7. phase' # "edges" BY <1>2
<1>8. Topology' BY <1>1, <1>4, <1>5, <1>6, <1>7 DEF ThemesInv, Topology
<1>9. Partitioned' /\ Described' BY <1>1, <1>2 DEF Partitioned, Described
<1> QED BY <1>3, <1>8, <1>9 DEF ThemesInv

(* What a cluster is depends on the topology and the communities alone. *)
LEMMA ClustersStay ==
  ASSUME UNCHANGED <<entities, byId, community>>
  PROVE  /\ Clusters!Communities' = Clusters!Communities
         /\ Clusters!Large' = Clusters!Large
         /\ \A c : Clusters!Prompt(c)' = Clusters!Prompt(c)
BY DEF Clusters!Communities, Clusters!Large, Clusters!Members, Clusters!Prompt, Clusters!Shown,
       Clusters!Degree, Clusters!DegreeOf, Clusters!Kept

LEMMA Clustering ==
  ASSUME ThemesInv, Clusters!Visit \/ Clusters!PassAgain \/ Clusters!Clustered \/ Clusters!Stall
  PROVE  ThemesInv'
<1>1. UNCHANGED <<held, edges, written, lastRead, page, entities, byId>>
  BY DEF Clusters!Visit, Clusters!PassAgain, Clusters!Clustered, Clusters!Stall, Clusters!store,
         Clusters!scan
<1>2. \/ phase = "moving" /\ phase' \in {"moving", "describing"}
      \/ phase = "entities" /\ phase' = "raised"
  BY DEF Clusters!Visit, Clusters!PassAgain, Clusters!Clustered, Clusters!Stall
<1>3. \A x : ReadUpTo(x)' => ReadUpTo(x) BY <1>1, <1>2 DEF ReadUpTo
<1>4. \A x : EdgesRead(x)' => EdgesRead(x) BY <1>1, <1>2 DEF EdgesRead
<1>5. Tenant' BY <1>1 DEF ThemesInv, Tenant
<1>6. Topology' BY <1>1, <1>2, <1>3, <1>4 DEF ThemesInv, Topology
<1>7. DOMAIN community' = DOMAIN community
  BY DEF Clusters!Visit, Clusters!PassAgain, Clusters!Clustered, Clusters!Stall,
         Clusters!clustering
<1>8. Partitioned' BY <1>1, <1>2, <1>7 DEF ThemesInv, Partitioned
<1>9. Described'
  <2>1. CASE Clusters!Clustered
    <3>1. /\ phase' = "describing" /\ answers' = [c \in Clusters!Large |-> Pending]
          /\ community' = community
      BY <2>1 DEF Clusters!Clustered, Clusters!clustering
    <3>2. Clusters!Large' = Clusters!Large BY <1>1, <3>1, ClustersStay
    <3> QED BY <3>1, <3>2 DEF Described
  <2>2. CASE phase' \notin {"describing", "done"} BY <2>2 DEF Described
  <2> QED BY <2>1, <2>2 DEF Clusters!Visit, Clusters!PassAgain, Clusters!Stall
<1> QED BY <1>5, <1>6, <1>8, <1>9 DEF ThemesInv

LEMMA Describing ==
  ASSUME ThemesInv, NEW c \in DOMAIN answers, NEW a \in {Clusters!Prompt(c), Failure},
         Clusters!Describe(c, a)
  PROVE  ThemesInv'
<1>1. /\ phase = "describing" /\ phase' = phase /\ answers' = [answers EXCEPT ![c] = a]
      /\ UNCHANGED <<held, edges, written, lastRead, page, entities, byId, community>>
  BY DEF Clusters!Describe, Clusters!store, Clusters!scan, Clusters!clustering
<1>2. Tenant' BY <1>1 DEF ThemesInv, Tenant
<1>3. Topology' /\ Partitioned'
  BY <1>1 DEF ThemesInv, Topology, ReadUpTo, EdgesRead, OnPage, Partitioned
<1>4. Described'
  <2>1. /\ Clusters!Large' = Clusters!Large
        /\ \A d : Clusters!Prompt(d)' = Clusters!Prompt(d)
    BY <1>1, ClustersStay
  <2>2. DOMAIN answers' = Clusters!Large BY <1>1 DEF ThemesInv, Described
  <2>3. ASSUME NEW d \in Clusters!Large
        PROVE  answers'[d] \in {Pending, Failure, Clusters!Prompt(d)}
    <3>1. answers'[d] = IF d = c THEN a ELSE answers[d] BY <1>1 DEF ThemesInv, Described
    <3> QED BY <1>1, <3>1 DEF ThemesInv, Described
  <2> QED BY <1>1, <2>1, <2>2, <2>3 DEF Described
<1> QED BY <1>2, <1>3, <1>4 DEF ThemesInv

LEMMA Reporting ==
  ASSUME ThemesInv, Clusters!Report
  PROVE  ThemesInv'
<1>1. /\ phase = "describing" /\ phase' \in {"raised", "done"}
      /\ \A c \in DOMAIN answers : answers[c] # Pending
      /\ UNCHANGED <<held, edges, written, lastRead, page, entities, byId, community, answers>>
  BY DEF Clusters!Report, Clusters!store, Clusters!scan, Clusters!clustering
<1>2. Tenant' BY <1>1 DEF ThemesInv, Tenant
<1>3. Topology' /\ Partitioned'
  BY <1>1 DEF ThemesInv, Topology, ReadUpTo, EdgesRead, OnPage, Partitioned
<1>4. Described'
  <2>1. /\ Clusters!Large' = Clusters!Large
        /\ \A d : Clusters!Prompt(d)' = Clusters!Prompt(d)
    BY <1>1, ClustersStay
  <2> QED BY <1>1, <2>1 DEF ThemesInv, Described
<1> QED BY <1>2, <1>3, <1>4 DEF ThemesInv

LEMMA Meanwhile ==
  ASSUME ThemesInv,
         \/ \E x \in Clusters!Ids : Clusters!Appear(x)
         \/ \E e \in Edges : Clusters!PutEdge(e) \/ Clusters!DropEdge(e)
  PROVE  ThemesInv'
<1>1. \E es, rs :
        /\ Clusters!Writes(es, rs)
        /\ held \subseteq held' /\ held' \subseteq held \union es /\ es \subseteq Clusters!Ids
        /\ edges' \ rs \subseteq edges
        /\ \A e \in edges' : e \in edges \/ {e.source, e.target} \subseteq held
  <2>1. ASSUME NEW x \in Clusters!Ids, Clusters!Appear(x) PROVE <1>1!:
    <3>1. Clusters!Writes({x}, {}) /\ held' = held \union {x} /\ edges' = edges
      BY <2>1 DEF Clusters!Appear
    <3> QED BY <3>1
  <2>2. ASSUME NEW e \in Edges, Clusters!PutEdge(e) PROVE <1>1!:
    <3>1. /\ Clusters!Writes({}, {e}) /\ edges' = edges \union {e} /\ held' = held
          /\ {e.source, e.target} \subseteq held
      BY <2>2 DEF Clusters!PutEdge
    <3> QED BY <3>1
  <2>3. ASSUME NEW e \in Edges, Clusters!DropEdge(e) PROVE <1>1!:
    <3>1. Clusters!Writes({}, {e}) /\ edges' = edges \ {e} /\ held' = held
      BY <2>3 DEF Clusters!DropEdge
    <3> QED BY <3>1
  <2> QED BY <2>1, <2>2, <2>3
<1>2. PICK es, rs :
        /\ Clusters!Writes(es, rs)
        /\ held \subseteq held' /\ held' \subseteq held \union es /\ es \subseteq Clusters!Ids
        /\ edges' \ rs \subseteq edges
        /\ \A e \in edges' : e \in edges \/ {e.source, e.target} \subseteq held
  BY <1>1
<1>3. /\ phase \in {"entities", "edges"} /\ phase' = phase
      /\ written'.entities = written.entities \union es /\ written'.edges = written.edges \union rs
      /\ UNCHANGED <<lastRead, page, entities, byId>>
  BY <1>2 DEF Clusters!Writes, Clusters!scan
<1>4. Tenant' BY <1>2 DEF ThemesInv, Tenant
<1>5. \A x : (ReadUpTo(x)' <=> ReadUpTo(x)) /\ (EdgesRead(x)' <=> EdgesRead(x))
  BY <1>3 DEF ReadUpTo, EdgesRead, OnPage
<1>6. /\ \A x \in held' \ written'.entities : x \in held \ written.entities
      /\ \A e \in edges' \ written'.edges : e \in edges \ written.edges
  BY <1>2, <1>3
<1>7. Topology' BY <1>3, <1>5, <1>6 DEF ThemesInv, Topology
<1> QED BY <1>3, <1>4, <1>7 DEF ThemesInv, Partitioned, Described

LEMMA ThemesIdle ==
  ASSUME ThemesInv, UNCHANGED themeVars
  PROVE  ThemesInv'
<1>1. UNCHANGED <<held, edges, phase, lastRead, page, entities, byId, community, answers, written>>
  BY DEF themeVars
<1>2. Clusters!Large' = Clusters!Large /\ \A d : Clusters!Prompt(d)' = Clusters!Prompt(d)
  BY <1>1, ClustersStay
<1>3. Tenant' /\ Topology' /\ Partitioned'
  BY <1>1 DEF ThemesInv, Tenant, Topology, ReadUpTo, EdgesRead, OnPage, Partitioned
<1>4. Described' BY <1>1, <1>2 DEF ThemesInv, Described
<1> QED BY <1>3, <1>4 DEF ThemesInv

LEMMA ThemesStep ==
  ASSUME ThemesInv, Clusters!Next
  PROVE  ThemesInv'
<1>1. CASE Clusters!ReadEntities BY <1>1, ReadingEntities
<1>2. CASE Clusters!ReadEdges BY <1>2, ReadingEdges
<1>3. CASE Clusters!Visit \/ Clusters!PassAgain \/ Clusters!Clustered \/ Clusters!Stall
  BY <1>3, Clustering
<1>4. CASE \E c \in DOMAIN answers :
             Clusters!Describe(c, Clusters!Prompt(c)) \/ Clusters!Describe(c, Failure)
  BY <1>4, Describing
<1>5. CASE Clusters!Report BY <1>5, Reporting
<1>6. CASE \/ \E x \in Clusters!Ids : Clusters!Appear(x)
           \/ \E e \in Edges : Clusters!PutEdge(e) \/ Clusters!DropEdge(e)
  BY <1>6, Meanwhile
<1>7. CASE UNCHANGED themeVars BY <1>7, ThemesIdle
<1>8. Clusters!Returned => UNCHANGED themeVars
  BY DEF Clusters!Returned, Clusters!vars, themeVars
<1> QED BY <1>1, <1>2, <1>3, <1>4, <1>5, <1>6, <1>7, <1>8 DEF Clusters!Next

(* Communities are finite, have members and share none. *)
LEMMA CommunitiesApart ==
  ASSUME ThemesInv, phase = "done"
  PROVE  /\ IsFiniteSet(Clusters!Communities)
         /\ \A c \in Clusters!Communities :
              /\ c # {} /\ c \in SUBSET Nat
              /\ IsFiniteSet(c) /\ Cardinality(c) \in Nat
         /\ \A c, d \in Clusters!Communities : c # d => c \intersect d = {}
         /\ UNION Clusters!Communities = entities
<1>1. DOMAIN community = entities BY DEF ThemesInv, Partitioned
<1>2. IsFiniteSet(entities) /\ \A x \in entities : x \in Nat
  <2>1. IsFiniteSet(Clusters!Ids) /\ \A x \in Clusters!Ids : x \in Nat
    BY ThemesAssumption, FS_Interval DEF Clusters!Ids
  <2> QED BY <2>1, FS_Subset DEF ThemesInv, Topology
<1>3. PICK labels : labels = {community[x] : x \in entities} OBVIOUS
<1>4. PICK of : of = [l \in labels |-> {x \in entities : community[x] = l}] OBVIOUS
<1>5. Clusters!Communities = {of[l] : l \in labels}
  <2>1. \A l \in labels : of[l] = Clusters!Members(l) BY <1>1, <1>4 DEF Clusters!Members
  <2>2. Clusters!Communities = {Clusters!Members(l) : l \in labels}
    BY <1>1, <1>3, Zenon DEF Clusters!Communities
  <2> QED BY <2>1, <2>2
<1>6. IsFiniteSet(labels) /\ IsFiniteSet(Clusters!Communities)
  <2>1. PICK f : f = [x \in entities |-> community[x]] OBVIOUS
  <2>2. f \in Surjection(entities, labels) BY <1>3, <2>1 DEF Surjection
  <2>3. IsFiniteSet(labels) BY <1>2, <2>2, FS_Surjection
  <2>4. of \in Surjection(labels, Clusters!Communities) BY <1>4, <1>5 DEF Surjection
  <2> QED BY <2>3, <2>4, FS_Surjection
<1>7. ASSUME NEW c \in Clusters!Communities
      PROVE  /\ c # {} /\ c \in SUBSET Nat
             /\ IsFiniteSet(c) /\ Cardinality(c) \in Nat
  <2>1. PICK l \in labels : c = {x \in entities : community[x] = l} BY <1>4, <1>5
  <2>2. c \subseteq entities /\ c # {} BY <1>3, <2>1
  <2> QED BY <1>2, <2>2, FS_Subset, FS_CardinalityType
<1>8. ASSUME NEW c \in Clusters!Communities, NEW d \in Clusters!Communities, c # d
      PROVE  c \intersect d = {}
  <2>1. PICK l \in labels, m \in labels :
          /\ c = {x \in entities : community[x] = l}
          /\ d = {x \in entities : community[x] = m}
    BY <1>4, <1>5
  <2> QED BY <1>8, <2>1
<1>9. UNION Clusters!Communities = entities
  <2>1. ASSUME NEW x \in entities PROVE x \in UNION Clusters!Communities
    <3>1. community[x] \in labels BY <1>3
    <3>2. x \in of[community[x]] /\ of[community[x]] \in Clusters!Communities
      BY <1>4, <1>5, <3>1
    <3> QED BY <3>2
  <2>2. \A c \in Clusters!Communities : c \subseteq entities BY <1>4, <1>5
  <2> QED BY <2>1, <2>2
<1> QED BY <1>6, <1>7, <1>8, <1>9

(* Apart as they are, largest first and then by smallest member sorts them. *)
LargerFirst(cs) ==
  {p \in cs \X cs : \/ Cardinality(p[1]) > Cardinality(p[2])
                    \/ /\ Cardinality(p[1]) = Cardinality(p[2])
                       /\ Clusters!Smallest(p[1]) < Clusters!Smallest(p[2])}

LEMMA LargestFirst ==
  ASSUME NEW cs, IsFiniteSet(cs),
         \A c \in cs : c # {} /\ c \in SUBSET Nat /\ Cardinality(c) \in Nat,
         \A c, d \in cs : c # d => c \intersect d = {}
  PROVE  Ranking(Clusters!Ordered(cs), cs, LargerFirst(cs))
<1>1. \A c \in cs : Clusters!Smallest(c) \in c /\ Clusters!Smallest(c) \in Nat
  <2> SUFFICES ASSUME NEW c \in cs PROVE Clusters!Smallest(c) \in c /\ Clusters!Smallest(c) \in Nat
    OBVIOUS
  <2>1. \E x \in c : \A y \in c : x <= y BY LeastNatural
  <2> QED BY <2>1 DEF Clusters!Smallest
<1>2. PICK least : least = [c \in cs |-> Clusters!Smallest(c)] OBVIOUS
<1>3. PICK many : many = [c \in cs |-> Cardinality(c)] OBVIOUS
<1>4. least \in [cs -> Nat] /\ many \in [cs -> Nat] BY <1>1, <1>2, <1>3
<1>5. \A c, d \in cs : c # d => least[c] # least[d]
  <2>1. \A c \in cs : least[c] \in c BY <1>1, <1>2
  <2> QED BY <2>1
<1>6. PICK R : R = LargerFirst(cs) OBVIOUS
<1>7. \A c, d \in cs : <<c, d>> \in R <=>
        many[c] > many[d] \/ (many[c] = many[d] /\ least[c] < least[d])
  BY <1>2, <1>3, <1>6 DEF LargerFirst
<1>8. Orders(R, cs)
  <2>1. \A c \in cs : <<c, c>> \notin R BY <1>4, <1>7
  <2>2. ASSUME NEW c \in cs, NEW d \in cs, NEW e \in cs, <<c, d>> \in R, <<d, e>> \in R
        PROVE  <<c, e>> \in R
    <3>1. /\ many[c] \in Nat /\ many[d] \in Nat /\ many[e] \in Nat
          /\ least[c] \in Nat /\ least[d] \in Nat /\ least[e] \in Nat
      BY <1>4
    <3> QED BY <1>7, <2>2, <3>1
  <2>3. ASSUME NEW c \in cs, NEW d \in cs, c # d PROVE <<c, d>> \in R \/ <<d, c>> \in R
    <3>1. /\ many[c] \in Nat /\ many[d] \in Nat /\ least[c] \in Nat /\ least[d] \in Nat
          /\ least[c] # least[d]
      BY <1>4, <1>5, <2>3
    <3> QED BY <1>7, <3>1
  <2> QED BY <2>1, <2>2, <2>3 DEF Orders
<1>9. Clusters!Ordered(cs) = Ranked(cs, R)
  <2>1. PICK above : above = {p \in cs \X cs :
          \/ Clusters!Count(p[1]) > Clusters!Count(p[2])
          \/ /\ Clusters!Count(p[1]) = Clusters!Count(p[2])
             /\ Clusters!Smallest(p[1]) < Clusters!Smallest(p[2])}
    OBVIOUS
  <2>2. above = R BY <1>6, <2>1, ThemesSort DEF LargerFirst
  <2>3. Clusters!Ordered(cs) = Clusters!Ranked(cs, above) BY <2>1, Zenon DEF Clusters!Ordered
  <2> QED BY <2>2, <2>3, ThemesSort
<1> QED BY <1>6, <1>8, <1>9, RankedIsRanking

(* A report of a tenant's themes accounts for what stood still. *)
LEMMA ThemesAccounted ==
  ASSUME ThemesInv, phase = "done"
  PROVE  Clusters!ThemesAccountForTheTenant
<1> DEFINE Failed == {c \in Clusters!Large : answers[c] = Failure}
           Answered == Clusters!Large \ Failed
<1>1. /\ DOMAIN answers = Clusters!Large
      /\ \A c \in Answered : answers[c] = Clusters!Prompt(c)
  BY DEF ThemesInv, Described
<1>2. Clusters!Failed = Failed BY <1>1 DEF Clusters!Failed
<1>3. Clusters!Large \subseteq Clusters!Communities BY DEF Clusters!Large
<1>4. Answered \subseteq Clusters!Large /\ Failed \subseteq Clusters!Large OBVIOUS
<1>5. PICK answered : answered = Answered OBVIOUS
<1>6. PICK order : order = Clusters!Ordered(answered) OBVIOUS
<1>7. Clusters!ThemeReport.themes = Clusters!Zipped(order)
  BY <1>2, <1>5, <1>6, Zenon DEF Clusters!ThemeReport
<1>8. /\ IsFiniteSet(Clusters!Large) /\ IsFiniteSet(answered) /\ IsFiniteSet(Failed)
      /\ Cardinality(Clusters!Large) = Cardinality(answered) + Cardinality(Failed)
      /\ Cardinality(answered) \in Nat /\ Cardinality(Failed) \in Nat
      /\ Cardinality(Clusters!Communities) \in Nat
  <2>1. IsFiniteSet(Clusters!Large) BY <1>3, CommunitiesApart, FS_Subset
  <2>2. IsFiniteSet(answered) /\ IsFiniteSet(Failed) BY <1>4, <1>5, <2>1, FS_Subset
  <2>3. Clusters!Large = answered \union Failed /\ answered \intersect Failed = {} BY <1>5
  <2>4. PICK failed : failed = Failed OBVIOUS
  <2> HIDE DEF Failed
  <2>5. PICK both : both = answered \intersect failed OBVIOUS
  <2>6. Cardinality(both) = 0 BY <2>3, <2>4, <2>5, FS_EmptySet
  <2>7. Cardinality(answered \union failed) = Cardinality(answered) + Cardinality(failed) - Cardinality(both)
    BY <2>2, <2>4, <2>5, FS_Union
  <2>8. /\ Cardinality(answered) \in Nat /\ Cardinality(failed) \in Nat
        /\ Cardinality(Clusters!Communities) \in Nat
    BY <2>2, <2>4, CommunitiesApart, FS_CardinalityType
  <2> QED BY <2>1, <2>2, <2>3, <2>4, <2>6, <2>7, <2>8
<1>9. PICK n \in Nat : n = Cardinality(answered) BY <1>8
<1>10. /\ order \in [1..n -> answered]
       /\ \A i, j \in 1..n : i < j => <<order[i], order[j]>> \in LargerFirst(answered)
  <2>1. answered \subseteq Clusters!Communities BY <1>3, <1>5
  <2>2. Ranking(order, answered, LargerFirst(answered))
    BY <1>6, <1>8, <2>1, CommunitiesApart, LargestFirst
  <2> QED BY <1>9, <2>2 DEF Ranking
<1>11. PICK themes : themes = Clusters!Zipped(order) OBVIOUS
<1>12. /\ DOMAIN themes = 1..n /\ Len(themes) = n
       /\ \A i \in 1..n : themes[i].members = order[i] /\ themes[i].answer = answers[order[i]]
  <2>1. themes = [i \in 1..n |-> [members |-> order[i], answer |-> answers[order[i]]]]
    BY <1>10, <1>11 DEF Clusters!Zipped
  <2> QED BY <2>1
<1>13. \A x \in held \ written.entities : x \in entities
  BY DEF ThemesInv, Topology, ReadUpTo
<1>14. \A e \in edges \ written.edges :
         {e.source, e.target} \intersect written.entities = {} => e \in Clusters!Kept
  <2> SUFFICES ASSUME NEW e \in edges, e \notin written.edges,
                      {e.source, e.target} \intersect written.entities = {}
               PROVE  e \in Clusters!Kept
    OBVIOUS
  <2>1. {e.source, e.target} \subseteq entities BY <1>13 DEF ThemesInv, Tenant
  <2>2. e \in byId BY <2>1 DEF ThemesInv, Topology, EdgesRead
  <2> QED BY <2>1, <2>2 DEF Clusters!Kept
<1>15. Clusters!ThemeReport.communities =
         Len(themes) + Clusters!ThemeReport.tooSmall + Clusters!ThemeReport.failed
  <2>1. /\ Clusters!ThemeReport.communities = Cardinality(Clusters!Communities)
        /\ Clusters!ThemeReport.tooSmall = Cardinality(Clusters!Communities) - Cardinality(Clusters!Large)
        /\ Clusters!ThemeReport.failed = Cardinality(Failed)
    BY <1>2, ThemesSort DEF Clusters!ThemeReport
  <2> HIDE DEF Failed
  <2> QED BY <1>8, <1>9, <1>12, <2>1
<1>16. ASSUME NEW i \in 1..n
       PROVE  /\ themes[i].members \in Clusters!Communities
              /\ themes[i].answer = Clusters!Prompt(themes[i].members)
              /\ \A j \in 1..(i - 1) :
                   /\ themes[j].members # themes[i].members
                   /\ Clusters!Count(themes[j].members) >= Clusters!Count(themes[i].members)
  <2>1. order[i] \in answered BY <1>10
  <2>2. themes[i].members \in Clusters!Communities BY <1>3, <1>5, <1>12, <2>1
  <2>3. themes[i].answer = Clusters!Prompt(themes[i].members) BY <1>1, <1>5, <1>12, <2>1
  <2>4. ASSUME NEW j \in 1..(i - 1)
        PROVE  /\ themes[j].members # themes[i].members
               /\ Clusters!Count(themes[j].members) >= Clusters!Count(themes[i].members)
    <3>1. j \in 1..n /\ j < i BY <1>9
    <3>2. PICK c, d : c = order[j] /\ d = order[i] OBVIOUS
    <3>3. <<c, d>> \in LargerFirst(answered) /\ c \in answered /\ d \in answered
      BY <1>10, <3>1, <3>2
    <3>4. \/ Cardinality(c) > Cardinality(d)
          \/ Cardinality(c) = Cardinality(d) /\ Clusters!Smallest(c) < Clusters!Smallest(d)
      BY <3>3 DEF LargerFirst
    <3>5. Cardinality(c) \in Nat /\ Cardinality(d) \in Nat
      BY <1>3, <1>5, <3>3, CommunitiesApart
    <3>6. Clusters!Smallest(c) \in Nat /\ Clusters!Smallest(d) \in Nat
      <4>1. \A e \in answered : \E x \in e : \A y \in e : x <= y
        BY <1>3, <1>5, CommunitiesApart, LeastNatural
      <4>2. c # {} /\ d # {} /\ c \in SUBSET Nat /\ d \in SUBSET Nat
        BY <1>3, <1>5, <3>3, CommunitiesApart
      <4> QED BY <3>3, <4>1, <4>2 DEF Clusters!Smallest
    <3>7. c # d BY <3>4, <3>5, <3>6
    <3>8. Cardinality(c) >= Cardinality(d) BY <3>4, <3>5
    <3> QED BY <1>12, <3>1, <3>2, <3>7, <3>8, ThemesSort
  <2> QED BY <2>2, <2>3, <2>4
<1> QED
  <2>1. Clusters!ThemeReport.themes = themes BY <1>7, <1>11
  <2> HIDE DEF Failed, Answered
  <2> QED BY <1>12, <1>13, <1>14, <1>15, <1>16, <2>1, CommunitiesApart
          DEF Clusters!ThemesAccountForTheTenant

(***************************************************************************)
(* Whatever is written while a tenant's themes are read: what stood still  *)
(* is in the report, once, and every theme is about its own members, for   *)
(* any graph and page size (themes/topology.py:21-62, themes/service.py).  *)
(***************************************************************************)
THEOREM ThemesAccount == AlgorithmsSpec => []ThemesAccountForTheTenant
<1> DEFINE Inv == part = "themes" => ThemesInv
<1>1. AlgorithmsInit => Inv BY ThemesStart DEF AlgorithmsInit
<1>2. Inv /\ [AlgorithmsNext]_algorithmVars => Inv'
  <2> SUFFICES ASSUME Inv, [AlgorithmsNext]_algorithmVars, part' = "themes" PROVE ThemesInv'
    OBVIOUS
  <2>1. part = "themes" /\ ThemesInv BY DEF AlgorithmsNext, algorithmVars
  <2>2. CASE Clusters!Next BY <2>1, <2>2, ThemesStep
  <2>3. CASE UNCHANGED themeVars BY <2>1, <2>3, ThemesIdle
  <2> QED BY <2>1, <2>2, <2>3 DEF AlgorithmsNext, algorithmVars
<1>3. Inv => ThemesAccountForTheTenant
  BY ThemesAccounted DEF ThemesAccountForTheTenant, Clusters!ThemesAccountForTheTenant
<1> QED
  <2> HIDE DEF Inv
  <2> QED BY <1>1, <1>2, <1>3, PTL DEF AlgorithmsSpec

-----------------------------------------------------------------------------
(* What moves gain *)

(* The edges there are, and those read, can be counted. *)
Countable == IsFiniteSet(edges) /\ IsFiniteSet(byId)

LEMMA CountableKept ==
  /\ Clusters!Init => Countable
  /\ Countable /\ (Clusters!Next \/ UNCHANGED themeVars) => Countable'
<1>1. ASSUME Clusters!Init PROVE Countable
  <2>1. PICK t \in Tenants : edges = t.edges BY <1>1 DEF Clusters!Init
  <2>2. byId = {} BY <1>1 DEF Clusters!Init
  <2> QED BY <2>1, <2>2, ThemesAssumption, FS_EmptySet DEF Countable
<1>2. ASSUME Countable, Clusters!Next \/ UNCHANGED themeVars PROVE Countable'
  <2>1. CASE UNCHANGED <<edges, byId>> BY <1>2, <2>1 DEF Countable
  <2>2. CASE Clusters!ReadEdges
    <3>1. PICK S : S = {e \in edges : Clusters!Touching(e)} OBVIOUS
    <3>2. edges' = edges /\ byId' = byId \union S BY <2>2, <3>1 DEF Clusters!ReadEdges, Clusters!store
    <3>3. IsFiniteSet(S) BY <1>2, <3>1, FS_Subset DEF Countable
    <3> QED BY <1>2, <3>2, <3>3, FS_Union DEF Countable
  <2>3. ASSUME NEW e \in Edges, Clusters!PutEdge(e) \/ Clusters!DropEdge(e) PROVE Countable'
    <3>1. byId' = byId /\ (edges' = edges \union {e} \/ edges' = edges \ {e})
      BY <2>3 DEF Clusters!PutEdge, Clusters!DropEdge, Clusters!Writes, Clusters!scan
    <3>2. IsFiniteSet(edges \union {e}) /\ IsFiniteSet(edges \ {e})
      BY <1>2, FS_AddElement, FS_RemoveElement DEF Countable
    <3> QED BY <1>2, <3>1, <3>2 DEF Countable
  <2>4. CASE UNCHANGED themeVars BY <2>1, <2>4 DEF themeVars
  <2> QED BY <1>2, <2>1, <2>2, <2>3, <2>4
          DEF Clusters!Next, Clusters!ReadEntities, Clusters!Stall, Clusters!Visit,
              Clusters!PassAgain, Clusters!Clustered, Clusters!Describe, Clusters!Report,
              Clusters!Returned, Clusters!Appear, Clusters!Writes, Clusters!store, Clusters!scan,
              Clusters!clustering, Clusters!vars
<1> QED BY <1>1, <1>2

LEMMA Together ==
  ASSUME NEW S, NEW T, IsFiniteSet(S), IsFiniteSet(T), S \intersect T = {}
  PROVE  /\ IsFiniteSet(S \union T)
         /\ Cardinality(S \union T) = Cardinality(S) + Cardinality(T)
<1>1. Cardinality(S \intersect T) = 0 BY FS_EmptySet
<1>2. Cardinality(S) \in Nat /\ Cardinality(T) \in Nat BY FS_CardinalityType
<1>3. /\ IsFiniteSet(S \union T)
      /\ Cardinality(S \union T) = Cardinality(S) + Cardinality(T) - Cardinality(S \intersect T)
  BY FS_Union
<1> QED BY <1>1, <1>2, <1>3

Sharing(E, h) == {p \in E \X E : h[p[1]] = h[p[2]]}
Labelled(E, h, a) == {e \in E : h[e] = a}

(* The pairs of what shares a label, if some all have the label a: those of the
   others, those of the some, and twice those of one and the other. *)
LEMMA PairsSplit ==
  ASSUME NEW E, IsFiniteSet(E), NEW X \in SUBSET E, NEW h, NEW a, \A e \in X : h[e] = a
  PROVE  /\ IsFiniteSet(Sharing(E \ X, h))
         /\ Cardinality(Sharing(E, h)) =
              Cardinality(Sharing(E \ X, h)) + Cardinality(X) * Cardinality(X)
                + 2 * (Cardinality(X) * Cardinality(Labelled(E \ X, h, a)))
<1> DEFINE H == Labelled(E \ X, h, a)
           P == Sharing(E \ X, h)
<1>1. IsFiniteSet(X) /\ IsFiniteSet(H) /\ IsFiniteSet(E \ X)
  <2>1. H \subseteq E /\ (E \ X) \subseteq E BY DEF Labelled
  <2> HIDE DEF H
  <2> QED BY <2>1, FS_Subset
<1>2. IsFiniteSet(P)
  <2>1. P \subseteq (E \ X) \X (E \ X) BY DEF Sharing
  <2> HIDE DEF P
  <2> QED BY <1>1, <2>1, FS_Product, FS_Subset
<1>3. Sharing(E, h) = ((P \union (X \X X)) \union (X \X H)) \union (H \X X)
  <2>1. ASSUME NEW p \in Sharing(E, h)
        PROVE  p \in ((P \union (X \X X)) \union (X \X H)) \union (H \X X)
    <3>1. p \in E \X E /\ h[p[1]] = h[p[2]] BY DEF Sharing
    <3>2. PICK d \in E, e \in E : p = <<d, e>> /\ h[d] = h[e] BY <3>1
    <3>3. CASE d \in X /\ e \in X BY <3>2, <3>3
    <3>4. CASE d \in X /\ e \notin X BY <3>2, <3>4 DEF Labelled
    <3>5. CASE d \notin X /\ e \in X BY <3>2, <3>5 DEF Labelled
    <3>6. CASE d \notin X /\ e \notin X BY <3>2, <3>6 DEF Sharing
    <3> QED BY <3>3, <3>4, <3>5, <3>6
  <2>2. ASSUME NEW p \in ((P \union (X \X X)) \union (X \X H)) \union (H \X X)
        PROVE  p \in Sharing(E, h)
    <3>1. CASE p \in P BY <3>1 DEF Sharing
    <3>2. CASE p \in X \X X BY <3>2 DEF Sharing
    <3>3. CASE p \in X \X H BY <3>3 DEF Sharing, Labelled
    <3>4. CASE p \in H \X X BY <3>4 DEF Sharing, Labelled
    <3> QED BY <2>2, <3>1, <3>2, <3>3, <3>4
  <2> QED BY <2>1, <2>2
<1>4. P \intersect (X \X X) = {} BY DEF Sharing
<1>5. (P \union (X \X X)) \intersect (X \X H) = {} BY DEF Sharing, Labelled
<1>6. ((P \union (X \X X)) \union (X \X H)) \intersect (H \X X) = {} BY DEF Sharing, Labelled
<1> HIDE DEF P, H
<1>7. /\ IsFiniteSet(X \X X) /\ Cardinality(X \X X) = Cardinality(X) * Cardinality(X)
      /\ IsFiniteSet(X \X H) /\ Cardinality(X \X H) = Cardinality(X) * Cardinality(H)
      /\ IsFiniteSet(H \X X) /\ Cardinality(H \X X) = Cardinality(H) * Cardinality(X)
  BY <1>1, FS_Product
<1>8. /\ IsFiniteSet(P \union (X \X X))
      /\ Cardinality(P \union (X \X X)) = Cardinality(P) + Cardinality(X \X X)
  BY <1>2, <1>4, <1>7, Together
<1>9. /\ IsFiniteSet((P \union (X \X X)) \union (X \X H))
      /\ Cardinality((P \union (X \X X)) \union (X \X H)) =
           Cardinality(P \union (X \X X)) + Cardinality(X \X H)
  BY <1>5, <1>7, <1>8, Together
<1>10. Cardinality(Sharing(E, h)) =
         Cardinality((P \union (X \X X)) \union (X \X H)) + Cardinality(H \X X)
  BY <1>3, <1>6, <1>7, <1>9, Together
<1>11. Cardinality(X) \in Nat /\ Cardinality(H) \in Nat /\ Cardinality(P) \in Nat
  BY <1>1, <1>2, FS_CardinalityType
<1>12. PICK x \in Nat : x = Cardinality(X) BY <1>11
<1>13. PICK y \in Nat : y = Cardinality(H) BY <1>11
<1>14. x * y = y * x /\ x * y \in Nat /\ x * x \in Nat BY SMT
<1>15. Cardinality(Sharing(E, h)) = Cardinality(P) + x * x + 2 * (x * y)
  BY <1>7, <1>8, <1>9, <1>10, <1>11, <1>12, <1>13, <1>14
<1> QED BY <1>1, <1>2, <1>12, <1>13, <1>15 DEF P, H

-----------------------------------------------------------------------------

EndsOf(K) == {[edge |-> e, of |-> x] : e \in K, x \in {"source", "target"}}
EndsAt(K, xs) == {d \in EndsOf(K) : d.edge[d.of] \in xs}
DegreeIn(K, xs) ==
  Cardinality({e \in K : e.source \in xs}) + Cardinality({e \in K : e.target \in xs})

(* A set has as many ends as edges have their source there, ... *)
LEMMA EndsOfOneKind ==
  ASSUME NEW A, IsFiniteSet(A), NEW of
  PROVE  LET S == {[edge |-> e, of |-> of] : e \in A} IN
         IsFiniteSet(S) /\ Cardinality(S) = Cardinality(A)
<1> DEFINE S == {[edge |-> e, of |-> of] : e \in A}
           f == [e \in A |-> [edge |-> e, of |-> of]]
<1>1. f \in Bijection(A, S)
  <2>1. f \in [A -> S] OBVIOUS
  <2>2. \A s \in S : \E e \in A : f[e] = s OBVIOUS
  <2>3. ASSUME NEW d \in A, NEW e \in A, f[d] = f[e] PROVE d = e
    <3>1. f[d].edge = d /\ f[e].edge = e OBVIOUS
    <3> QED BY <2>3, <3>1
  <2> HIDE DEF f, S
  <2> QED BY <2>1, <2>2, <2>3 DEF Bijection, Injection, Surjection, IsInjective
<1> HIDE DEF f, S
<1>2. ExistsBijection(A, S) BY <1>1 DEF ExistsBijection
<1>3. IsFiniteSet(S) /\ Cardinality(S) = Cardinality(A) BY <1>2, FS_Bijection
<1> QED BY <1>3 DEF S

LEMMA EndsCounted ==
  ASSUME NEW K, IsFiniteSet(K), NEW xs
  PROVE  /\ IsFiniteSet(EndsOf(K)) /\ IsFiniteSet(EndsAt(K, xs))
         /\ Cardinality(EndsAt(K, xs)) = DegreeIn(K, xs)
<1> DEFINE From == {e \in K : e.source \in xs}
           To == {e \in K : e.target \in xs}
           Sources(A) == {[edge |-> e, of |-> "source"] : e \in A}
           Targets(A) == {[edge |-> e, of |-> "target"] : e \in A}
<1>1. IsFiniteSet(From) /\ IsFiniteSet(To)
  <2>1. From \subseteq K /\ To \subseteq K OBVIOUS
  <2> HIDE DEF From, To
  <2> QED BY <2>1, FS_Subset
<1>2. EndsOf(K) = Sources(K) \union Targets(K) BY DEF EndsOf
<1>3. EndsAt(K, xs) = Sources(From) \union Targets(To)
  <2>1. ASSUME NEW d \in EndsAt(K, xs) PROVE d \in Sources(From) \union Targets(To)
    <3>1. PICK e \in K, x \in {"source", "target"} : d = [edge |-> e, of |-> x]
      BY DEF EndsAt, EndsOf
    <3>2. e[x] \in xs BY <3>1 DEF EndsAt
    <3>3. CASE x = "source"
      <4>1. e.source \in xs BY <3>2, <3>3
      <4> QED BY <3>1, <3>3, <4>1
    <3>4. CASE x = "target"
      <4>1. e.target \in xs BY <3>2, <3>4
      <4> QED BY <3>1, <3>4, <4>1
    <3> QED BY <3>3, <3>4
  <2>2. ASSUME NEW e \in From PROVE [edge |-> e, of |-> "source"] \in EndsAt(K, xs)
    <3>1. PICK d : d = [edge |-> e, of |-> "source"] OBVIOUS
    <3>2. d \in EndsOf(K) BY <3>1 DEF EndsOf
    <3>3. d.edge = e /\ d.of = "source" BY <3>1
    <3>4. d.edge[d.of] = e.source BY <3>3
    <3> QED BY <3>1, <3>2, <3>4 DEF EndsAt
  <2>3. ASSUME NEW e \in To PROVE [edge |-> e, of |-> "target"] \in EndsAt(K, xs)
    <3>1. PICK d : d = [edge |-> e, of |-> "target"] OBVIOUS
    <3>2. d \in EndsOf(K) BY <3>1 DEF EndsOf
    <3>3. d.edge = e /\ d.of = "target" BY <3>1
    <3>4. d.edge[d.of] = e.target BY <3>3
    <3> QED BY <3>1, <3>2, <3>4 DEF EndsAt
  <2> QED BY <2>1, <2>2, <2>3
<1> HIDE DEF From, To
<1>4. Sources(From) \intersect Targets(To) = {}
  <2> SUFFICES ASSUME NEW e \in From, NEW d \in To,
                      [edge |-> e, of |-> "source"] = [edge |-> d, of |-> "target"]
               PROVE  FALSE
    OBVIOUS
  <2> QED OBVIOUS
<1>5. /\ IsFiniteSet(Sources(From)) /\ Cardinality(Sources(From)) = Cardinality(From)
      /\ IsFiniteSet(Targets(To)) /\ Cardinality(Targets(To)) = Cardinality(To)
      /\ IsFiniteSet(Sources(K)) /\ IsFiniteSet(Targets(K))
  BY <1>1, EndsOfOneKind
<1> HIDE DEF Sources, Targets
<1>6. IsFiniteSet(EndsOf(K)) BY <1>2, <1>5, FS_Union
<1>7. /\ IsFiniteSet(EndsAt(K, xs))
      /\ Cardinality(EndsAt(K, xs)) = Cardinality(From) + Cardinality(To)
  BY <1>3, <1>4, <1>5, Together
<1> QED BY <1>6, <1>7 DEF From, To, DegreeIn

-----------------------------------------------------------------------------

EdgesInside(K, f) == {e \in K : f[e.source] = f[e.target]}
HasOneEnd(e, x) == (e.source = x) # (e.target = x)
StillInside(K, f, x) == {e \in EdgesInside(K, f) : ~ HasOneEnd(e, x)}
OthersOf(N, f, a, x) == {y \in N : f[y] = a} \ {x}
LinksTo(K, x, others) ==
  {e \in K : \E y \in others \ {x} : {e.source, e.target} = {x, y}}

(* The edges inside are those a move of x leaves inside, and those to whom x
   is with. *)
LEMMA InsideSplit ==
  ASSUME NEW K, IsFiniteSet(K), NEW N, \A e \in K : {e.source, e.target} \subseteq N,
         NEW f, NEW x, NEW a, f[x] = a
  PROVE  /\ IsFiniteSet(StillInside(K, f, x))
         /\ IsFiniteSet(LinksTo(K, x, OthersOf(N, f, a, x)))
         /\ Cardinality(EdgesInside(K, f)) =
              Cardinality(StillInside(K, f, x)) + Cardinality(LinksTo(K, x, OthersOf(N, f, a, x)))
<1> USE DEF StillInside, OthersOf
<1> DEFINE Still == StillInside(K, f, x)
           Others == OthersOf(N, f, a, x)
           L == LinksTo(K, x, Others)
<1>1. ASSUME NEW e \in EdgesInside(K, f), HasOneEnd(e, x) PROVE e \in L
  <2>1. e \in K /\ f[e.source] = f[e.target] BY DEF EdgesInside
  <2>2. e.source \in N /\ e.target \in N BY <2>1
  <2>3. CASE e.source = x /\ e.target # x
    <3>1. e.target \in Others \ {x} /\ {e.source, e.target} = {x, e.target}
      BY <2>1, <2>2, <2>3
    <3> QED BY <2>1, <3>1 DEF LinksTo
  <2>4. CASE e.source # x /\ e.target = x
    <3>1. e.source \in Others \ {x} /\ {e.source, e.target} = {x, e.source}
      BY <2>1, <2>2, <2>4
    <3> QED BY <2>1, <3>1 DEF LinksTo
  <2> QED BY <1>1, <2>3, <2>4 DEF HasOneEnd
<1>2. ASSUME NEW e \in L PROVE e \in EdgesInside(K, f) /\ HasOneEnd(e, x)
  <2>1. e \in K BY DEF LinksTo
  <2>2. PICK y \in Others \ {x} : {e.source, e.target} = {x, y} BY DEF LinksTo
  <2>3. y # x /\ f[y] = a BY <2>2
  <2>4. /\ e.source \in {x, y} /\ e.target \in {x, y}
        /\ x \in {e.source, e.target} /\ y \in {e.source, e.target}
    BY <2>2
  <2>5. \/ e.source = x /\ e.target = y
        \/ e.source = y /\ e.target = x
    BY <2>3, <2>4
  <2> QED BY <2>1, <2>3, <2>5 DEF EdgesInside, HasOneEnd
<1>3. EdgesInside(K, f) = Still \union L BY <1>1, <1>2
<1>4. Still \intersect L = {} BY <1>2
<1>5. IsFiniteSet(Still) /\ IsFiniteSet(L)
  <2>1. Still \subseteq K /\ L \subseteq K BY DEF EdgesInside, LinksTo
  <2> HIDE DEF Still, L, StillInside, OthersOf
  <2> QED BY <2>1, FS_Subset
<1>6. Cardinality(EdgesInside(K, f)) = Cardinality(Still) + Cardinality(L)
  <2> HIDE DEF Still, L, StillInside, OthersOf
  <2> QED BY <1>3, <1>4, <1>5, Together
<1> QED BY <1>5, <1>6

-----------------------------------------------------------------------------

Moved(f, x, b) == [f EXCEPT ![x] = b]

(* What a node's move does to the count of pairs and to that of the edges
   inside. *)
LEMMA MovePairs ==
  ASSUME NEW K, IsFiniteSet(K), NEW N, \A e \in K : {e.source, e.target} \subseteq N,
         NEW f, DOMAIN f = N, NEW x \in N, NEW b
  PROVE  LET Home(h) == [d \in EndsOf(K) |-> h[d.edge[d.of]]]
             C(h) == Cardinality(Sharing(EndsOf(K), Home(h)))
         IN \E c \in Int :
              /\ C(f) = c + 2 * (DegreeIn(K, {x}) * DegreeIn(K, OthersOf(N, f, f[x], x)))
              /\ C(Moved(f, x, b)) = c + 2 * (DegreeIn(K, {x}) * DegreeIn(K, OthersOf(N, f, b, x)))
<1> DEFINE g == Moved(f, x, b)
           E == EndsOf(K)
           X == EndsAt(K, {x})
           Home(h) == [d \in E |-> h[d.edge[d.of]]]
           Others(a) == OthersOf(N, f, a, x)
           H(h, a) == Labelled(E \ X, h, a)
<1>1. \A d \in E : d.edge[d.of] \in N
  <2> SUFFICES ASSUME NEW d \in E PROVE d.edge[d.of] \in N OBVIOUS
  <2>1. PICK e \in K, z \in {"source", "target"} : d = [edge |-> e, of |-> z] BY DEF EndsOf
  <2>2. d.edge = e /\ d.of = z BY <2>1
  <2>3. e.source \in N /\ e.target \in N OBVIOUS
  <2>4. CASE z = "source"
    <3>1. d.edge[d.of] = e.source BY <2>2, <2>4
    <3> QED BY <2>3, <3>1
  <2>5. CASE z = "target"
    <3>1. d.edge[d.of] = e.target BY <2>2, <2>5
    <3> QED BY <2>3, <3>1
  <2> QED BY <2>4, <2>5
<1>2. \A y \in N : g[y] = IF y = x THEN b ELSE f[y] BY DEF Moved
<1>3. \A d \in E : d \in X <=> d.edge[d.of] = x BY DEF EndsAt
<1>4. X \in SUBSET E BY DEF EndsAt
<1>5. (\A d \in X : Home(f)[d] = f[x]) /\ (\A d \in X : Home(g)[d] = b)
  BY <1>2, <1>3, <1>4
<1>6. \A d \in E \ X : Home(g)[d] = Home(f)[d] BY <1>1, <1>2, <1>3
<1>7. \A a : H(Home(f), a) = EndsAt(K, Others(a))
  <2> SUFFICES ASSUME NEW a, NEW d PROVE d \in H(Home(f), a) <=> d \in EndsAt(K, Others(a))
    BY DEF Labelled, EndsAt
  <2>1. d \in EndsAt(K, Others(a)) <=> d \in E /\ d.edge[d.of] \in Others(a) BY DEF EndsAt
  <2>2. d \in H(Home(f), a) <=> d \in E /\ d \notin X /\ f[d.edge[d.of]] = a
    BY DEF Labelled
  <2> HIDE DEF H, X, E
  <2> QED BY <1>1, <1>3, <2>1, <2>2 DEF OthersOf
<1>8. H(Home(g), b) = H(Home(f), b) BY <1>6 DEF Labelled
<1>9. Sharing(E \ X, Home(g)) = Sharing(E \ X, Home(f))
  <2>1. PICK F : F = Home(f) OBVIOUS
  <2>2. PICK G : G = Home(g) OBVIOUS
  <2>3. \A d \in E \ X : G[d] = F[d] BY <1>6, <2>1, <2>2
  <2>4. \A p \in (E \ X) \X (E \ X) : G[p[1]] = F[p[1]] /\ G[p[2]] = F[p[2]]
    BY <2>3
  <2>5. Sharing(E \ X, G) = Sharing(E \ X, F) BY <2>4 DEF Sharing
  <2> QED BY <2>1, <2>2, <2>5
<1>10. /\ IsFiniteSet(E) /\ IsFiniteSet(X)
       /\ \A xs : Cardinality(EndsAt(K, xs)) = DegreeIn(K, xs)
       /\ \A xs : IsFiniteSet(EndsAt(K, xs))
  BY EndsCounted
<1> HIDE DEF E
<1>11. PICK F : F = Home(f) OBVIOUS
<1>12. PICK G : G = Home(g) OBVIOUS
<1>13. PICK n : n = Cardinality(X) OBVIOUS
<1>14. /\ IsFiniteSet(Sharing(E \ X, F))
       /\ Cardinality(Sharing(E, F)) =
            Cardinality(Sharing(E \ X, F)) + n * n + 2 * (n * Cardinality(H(F, f[x])))
  <2>1. \A d \in X : F[d] = f[x] BY <1>5, <1>11
  <2> HIDE DEF X
  <2> QED BY <1>4, <1>10, <1>13, <2>1, PairsSplit
<1>15. Cardinality(Sharing(E, G)) =
         Cardinality(Sharing(E \ X, G)) + n * n + 2 * (n * Cardinality(H(G, b)))
  <2>1. \A d \in X : G[d] = b BY <1>5, <1>12
  <2> HIDE DEF X
  <2> QED BY <1>4, <1>10, <1>13, <2>1, PairsSplit
<1>16. /\ Cardinality(H(F, f[x])) = DegreeIn(K, OthersOf(N, f, f[x], x))
       /\ Cardinality(H(G, b)) = DegreeIn(K, OthersOf(N, f, b, x))
  BY <1>7, <1>8, <1>10, <1>11, <1>12
<1>17. n = DegreeIn(K, {x}) /\ n \in Nat BY <1>10, <1>13, FS_CardinalityType
<1>18. PICK c : c = Cardinality(Sharing(E \ X, F)) + n * n OBVIOUS
<1>19. c \in Int BY <1>14, <1>17, <1>18, FS_CardinalityType
<1>20. /\ Cardinality(Sharing(E, F)) = c + 2 * (n * DegreeIn(K, OthersOf(N, f, f[x], x)))
       /\ Cardinality(Sharing(E, G)) = c + 2 * (n * DegreeIn(K, OthersOf(N, f, b, x)))
  BY <1>9, <1>11, <1>12, <1>14, <1>15, <1>16, <1>18
<1> QED BY <1>11, <1>12, <1>17, <1>19, <1>20 DEF E

LEMMA MoveInside ==
  ASSUME NEW K, IsFiniteSet(K), NEW N, \A e \in K : {e.source, e.target} \subseteq N,
         NEW f, DOMAIN f = N, NEW x \in N, NEW b
  PROVE  \E c \in Int :
              /\ Cardinality(EdgesInside(K, f)) =
                   c + Cardinality(LinksTo(K, x, OthersOf(N, f, f[x], x)))
              /\ Cardinality(EdgesInside(K, Moved(f, x, b))) =
                   c + Cardinality(LinksTo(K, x, OthersOf(N, f, b, x)))
<1> DEFINE g == Moved(f, x, b)
<1>1. \A y \in N : g[y] = IF y = x THEN b ELSE f[y] BY DEF Moved
<1>2. OthersOf(N, g, b, x) = OthersOf(N, f, b, x) BY <1>1 DEF OthersOf
<1>3. StillInside(K, g, x) = StillInside(K, f, x)
  <2> SUFFICES ASSUME NEW e \in K, ~ HasOneEnd(e, x)
               PROVE  f[e.source] = f[e.target] <=> g[e.source] = g[e.target]
    BY DEF EdgesInside, StillInside
  <2>1. e.source \in N /\ e.target \in N OBVIOUS
  <2>2. (e.source = x) <=> (e.target = x) BY DEF HasOneEnd
  <2> QED BY <1>1, <2>1, <2>2
<1>4. /\ IsFiniteSet(StillInside(K, f, x))
      /\ Cardinality(EdgesInside(K, f)) =
           Cardinality(StillInside(K, f, x)) + Cardinality(LinksTo(K, x, OthersOf(N, f, f[x], x)))
  BY InsideSplit
<1>5. PICK h : h = g OBVIOUS
<1>6. h[x] = b BY <1>1, <1>5
<1>7. Cardinality(EdgesInside(K, h)) =
        Cardinality(StillInside(K, h, x)) + Cardinality(LinksTo(K, x, OthersOf(N, h, b, x)))
  BY <1>6, InsideSplit
<1>8. Cardinality(EdgesInside(K, g)) =
        Cardinality(StillInside(K, f, x)) + Cardinality(LinksTo(K, x, OthersOf(N, f, b, x)))
  BY <1>2, <1>3, <1>5, <1>7
<1>9. Cardinality(StillInside(K, f, x)) \in Int BY <1>4, FS_CardinalityType
<1>10. \E c \in Int :
              /\ Cardinality(EdgesInside(K, f)) =
                   c + Cardinality(LinksTo(K, x, OthersOf(N, f, f[x], x)))
              /\ Cardinality(EdgesInside(K, g)) =
                   c + Cardinality(LinksTo(K, x, OthersOf(N, f, b, x)))
  BY <1>4, <1>8, <1>9
<1> QED BY <1>10

-----------------------------------------------------------------------------

LEMMA SmallestIs ==
  ASSUME NEW T \in SUBSET Nat, T # {}
  PROVE  Clusters!Smallest(T) \in T /\ \A y \in T : Clusters!Smallest(T) <= y
<1>1. \E m \in T : \A y \in T : m <= y BY LeastNatural
<1> QED BY <1>1 DEF Clusters!Smallest

(* Gains and ranks are numbers, and no two labels have a gain and a rank in
   common: they have different members besides x, and only the one x may leave
   empty has none. *)
LEMMA LabelsApart ==
  ASSUME ThemesInv, Countable, phase = "moving", NEW x \in entities
  PROVE  /\ IsFiniteSet(Clusters!Labels(x)) /\ community[x] \in Clusters!Labels(x)
         /\ \A a : Clusters!Gain(x, a) \in Int /\ Clusters!Rank(x, a) \in Nat
         /\ \A a, b \in Clusters!Labels(x) : a # b => Clusters!Rank(x, a) # Clusters!Rank(x, b)
<1> DEFINE Label == [y \in entities |-> community[y]]
           T == {Label[y] : y \in entities}
<1>0. DOMAIN community = entities /\ entities \subseteq 1..MaxNode /\ MaxNode \in Nat
  BY ThemesAssumption DEF ThemesInv, Topology, Partitioned, Clusters!Ids
<1>1. IsFiniteSet(entities)
  <2>1. IsFiniteSet(1..MaxNode) BY <1>0, FS_Interval
  <2>2. PICK I : I = 1..MaxNode OBVIOUS
  <2>3. entities \in SUBSET I BY <1>0, <2>2
  <2> QED BY <2>1, <2>2, <2>3, FS_Subset
<1>2. IsFiniteSet(T)
  <2>1. Label \in Surjection(entities, T) BY DEF Surjection
  <2> HIDE DEF Label, T
  <2> QED BY <1>1, <2>1, FS_Surjection
<1>3. \A a \in Clusters!Labels(x) : a = community[x] \/
        \E z \in entities : a = community[z] /\ Clusters!Links(x, {z}) > 0
  BY DEF Clusters!Labels
<1>4. Clusters!Labels(x) \subseteq T BY <1>3
<1>5. IsFiniteSet(Clusters!Labels(x))
  <2> HIDE DEF T
  <2> QED BY <1>2, <1>4, FS_Subset
<1>6. community[x] \in Clusters!Labels(x) BY DEF Clusters!Labels
<1>7. IsFiniteSet(Clusters!Kept)
  <2>1. Clusters!Kept \subseteq byId BY DEF Clusters!Kept
  <2> QED BY <2>1, FS_Subset DEF Countable
<1>8. \A S \in SUBSET Clusters!Kept : Clusters!Count(S) \in Nat
  BY <1>7, ThemesSort, FS_Subset, FS_CardinalityType
<1>9. \A ys : Clusters!Links(x, ys) \in Nat
  <2> TAKE ys
  <2>1. PICK S : S = {e \in Clusters!Kept : \E y \in ys \ {x} : {e.source, e.target} = {x, y}}
    OBVIOUS
  <2>2. Clusters!Links(x, ys) = Clusters!Count(S) BY <2>1 DEF Clusters!Links
  <2> QED BY <1>8, <2>1, <2>2
<1>10. \A xs : Clusters!DegreeOf(xs) \in Nat
  <2> TAKE xs
  <2>1. PICK S : S = {e \in Clusters!Kept : e.source \in xs} OBVIOUS
  <2>2. PICK R : R = {e \in Clusters!Kept : e.target \in xs} OBVIOUS
  <2>3. Clusters!DegreeOf(xs) = Clusters!Count(S) + Clusters!Count(R)
    BY <2>1, <2>2 DEF Clusters!DegreeOf
  <2> QED BY <1>8, <2>1, <2>2, <2>3
<1>11. \A a : Clusters!Gain(x, a) \in Int
  <2> TAKE a
  <2>1. PICK ys : ys = Clusters!Members(a) \ {x} OBVIOUS
  <2>2. PICK m \in Nat : m = Clusters!Count(Clusters!Kept) BY <1>8
  <2>3. PICK l \in Nat : l = Clusters!Links(x, ys) BY <1>9
  <2>4. PICK d \in Nat : d = Clusters!Degree(x) BY <1>10 DEF Clusters!Degree
  <2>5. PICK o \in Nat : o = Clusters!DegreeOf(ys) BY <1>10
  <2>6. Clusters!Gain(x, a) = 2 * m * l - Resolution * d * o
    BY <2>1, <2>2, <2>3, <2>4, <2>5 DEF Clusters!Gain
  <2>7. 2 * m * l \in Int /\ Resolution * d * o \in Int BY ThemesAssumption
  <2> QED BY <2>6, <2>7
<1>12. \A a : Clusters!Members(a) \ {x} \in SUBSET Nat /\ 0 \notin Clusters!Members(a)
  <2> TAKE a
  <2>1. \A y \in Clusters!Members(a) : y \in entities BY <1>0 DEF Clusters!Members
  <2>2. \A y \in entities : y \in Nat \ {0} BY <1>0
  <2> QED BY <2>1, <2>2
<1>13. \A a : /\ Clusters!Members(a) \ {x} # {} =>
                    /\ Clusters!Rank(x, a) \in Clusters!Members(a) \ {x}
                    /\ Clusters!Rank(x, a) \in Nat \ {0}
              /\ Clusters!Members(a) \ {x} = {} => Clusters!Rank(x, a) = 0
  <2> TAKE a
  <2>1. CASE Clusters!Members(a) \ {x} # {}
    <3>1. Clusters!Rank(x, a) \in Clusters!Members(a) \ {x}
      BY <1>12, <2>1, SmallestIs DEF Clusters!Rank
    <3> QED BY <1>12, <2>1, <3>1
  <2>2. CASE Clusters!Members(a) \ {x} = {} BY <2>2 DEF Clusters!Rank, Clusters!Smallest
  <2> QED BY <2>1, <2>2
<1>14. \A a \in Clusters!Labels(x) : a # community[x] => Clusters!Members(a) \ {x} # {}
  <2> SUFFICES ASSUME NEW a \in Clusters!Labels(x), a # community[x]
               PROVE  Clusters!Members(a) \ {x} # {}
    OBVIOUS
  <2>1. PICK z \in entities : a = community[z] BY <1>3
  <2> QED BY <1>0, <2>1 DEF Clusters!Members
<1>15. ASSUME NEW a \in Clusters!Labels(x), NEW b \in Clusters!Labels(x), a # b
       PROVE  Clusters!Rank(x, a) # Clusters!Rank(x, b)
  <2>1. (Clusters!Members(a) \ {x}) \intersect (Clusters!Members(b) \ {x}) = {}
    BY <1>15 DEF Clusters!Members
  <2> QED BY <1>13, <1>14, <1>15, <2>1
<1>16. \A a : Clusters!Rank(x, a) \in Nat BY <1>13
<1> QED BY <1>5, <1>6, <1>11, <1>15, <1>16

(* So one is best, and no worse than where x is. *)
LEMMA BestIsBest ==
  ASSUME ThemesInv, Countable, phase = "moving", NEW x \in entities
  PROVE  /\ Clusters!Best(x) \in Clusters!Labels(x)
         /\ Clusters!Gain(x, Clusters!Best(x)) >= Clusters!Gain(x, community[x])
<1> DEFINE Labels == Clusters!Labels(x)
           Better(a, b) == \/ Clusters!Gain(x, a) > Clusters!Gain(x, b)
                           \/ /\ Clusters!Gain(x, a) = Clusters!Gain(x, b)
                              /\ Clusters!Rank(x, a) < Clusters!Rank(x, b)
           R == {p \in Labels \X Labels : Better(p[1], p[2])}
<1>1. /\ IsFiniteSet(Labels) /\ community[x] \in Labels
      /\ \A a \in Labels : Clusters!Gain(x, a) \in Int /\ Clusters!Rank(x, a) \in Nat
      /\ \A a, b \in Labels : a # b => Clusters!Rank(x, a) # Clusters!Rank(x, b)
  BY LabelsApart
<1>2. \A a, b \in Labels : <<a, b>> \in R <=> Better(a, b) OBVIOUS
<1> HIDE DEF Labels
<1>3. Orders(R, Labels)
  <2> HIDE DEF R
  <2>1. \A a \in Labels : <<a, a>> \notin R BY <1>1, <1>2
  <2>2. \A a, b, c \in Labels : <<a, b>> \in R /\ <<b, c>> \in R => <<a, c>> \in R
    <3> SUFFICES ASSUME NEW a \in Labels, NEW b \in Labels, NEW c \in Labels,
                        Better(a, b), Better(b, c)
                 PROVE  Better(a, c)
      BY <1>2
    <3> QED BY <1>1
  <2>3. \A a, b \in Labels : a # b => <<a, b>> \in R \/ <<b, a>> \in R
    <3> SUFFICES ASSUME NEW a \in Labels, NEW b \in Labels, a # b
                 PROVE  Better(a, b) \/ Better(b, a)
      BY <1>2
    <3> QED BY <1>1
  <2> QED BY <2>1, <2>2, <2>3 DEF Orders
<1>4. PICK order : Ranking(order, Labels, R)
  <2> HIDE DEF R
  <2> QED BY <1>1, <1>3, RankedIsRanking
<1>5. PICK n \in Nat : n = Cardinality(Labels) BY <1>1, FS_CardinalityType
<1>6. n >= 1 /\ 1 \in 1..n
  <2>1. \E i \in 1..n : order[i] = community[x] BY <1>1, <1>4, <1>5 DEF Ranking
  <2> QED BY <1>5, <2>1
<1>7. /\ order[1] \in Labels
      /\ \A other \in Labels \ {order[1]} : Better(order[1], other)
  <2>1. order[1] \in Labels BY <1>4, <1>5, <1>6 DEF Ranking
  <2>2. ASSUME NEW other \in Labels \ {order[1]} PROVE <<order[1], other>> \in R
    <3>1. PICK i \in 1..n : order[i] = other BY <1>4, <1>5 DEF Ranking
    <3>2. i # 1 BY <3>1
    <3> HIDE DEF R
    <3> QED BY <1>4, <1>5, <1>6, <3>1, <3>2 DEF Ranking
  <2> QED BY <1>2, <2>1, <2>2
<1>8. PICK best : best = Clusters!Best(x) OBVIOUS
<1>9. /\ best \in Labels
      /\ \A other \in Labels \ {best} : Better(best, other)
  BY <1>7, <1>8 DEF Clusters!Best, Labels
<1>10. Clusters!Gain(x, best) >= Clusters!Gain(x, community[x]) BY <1>1, <1>9
<1> QED BY <1>8, <1>9, <1>10 DEF Labels

-----------------------------------------------------------------------------

ModularityOf(K, f) ==
  LET EdgeEnds == {[edge |-> e, of |-> x] : e \in K, x \in {"source", "target"}}
      Home(end) == f[end.edge[end.of]]
      Inside == {e \in K : f[e.source] = f[e.target]}
      Pairs == {p \in EdgeEnds \X EdgeEnds : Home(p[1]) = Home(p[2])}
  IN 4 * Clusters!Count(K) * Clusters!Count(Inside) - Resolution * Clusters!Count(Pairs)

Pairing(K, f) == Sharing(EndsOf(K), [d \in EndsOf(K) |-> f[d.edge[d.of]]])

(* What the module counts is what the lemmas count. *)
LEMMA ModularityIs ==
  ASSUME NEW K, NEW f
  PROVE  ModularityOf(K, f) = 4 * Cardinality(K) * Cardinality(EdgesInside(K, f))
                                - Resolution * Cardinality(Pairing(K, f))
<1>1. PICK E : E = EndsOf(K) OBVIOUS
<1>2. E = {[edge |-> e, of |-> x] : e \in K, x \in {"source", "target"}}
  BY <1>1 DEF EndsOf
<1>3. Pairing(K, f) = {p \in E \X E : f[p[1].edge[p[1].of]] = f[p[2].edge[p[2].of]]}
  BY <1>1 DEF Pairing, Sharing
<1>4. EdgesInside(K, f) = {e \in K : f[e.source] = f[e.target]} BY DEF EdgesInside
<1>5. \A S : Clusters!Count(S) = Cardinality(S) BY ThemesSort
<1> QED BY <1>2, <1>3, <1>4, <1>5 DEF ModularityOf

LEMMA GainIs ==
  ASSUME NEW K, K = Clusters!Kept, NEW f, f = community
  PROVE  \A x, a : Clusters!Gain(x, a) =
           2 * Cardinality(K) * Cardinality(LinksTo(K, x, OthersOf(DOMAIN f, f, a, x)))
             - Resolution * DegreeIn(K, {x}) * DegreeIn(K, OthersOf(DOMAIN f, f, a, x))
<1>1. \A S : Clusters!Count(S) = Cardinality(S) BY ThemesSort
<1>7. \A x, a : Clusters!Members(a) \ {x} = OthersOf(DOMAIN f, f, a, x)
  BY DEF Clusters!Members, OthersOf
<1>8. \A x, ys : Clusters!Links(x, ys) = Cardinality(LinksTo(K, x, ys))
  BY <1>1, Zenon DEF Clusters!Links, LinksTo
<1>9. \A xs : Clusters!DegreeOf(xs) = DegreeIn(K, xs)
  BY <1>1, Zenon DEF Clusters!DegreeOf, DegreeIn
<1>10. \A x : Clusters!Degree(x) = DegreeIn(K, {x}) BY <1>9 DEF Clusters!Degree
<1>11. \A x, a : Clusters!Gain(x, a) =
         2 * Cardinality(K) * Cardinality(LinksTo(K, x, OthersOf(DOMAIN f, f, a, x)))
           - Resolution * DegreeIn(K, {x}) * DegreeIn(K, OthersOf(DOMAIN f, f, a, x))
  BY <1>1, <1>7, <1>8, <1>9, <1>10, Zenon DEF Clusters!Gain
<1> QED BY <1>11

(* A weighted difference. *)
LEMMA Weighing ==
  ASSUME NEW m \in Int, NEW r \in Int, NEW d \in Int,
         NEW i \in Int, NEW p \in Int, NEW l1 \in Int, NEW o1 \in Int, NEW l2 \in Int, NEW o2 \in Int,
         2 * m * l2 - r * d * o2 >= 2 * m * l1 - r * d * o1
  PROVE  4 * m * (i + l2) - r * (p + 2 * (d * o2)) >= 4 * m * (i + l1) - r * (p + 2 * (d * o1))
<1>1. \A l \in Int : 4 * m * (i + l) = 4 * m * i + 2 * (2 * m * l) OBVIOUS
<1>2. \A o \in Int : r * (p + 2 * (d * o)) = r * p + 2 * (r * d * o) OBVIOUS
<1>3. PICK u1 \in Int : u1 = 2 * m * l1 OBVIOUS
<1>4. PICK u2 \in Int : u2 = 2 * m * l2 OBVIOUS
<1>5. PICK v1 \in Int : v1 = r * d * o1 OBVIOUS
<1>6. PICK v2 \in Int : v2 = r * d * o2 OBVIOUS
<1>7. PICK s \in Int : s = 4 * m * i OBVIOUS
<1>8. PICK t \in Int : t = r * p OBVIOUS
<1>9. u2 - v2 >= u1 - v1 BY <1>3, <1>4, <1>5, <1>6
<1>10. (s + 2 * u2) - (t + 2 * v2) >= (s + 2 * u1) - (t + 2 * v1) BY <1>9
<1>11. 4 * m * (i + l2) = s + 2 * u2 /\ 4 * m * (i + l1) = s + 2 * u1
  BY <1>1, <1>3, <1>4, <1>7
<1>12. r * (p + 2 * (d * o2)) = t + 2 * v2 /\ r * (p + 2 * (d * o1)) = t + 2 * v1
  BY <1>2, <1>5, <1>6, <1>8
<1> QED BY <1>10, <1>11, <1>12

LEMMA VisitImproves ==
  ASSUME ThemesInv, Countable, phase = "moving", Clusters!Visit
  PROVE  Clusters!Modularity' >= Clusters!Modularity
<1>1. PICK x : x = Clusters!Smallest(Clusters!Unvisited) OBVIOUS
<1>2. PICK b : b = Clusters!Best(x) OBVIOUS
<1>3. /\ Clusters!Unvisited # {}
      /\ community' = [community EXCEPT ![x] = b]
      /\ entities' = entities /\ byId' = byId
  BY <1>1, <1>2 DEF Clusters!Visit, Clusters!scan
<1>4. DOMAIN community = entities /\ \A y \in entities : y \in Nat
  BY ThemesAssumption DEF ThemesInv, Topology, Partitioned, Clusters!Ids
<1>5. x \in entities
  <2>1. Clusters!Unvisited \in SUBSET Nat BY <1>4 DEF Clusters!Unvisited
  <2>2. x \in Clusters!Unvisited BY <1>1, <1>3, <2>1, SmallestIs
  <2> QED BY <2>2 DEF Clusters!Unvisited
<1>6. PICK a : a = community[x] OBVIOUS
<1>7. Clusters!Gain(x, b) >= Clusters!Gain(x, a) BY <1>2, <1>5, <1>6, BestIsBest
<1>8. PICK K : K = Clusters!Kept OBVIOUS
<1>9. Clusters!Kept' = K BY <1>3, <1>8 DEF Clusters!Kept
<1>10. PICK f : f = community OBVIOUS
<1>11. PICK g : g = Moved(f, x, b) OBVIOUS
<1>12. g = community' BY <1>3, <1>10, <1>11 DEF Moved
<1>13. Clusters!Modularity = 4 * Cardinality(K) * Cardinality(EdgesInside(K, f))
                              - Resolution * Cardinality(Pairing(K, f))
  <2>1. Clusters!Modularity = ModularityOf(Clusters!Kept, community)
    BY DEF Clusters!Modularity, ModularityOf
  <2> QED BY <1>8, <1>10, <2>1, ModularityIs
<1>14. Clusters!Modularity' = 4 * Cardinality(K) * Cardinality(EdgesInside(K, g))
                               - Resolution * Cardinality(Pairing(K, g))
  <2>1. Clusters!Modularity' = ModularityOf(Clusters!Kept', community')
    BY DEF Clusters!Modularity, ModularityOf
  <2> QED BY <1>9, <1>12, <2>1, ModularityIs
<1>15. DOMAIN f = entities BY <1>4, <1>10
<1>16. \A c : Clusters!Gain(x, c) =
         2 * Cardinality(K) * Cardinality(LinksTo(K, x, OthersOf(entities, f, c, x)))
           - Resolution * DegreeIn(K, {x}) * DegreeIn(K, OthersOf(entities, f, c, x))
  BY <1>8, <1>10, <1>15, GainIs
<1>17. IsFiniteSet(K) /\ \A e \in K : {e.source, e.target} \subseteq entities
  <2>1. K \subseteq byId BY <1>8 DEF Clusters!Kept
  <2>2. IsFiniteSet(K) BY <2>1, FS_Subset DEF Countable
  <2> QED BY <1>8, <2>2 DEF Clusters!Kept
<1>18. PICK p \in Int :
         /\ Cardinality(Pairing(K, f)) =
              p + 2 * (DegreeIn(K, {x}) * DegreeIn(K, OthersOf(entities, f, a, x)))
         /\ Cardinality(Pairing(K, g)) =
              p + 2 * (DegreeIn(K, {x}) * DegreeIn(K, OthersOf(entities, f, b, x)))
  <2>1. a = f[x] BY <1>6, <1>10
  <2> QED BY <1>5, <1>11, <1>15, <1>17, <2>1, MovePairs DEF Pairing
<1>19. PICK i \in Int :
         /\ Cardinality(EdgesInside(K, f)) =
              i + Cardinality(LinksTo(K, x, OthersOf(entities, f, a, x)))
         /\ Cardinality(EdgesInside(K, g)) =
              i + Cardinality(LinksTo(K, x, OthersOf(entities, f, b, x)))
  <2>1. a = f[x] BY <1>6, <1>10
  <2>2. \E i \in Int :
          /\ Cardinality(EdgesInside(K, f)) =
               i + Cardinality(LinksTo(K, x, OthersOf(entities, f, f[x], x)))
          /\ Cardinality(EdgesInside(K, Moved(f, x, b))) =
               i + Cardinality(LinksTo(K, x, OthersOf(entities, f, b, x)))
    BY <1>5, <1>15, <1>17, MoveInside
  <2> QED BY <1>11, <2>1, <2>2
<1>20. PICK m \in Int : m = Cardinality(K) BY <1>17, FS_CardinalityType
<1>21. \A xs : DegreeIn(K, xs) \in Int
  <2> TAKE xs
  <2>1. Cardinality(EndsAt(K, xs)) = DegreeIn(K, xs) /\ IsFiniteSet(EndsAt(K, xs))
    BY <1>17, EndsCounted
  <2> QED BY <2>1, FS_CardinalityType
<1>22. \A ys : Cardinality(LinksTo(K, x, ys)) \in Int
  <2> TAKE ys
  <2>1. LinksTo(K, x, ys) \subseteq K BY DEF LinksTo
  <2> QED BY <1>17, <2>1, FS_Subset, FS_CardinalityType
<1>23. PICK d \in Int : d = DegreeIn(K, {x}) BY <1>21
<1>24. PICK o1 \in Int : o1 = DegreeIn(K, OthersOf(entities, f, a, x)) BY <1>21
<1>25. PICK o2 \in Int : o2 = DegreeIn(K, OthersOf(entities, f, b, x)) BY <1>21
<1>26. PICK l1 \in Int : l1 = Cardinality(LinksTo(K, x, OthersOf(entities, f, a, x))) BY <1>22
<1>27. PICK l2 \in Int : l2 = Cardinality(LinksTo(K, x, OthersOf(entities, f, b, x))) BY <1>22
<1>28. 2 * m * l2 - Resolution * d * o2 >= 2 * m * l1 - Resolution * d * o1
  <2>1. Clusters!Gain(x, b) = 2 * m * l2 - Resolution * d * o2
    BY <1>16, <1>20, <1>23, <1>25, <1>27, Zenon
  <2>2. Clusters!Gain(x, a) = 2 * m * l1 - Resolution * d * o1
    BY <1>16, <1>20, <1>23, <1>24, <1>26, Zenon
  <2> QED BY <1>7, <2>1, <2>2, Zenon
<1>29. Resolution \in Int BY ThemesAssumption
<1>30. 4 * m * (i + l2) - Resolution * (p + 2 * (d * o2)) >=
         4 * m * (i + l1) - Resolution * (p + 2 * (d * o1))
  BY <1>28, <1>29, Weighing
<1>31. /\ Clusters!Modularity' = 4 * m * (i + l2) - Resolution * (p + 2 * (d * o2))
       /\ Clusters!Modularity = 4 * m * (i + l1) - Resolution * (p + 2 * (d * o1))
  BY <1>13, <1>14, <1>18, <1>19, <1>20, <1>23, <1>24, <1>25, <1>26, <1>27
<1> QED BY <1>30, <1>31

(***************************************************************************)
(* The passes that group entities into themes only improve the partition:  *)
(* a node moves where its gain is greatest, and what it gains there is     *)
(* what the modularity gains, for any graph (themes/topology.py).          *)
(***************************************************************************)
THEOREM MovesImprove == AlgorithmsSpec => ModularityNeverFalls
<1> DEFINE Inv == part = "themes" => ThemesInv /\ Countable
<1>1. AlgorithmsInit => Inv BY ThemesStart, CountableKept DEF AlgorithmsInit
<1>2. Inv /\ [AlgorithmsNext]_algorithmVars => Inv'
  <2> SUFFICES ASSUME Inv, [AlgorithmsNext]_algorithmVars, part' = "themes"
               PROVE  ThemesInv' /\ Countable'
    OBVIOUS
  <2>1. part = "themes" /\ ThemesInv /\ Countable BY DEF AlgorithmsNext, algorithmVars
  <2>2. CASE Clusters!Next BY <2>1, <2>2, ThemesStep, CountableKept
  <2>3. CASE UNCHANGED themeVars BY <2>1, <2>3, ThemesIdle, CountableKept
  <2> QED BY <2>1, <2>2, <2>3 DEF AlgorithmsNext, algorithmVars
<1>3. Inv /\ [AlgorithmsNext]_algorithmVars
        => [phase = "moving" /\ community' # community
              => Clusters!Modularity' >= Clusters!Modularity]_(Clusters!vars)
  <2> SUFFICES ASSUME Inv, [AlgorithmsNext]_algorithmVars, phase = "moving",
                      community' # community
               PROVE  Clusters!Modularity' >= Clusters!Modularity
    OBVIOUS
  <2>1. part = "themes" /\ Clusters!Next BY DEF AlgorithmsNext, algorithmVars, themeVars
  <2>2. Clusters!Visit
    BY <2>1 DEF Clusters!Next, Clusters!ReadEntities, Clusters!ReadEdges, Clusters!Stall,
                Clusters!PassAgain, Clusters!Clustered, Clusters!Describe, Clusters!Report,
                Clusters!Returned, Clusters!Appear, Clusters!PutEdge, Clusters!DropEdge,
                Clusters!Writes, Clusters!clustering, Clusters!vars
  <2> QED BY <2>1, <2>2, VisitImproves
<1> QED
  <2> HIDE DEF Inv
  <2> QED BY <1>1, <1>2, <1>3, PTL
          DEF AlgorithmsSpec, ModularityNeverFalls, Clusters!ModularityNeverFalls

-----------------------------------------------------------------------------
(* Fractions *)

LEMMA Cancel ==
  ASSUME NEW a \in Int, NEW b \in Int, NEW c \in Nat \ {0}
  PROVE  /\ a * c > b * c <=> a > b
         /\ a * c >= b * c <=> a >= b
<1>1. a - b \in Int /\ a * c - b * c = (a - b) * c OBVIOUS
<1>2. a > b => (a - b) * c > 0 BY <1>1
<1>3. a < b => (b - a) * c > 0 /\ (b - a) * c = b * c - a * c OBVIOUS
<1>4. a = b => a * c = b * c OBVIOUS
<1>5. a * c \in Int /\ b * c \in Int OBVIOUS
<1> QED BY <1>1, <1>2, <1>3, <1>4, <1>5

(* Fractions are ordered, ... *)
LEMMA NotLess ==
  ASSUME NEW a \in Nat, NEW b \in Nat \ {0}, NEW c \in Nat, NEW d \in Nat \ {0},
         NEW e \in Nat, NEW f \in Nat \ {0}, a * d >= c * b, c * f >= e * d
  PROVE  /\ a * f >= e * b
         /\ a * d > c * b \/ c * f > e * d => a * f > e * b
<1>1. (a * d) * f >= (c * b) * f /\ (a * d > c * b => (a * d) * f > (c * b) * f)
  BY Cancel
<1>2. (c * f) * b >= (e * d) * b /\ (c * f > e * d => (c * f) * b > (e * d) * b)
  BY Cancel
<1>3. (a * d) * f = (a * f) * d /\ (c * b) * f = (c * f) * b /\ (e * d) * b = (e * b) * d
  OBVIOUS
<1>4. /\ (a * f) * d >= (e * b) * d
      /\ a * d > c * b \/ c * f > e * d => (a * f) * d > (e * b) * d
  BY <1>1, <1>2, <1>3
<1> QED BY <1>4, Cancel

(* ... and their sums grow with what is added. *)
LEMMA LargerSum ==
  ASSUME NEW a \in Nat, NEW b \in Nat \ {0}, NEW c \in Nat, NEW d \in Nat \ {0},
         NEW a1 \in Nat, NEW b1 \in Nat \ {0}, NEW c1 \in Nat, NEW d1 \in Nat \ {0},
         a * b1 >= a1 * b, c * d1 >= c1 * d
  PROVE  a * b1 > a1 * b \/ c * d1 > c1 * d =>
           (a * d + c * b) * (b1 * d1) > (a1 * d1 + c1 * b1) * (b * d)
<1>1. /\ (a * d + c * b) * (b1 * d1) = (a * b1) * (d * d1) + (c * d1) * (b * b1)
      /\ (a1 * d1 + c1 * b1) * (b * d) = (a1 * b) * (d * d1) + (c1 * d) * (b * b1)
  OBVIOUS
<1>2. d * d1 \in Nat \ {0} /\ b * b1 \in Nat \ {0} OBVIOUS
<1>3. /\ (a * b1) * (d * d1) >= (a1 * b) * (d * d1)
      /\ a * b1 > a1 * b => (a * b1) * (d * d1) > (a1 * b) * (d * d1)
      /\ (c * d1) * (b * b1) >= (c1 * d) * (b * b1)
      /\ c * d1 > c1 * d => (c * d1) * (b * b1) > (c1 * d) * (b * b1)
  BY <1>2, Cancel
<1> QED BY <1>1, <1>3

-----------------------------------------------------------------------------
(* Retrieval *)

LEMMA RetrievalSorts ==
  \A S, R : Retrieved!Ranked(S, R) = Ranked(S, R)
BY Zenon DEF Retrieved!Ranked, Retrieved!Cardinality, Ranked, Cardinality

LEMMA ItemsAreNumbers ==
  IsFiniteSet(Retrieved!Items) /\ \A x \in Retrieved!Items : x \in Nat
BY RetrievalAssumption, FS_Interval DEF Retrieved!Items

(* A ranking names an item once. *)
Scored == [item : Retrieved!Items, score : Int]
Ranks(t) ==
  /\ t \in Seq(Scored)
  /\ \A i, j \in 1..Len(t) : i < j => t[i].item # t[j].item

LEMMA Topping ==
  ASSUME NEW xs \in SUBSET Retrieved!Items, NEW of \in [xs -> Int], NEW n \in Nat,
         NEW t, t = Retrieved!Top({[item |-> x, score |-> of[x]] : x \in xs}, n)
  PROVE  Ranks(t) /\ Retrieved!ItemsOf(t) \subseteq xs
<1>1. PICK S : S = {[item |-> x, score |-> of[x]] : x \in xs} OBVIOUS
<1>2. PICK R : R = {pq \in S \X S :
                      \/ pq[1].score > pq[2].score
                      \/ pq[1].score = pq[2].score /\ pq[1].item < pq[2].item}
  OBVIOUS
<1>3. IsFiniteSet(S)
  <2>1. PICK f : f = [x \in xs |-> [item |-> x, score |-> of[x]]] OBVIOUS
  <2>2. f \in Surjection(xs, S) BY <1>1, <2>1 DEF Surjection
  <2> QED BY <2>2, ItemsAreNumbers, FS_Subset, FS_Surjection
<1>4. /\ \A a \in S : a.item \in xs /\ a.item \in Nat /\ a.score \in Int /\ a \in Scored
      /\ \A a, b \in S : a.item = b.item => a = b
  BY <1>1, ItemsAreNumbers DEF Scored
<1>5. \A a, b \in S : <<a, b>> \in R <=> a.score > b.score \/ (a.score = b.score /\ a.item < b.item)
  BY <1>2
<1>6. Orders(R, S)
  <2>1. ASSUME NEW a \in S, NEW b \in S, NEW c \in S, <<a, b>> \in R, <<b, c>> \in R
        PROVE  <<a, c>> \in R
    <3>1. /\ a.score \in Int /\ b.score \in Int /\ c.score \in Int
          /\ a.item \in Nat /\ b.item \in Nat /\ c.item \in Nat
      BY <1>4
    <3> QED BY <1>5, <2>1, <3>1
  <2>2. ASSUME NEW a \in S PROVE <<a, a>> \notin R
    <3>1. a.score \in Int /\ a.item \in Nat BY <1>4
    <3> QED BY <1>5, <3>1
  <2>3. ASSUME NEW a \in S, NEW b \in S, a # b PROVE <<a, b>> \in R \/ <<b, a>> \in R
    <3>1. /\ a.score \in Int /\ b.score \in Int /\ a.item \in Nat /\ b.item \in Nat
          /\ a.item # b.item
      BY <1>4, <2>3
    <3> QED BY <1>5, <3>1
  <2> QED BY <2>1, <2>2, <2>3 DEF Orders
<1>7. PICK best : best = Ranked(S, R) OBVIOUS
<1>8. PICK m : m = Cardinality(S) OBVIOUS
<1>9. m \in Nat /\ best \in [1..m -> S] /\ \A i, j \in 1..m : i < j => <<best[i], best[j]>> \in R
  <2>1. Ranking(best, S, R) BY <1>3, <1>6, <1>7, RankedIsRanking
  <2> QED BY <1>3, <1>8, <2>1, FS_CardinalityType DEF Ranking
<1>10. PICK l : l = IF m < n THEN m ELSE n OBVIOUS
<1>11. l \in Nat /\ l <= m BY <1>9, <1>10
<1>12. t = SubSeq(best, 1, l)
  <2>1. best = Retrieved!Ranked(S, R) BY <1>7, RetrievalSorts
  <2>2. t = SubSeq(best, 1, IF Len(best) < n THEN Len(best) ELSE n)
    BY <1>1, <1>2, <2>1, Zenon DEF Retrieved!Top
  <2>3. Len(best) = m BY <1>9
  <2> QED BY <1>10, <2>2, <2>3
<1>13. DOMAIN t = 1..l /\ Len(t) = l /\ t \in Seq(S) /\ \A i \in 1..l : t[i] = best[i] /\ i \in 1..m
  <2>1. best \in Seq(S) /\ Len(best) = m BY <1>9
  <2> QED BY <1>9, <1>11, <1>12, <2>1
<1>14. t \in Seq(Scored)
  <2>1. \A i \in 1..l : t[i] \in Scored BY <1>4, <1>9, <1>13
  <2>2. t = [i \in 1..l |-> t[i]] BY <1>13
  <2>3. t \in [1..l -> Scored] BY <2>1, <2>2
  <2> QED BY <1>11, <2>3
<1>15. ASSUME NEW i \in 1..l, NEW j \in 1..l, i < j PROVE t[i].item # t[j].item
  <2>1. PICK a, b : a = t[i] /\ b = t[j] OBVIOUS
  <2>2. <<a, b>> \in R /\ a \in S /\ b \in S BY <1>9, <1>13, <1>15, <2>1
  <2>3. a # b BY <1>6, <2>2 DEF Orders
  <2> QED BY <1>4, <2>1, <2>2, <2>3
<1>16. ASSUME NEW x \in Retrieved!ItemsOf(t) PROVE x \in xs
  <2>1. PICK i \in 1..l : x = t[i].item BY <1>13, <1>16 DEF Retrieved!ItemsOf
  <2> QED BY <1>4, <1>9, <1>13, <2>1
<1> QED BY <1>13, <1>14, <1>15, <1>16 DEF Ranks

(* An item has a place in a ranking that names it. *)
LEMMA Placed ==
  ASSUME NEW t, Ranks(t), NEW x
  PROVE  /\ x \in Retrieved!ItemsOf(t) => Retrieved!Place(t, x) \in Nat \ {0}
         /\ x \notin Retrieved!ItemsOf(t) => Retrieved!Place(t, x) = Absent
         /\ Retrieved!Place(t, x) # Absent => Retrieved!Place(t, x) \in Nat \ {0}
         /\ Retrieved!ItemsOf(t) \subseteq Retrieved!Items
<1>1. PICK at : at = {i \in DOMAIN t : t[i].item = x} OBVIOUS
<1>2. Retrieved!Place(t, x) = IF at = {} THEN Absent ELSE CHOOSE i \in at : TRUE
  BY <1>1 DEF Retrieved!Place
<1>3. x \in Retrieved!ItemsOf(t) <=> at # {} BY <1>1 DEF Retrieved!ItemsOf
<1>4. DOMAIN t = 1..Len(t) /\ \A i \in 1..Len(t) : t[i] \in Scored BY DEF Ranks
<1>5. \A i \in at : i \in Nat \ {0} BY <1>1, <1>4
<1>6. Retrieved!ItemsOf(t) \subseteq Retrieved!Items BY <1>4 DEF Retrieved!ItemsOf, Scored
<1> QED BY <1>2, <1>3, <1>5, <1>6

Fraction(q) == q[1] \in Nat /\ q[2] \in Nat \ {0}

(* A place's share is a fraction, and the larger the earlier the place. *)
LEMMA Shares ==
  ASSUME NEW t, Ranks(t), NEW x, NEW y,
         Retrieved!Place(t, y) # Absent =>
           Retrieved!Place(t, x) # Absent /\ Retrieved!Place(t, x) < Retrieved!Place(t, y)
  PROVE  LET p == Retrieved!Share(Retrieved!Place(t, x))
             q == Retrieved!Share(Retrieved!Place(t, y))
         IN /\ Fraction(p) /\ Fraction(q)
            /\ p[1] * q[2] >= q[1] * p[2]
            /\ Retrieved!Place(t, y) # Absent => p[1] * q[2] > q[1] * p[2]
<1>1. PICK a, b : a = Retrieved!Place(t, x) /\ b = Retrieved!Place(t, y) OBVIOUS
<1>2. PICK p, q : p = Retrieved!Share(a) /\ q = Retrieved!Share(b) OBVIOUS
<1>3. (a = Absent \/ a \in Nat \ {0}) /\ (b = Absent \/ b \in Nat \ {0})
  BY <1>1, Placed
<1>4. b # Absent => a # Absent /\ a < b BY <1>1
<1>5. /\ p = IF a = Absent THEN <<0, 1>> ELSE <<1, RrfK + a>>
      /\ q = IF b = Absent THEN <<0, 1>> ELSE <<1, RrfK + b>>
  BY <1>2 DEF Retrieved!Share
<1>6. /\ p[1] = IF a = Absent THEN 0 ELSE 1
      /\ p[2] = IF a = Absent THEN 1 ELSE RrfK + a
      /\ q[1] = IF b = Absent THEN 0 ELSE 1
      /\ q[2] = IF b = Absent THEN 1 ELSE RrfK + b
  BY <1>5
<1>7. /\ Fraction(p) /\ Fraction(q)
      /\ p[1] * q[2] >= q[1] * p[2]
      /\ b # Absent => p[1] * q[2] > q[1] * p[2]
  <2>1. CASE b = Absent /\ a = Absent BY <1>6, <2>1 DEF Fraction
  <2>2. CASE b = Absent /\ a # Absent BY <1>3, <1>6, <2>2, RetrievalAssumption DEF Fraction
  <2>3. CASE b # Absent BY <1>3, <1>4, <1>6, <2>3, RetrievalAssumption DEF Fraction
  <2> QED BY <2>1, <2>2, <2>3
<1> QED BY <1>1, <1>2, <1>7

Rankings == Ranks(semantic) /\ Ranks(lexical)

LEMMA FusedParts ==
  ASSUME Rankings, NEW x
  PROVE  /\ Fraction(Retrieved!Fused(x))
         /\ \A p, q : p = Retrieved!Share(Retrieved!Place(semantic, x))
                      /\ q = Retrieved!Share(Retrieved!Place(lexical, x)) =>
              /\ Fraction(p) /\ Fraction(q)
              /\ Retrieved!Fused(x)[1] = p[1] * q[2] + q[1] * p[2]
              /\ Retrieved!Fused(x)[2] = p[2] * q[2]
<1>1. PICK p, q : /\ p = Retrieved!Share(Retrieved!Place(semantic, x))
                  /\ q = Retrieved!Share(Retrieved!Place(lexical, x))
  OBVIOUS
<1>2. Fraction(p) /\ Fraction(q)
  <2>1. \A t : Ranks(t) => Fraction(Retrieved!Share(Retrieved!Place(t, x)))
    <3> SUFFICES ASSUME NEW t, Ranks(t) PROVE Fraction(Retrieved!Share(Retrieved!Place(t, x)))
      OBVIOUS
    <3>1. PICK a : a = Retrieved!Place(t, x) OBVIOUS
    <3>2. a = Absent \/ a \in Nat \ {0} BY <3>1, Placed
    <3>3. Fraction(Retrieved!Share(a))
      <4>1. CASE a = Absent
        <5>1. Retrieved!Share(a) = <<0, 1>> BY <4>1 DEF Retrieved!Share
        <5> QED BY <5>1 DEF Fraction
      <4>2. CASE a # Absent
        <5>1. Retrieved!Share(a) = <<1, RrfK + a>> /\ RrfK + a \in Nat \ {0}
          BY <3>2, <4>2, RetrievalAssumption DEF Retrieved!Share
        <5> QED BY <5>1 DEF Fraction
      <4> QED BY <4>1, <4>2
    <3> QED BY <3>1, <3>3
  <2> QED BY <1>1, <2>1 DEF Rankings
<1>3. Retrieved!Fused(x) = <<p[1] * q[2] + q[1] * p[2], p[2] * q[2]>>
  BY <1>1 DEF Retrieved!Fused, Retrieved!Sum
<1>4. /\ Retrieved!Fused(x)[1] = p[1] * q[2] + q[1] * p[2]
      /\ Retrieved!Fused(x)[2] = p[2] * q[2]
  BY <1>3
<1>5. p[1] * q[2] + q[1] * p[2] \in Nat /\ p[2] * q[2] \in Nat \ {0}
  <2>1. \A a, c \in Nat : \A b, d \in Nat \ {0} : a * d + c * b \in Nat /\ b * d \in Nat \ {0}
    OBVIOUS
  <2> QED BY <1>2, <2>1 DEF Fraction
<1>6. Fraction(Retrieved!Fused(x)) BY <1>4, <1>5 DEF Fraction
<1> QED BY <1>1, <1>2, <1>4, <1>6

(* Put first by every ranking that has either, it comes first. *)
LEMMA OutrankedIsLess ==
  ASSUME Rankings, NEW x, NEW y, Retrieved!Outranks(y, x),
         x \in Retrieved!ItemsOf(semantic) \union Retrieved!ItemsOf(lexical)
  PROVE  Retrieved!Greater(Retrieved!Fused(y), Retrieved!Fused(x))
<1>1. PICK p, q : /\ p = Retrieved!Share(Retrieved!Place(semantic, y))
                  /\ q = Retrieved!Share(Retrieved!Place(lexical, y))
  OBVIOUS
<1>2. PICK u, v : /\ u = Retrieved!Share(Retrieved!Place(semantic, x))
                  /\ v = Retrieved!Share(Retrieved!Place(lexical, x))
  OBVIOUS
<1>3. Ranks(semantic) /\ Ranks(lexical) BY DEF Rankings
<1>4. /\ Retrieved!Place(semantic, x) # Absent =>
           /\ Retrieved!Place(semantic, y) # Absent
           /\ Retrieved!Place(semantic, y) < Retrieved!Place(semantic, x)
      /\ Retrieved!Place(lexical, x) # Absent =>
           /\ Retrieved!Place(lexical, y) # Absent
           /\ Retrieved!Place(lexical, y) < Retrieved!Place(lexical, x)
  BY DEF Retrieved!Outranks
<1>5. /\ Fraction(p) /\ Fraction(u) /\ p[1] * u[2] >= u[1] * p[2]
      /\ Retrieved!Place(semantic, x) # Absent => p[1] * u[2] > u[1] * p[2]
  BY <1>1, <1>2, <1>3, <1>4, Shares
<1>6. /\ Fraction(q) /\ Fraction(v) /\ q[1] * v[2] >= v[1] * q[2]
      /\ Retrieved!Place(lexical, x) # Absent => q[1] * v[2] > v[1] * q[2]
  BY <1>1, <1>2, <1>3, <1>4, Shares
<1>7. Retrieved!Place(semantic, x) # Absent \/ Retrieved!Place(lexical, x) # Absent
  BY <1>3, Placed, RetrievalAssumption
<1>8. (p[1] * q[2] + q[1] * p[2]) * (u[2] * v[2]) > (u[1] * v[2] + v[1] * u[2]) * (p[2] * q[2])
  BY <1>5, <1>6, <1>7, LargerSum DEF Fraction
<1>9. /\ Retrieved!Fused(y)[1] = p[1] * q[2] + q[1] * p[2]
      /\ Retrieved!Fused(y)[2] = p[2] * q[2]
      /\ Retrieved!Fused(x)[1] = u[1] * v[2] + v[1] * u[2]
      /\ Retrieved!Fused(x)[2] = u[2] * v[2]
  BY <1>1, <1>2, FusedParts
<1> QED BY <1>8, <1>9 DEF Retrieved!Greater

(* Fused sums and then ids order any items. *)
FusedBefore(xs) ==
  {p \in xs \X xs :
     \/ Retrieved!Greater(Retrieved!Fused(p[1]), Retrieved!Fused(p[2]))
     \/ ~ Retrieved!Greater(Retrieved!Fused(p[2]), Retrieved!Fused(p[1])) /\ p[1] < p[2]}

LEMMA Fusing ==
  ASSUME Rankings, NEW xs \in SUBSET Retrieved!Items
  PROVE  /\ IsFiniteSet(xs)
         /\ Ranking(Retrieved!FusedOrder(xs), xs, FusedBefore(xs))
         /\ \A x, y \in xs : <<x, y>> \in FusedBefore(xs) =>
              ~ Retrieved!Greater(Retrieved!Fused(y), Retrieved!Fused(x))
         /\ \A x \in xs : <<x, x>> \notin FusedBefore(xs)
         /\ \A x, y \in xs : <<x, y>> \in FusedBefore(xs) => <<y, x>> \notin FusedBefore(xs)
<1>1. PICK R : R = FusedBefore(xs) OBVIOUS
<1>2. IsFiniteSet(xs) /\ \A x \in xs : x \in Nat BY ItemsAreNumbers, FS_Subset
<1>3. PICK over : over = [x \in xs |-> Retrieved!Fused(x)[1]] OBVIOUS
<1>4. PICK under : under = [x \in xs |-> Retrieved!Fused(x)[2]] OBVIOUS
<1>5. over \in [xs -> Nat] /\ under \in [xs -> Nat \ {0}]
  BY <1>3, <1>4, FusedParts DEF Fraction
<1>6. \A x, y \in xs : Retrieved!Greater(Retrieved!Fused(x), Retrieved!Fused(y)) <=>
                         over[x] * under[y] > over[y] * under[x]
  BY <1>3, <1>4 DEF Retrieved!Greater
<1>7. \A x, y \in xs : <<x, y>> \in R <=>
        \/ over[x] * under[y] > over[y] * under[x]
        \/ ~ (over[y] * under[x] > over[x] * under[y]) /\ x < y
  BY <1>1, <1>6 DEF FusedBefore
<1>8. \A x, y \in xs : over[x] * under[y] \in Int
  <2>1. \A a, b \in Nat : a * b \in Int OBVIOUS
  <2> QED BY <1>5, <2>1
<1>9. ASSUME NEW x \in xs, NEW y \in xs, NEW z \in xs, <<x, y>> \in R, <<y, z>> \in R
      PROVE  <<x, z>> \in R
  <2>1. over[x] * under[y] >= over[y] * under[x] /\ over[y] * under[z] >= over[z] * under[y]
    BY <1>7, <1>8, <1>9
  <2>2. /\ over[x] * under[z] >= over[z] * under[x]
        /\ over[x] * under[y] > over[y] * under[x] \/ over[y] * under[z] > over[z] * under[y] =>
             over[x] * under[z] > over[z] * under[x]
    BY <1>5, <2>1, NotLess
  <2>3. CASE over[x] * under[y] > over[y] * under[x] \/ over[y] * under[z] > over[z] * under[y]
    BY <1>7, <2>2, <2>3
  <2>4. CASE ~ (over[x] * under[y] > over[y] * under[x] \/ over[y] * under[z] > over[z] * under[y])
    <3>1. x < z BY <1>2, <1>7, <1>9, <2>4
    <3>2. ~ (over[z] * under[x] > over[x] * under[z]) BY <1>8, <2>2
    <3> QED BY <1>7, <3>1, <3>2
  <2> QED BY <2>3, <2>4
<1>10. \A x \in xs : <<x, x>> \notin R BY <1>2, <1>7, <1>8
<1>11. \A x, y \in xs : x # y => <<x, y>> \in R \/ <<y, x>> \in R BY <1>2, <1>7, <1>8
<1>12. Orders(R, xs) BY <1>9, <1>10, <1>11 DEF Orders
<1>13. Retrieved!FusedOrder(xs) = Ranked(xs, R)
  <2>1. Retrieved!FusedOrder(xs) = Retrieved!Ranked(xs, R)
    BY <1>1, Zenon DEF Retrieved!FusedOrder, FusedBefore
  <2> QED BY <2>1, RetrievalSorts
<1>14. Ranking(Retrieved!FusedOrder(xs), xs, R) BY <1>2, <1>12, <1>13, RankedIsRanking
<1>15. \A x, y \in xs : <<x, y>> \in R => ~ (over[y] * under[x] > over[x] * under[y])
  BY <1>7, <1>8
<1> QED BY <1>1, <1>2, <1>6, <1>9, <1>10, <1>14, <1>15

ItemsRanked == Retrieved!ItemsOf(semantic) \union Retrieved!ItemsOf(lexical)

Stores ==
  /\ k \in Nat
  /\ rows \in [Retrieved!Items -> {Absent} \union Rows]
  /\ vectors \in [Retrieved!Items -> {Absent} \union Vectors]
  /\ DOMAIN past = Retrieved!Items
  /\ \A x \in Retrieved!Items : rows[x] \in past[x]

(* What a ranking read with an item was its row, and a chunk's ranking read
   every row. *)
Readings ==
  /\ Rankings
  /\ matching = "semantic" => semantic = <<>>
  /\ matching \in {"semantic", "lexical"} => lexical = <<>>
  /\ DOMAIN known = Retrieved!Items
  /\ \A x \in Retrieved!Items : known[x] # Absent => known[x] \in past[x]
  /\ kind = "chunks" => \A x \in ItemsRanked : known[x] # Absent

RetrievalInv == Stores /\ Readings /\ Retrieved!MatchesHold

LEMMA NothingRanked ==
  Ranks(<<>>) /\ Retrieved!ItemsOf(<<>>) = {}
<1>1. <<>> \in Seq(Scored) /\ Len(<<>>) = 0 /\ DOMAIN <<>> = {} OBVIOUS
<1>2. Retrieved!ItemsOf(<<>>) = {} BY <1>1 DEF Retrieved!ItemsOf
<1>3. \A i \in 1..Len(<<>>) : FALSE BY <1>1
<1> QED BY <1>1, <1>2, <1>3 DEF Ranks

LEMMA RetrievalStarts == ASSUME Retrieved!Init PROVE RetrievalInv
<1>1. /\ semantic = <<>> /\ lexical = <<>> /\ matching # "done"
      /\ known = [x \in Retrieved!Items |-> Absent]
      /\ past = [x \in Retrieved!Items |-> {rows[x]}]
      /\ k \in Nat
      /\ rows \in [Retrieved!Items -> {Absent} \union Rows]
      /\ vectors \in [Retrieved!Items -> {Absent} \union Vectors]
  BY RetrievalAssumption DEF Retrieved!Init
<1>2. Stores BY <1>1 DEF Stores
<1>3. ItemsRanked = {} BY <1>1, NothingRanked DEF ItemsRanked
<1>4. Readings BY <1>1, <1>3, NothingRanked DEF Readings, Rankings
<1>5. Retrieved!MatchesHold BY <1>1 DEF Retrieved!MatchesHold
<1> QED BY <1>2, <1>4, <1>5 DEF RetrievalInv

LEMMA RankingSemantically ==
  ASSUME RetrievalInv, Retrieved!Semantic
  PROVE  RetrievalInv'
<1>1. PICK xs : xs = {y \in Retrieved!Items : Retrieved!Searched(y)} OBVIOUS
<1>2. PICK of : of = [x \in xs |-> vectors[x].score] OBVIOUS
<1>3. xs \in SUBSET Retrieved!Items /\ of \in [xs -> Int]
  BY <1>1, <1>2, RetrievalAssumption DEF Retrieved!Searched, RetrievalInv, Stores
<1>4. PICK n \in Nat : n = k * Overfetch
  BY RetrievalAssumption DEF RetrievalInv, Stores
<1>5. PICK t : t = semantic' OBVIOUS
<1>6. PICK S : S = {[item |-> x, score |-> of[x]] : x \in xs} OBVIOUS
<1>7. t = Retrieved!Top(S, n)
  <2>1. S = {[item |-> x, score |-> vectors[x].score] : x \in xs} BY <1>2, <1>6
  <2> QED BY <1>1, <1>4, <1>5, <2>1, Zenon DEF Retrieved!Semantic
<1>8. Ranks(t) /\ Retrieved!ItemsOf(t) \subseteq xs BY <1>3, <1>4, <1>6, <1>7, Topping
<1>9. /\ matching = "semantic" /\ matching' \in {"lexical", "resolve"}
      /\ known' = [x \in Retrieved!Items |->
                     IF kind = "chunks" /\ x \in Retrieved!ItemsOf(t) THEN rows[x] ELSE Absent]
      /\ UNCHANGED <<kind, k, rows, vectors, lexical, past>>
  BY <1>5 DEF Retrieved!Semantic, Retrieved!call
<1>10. Stores' BY <1>9 DEF RetrievalInv, Stores
<1>11. lexical = <<>> BY <1>9 DEF RetrievalInv, Readings
<1>12. ItemsRanked' = Retrieved!ItemsOf(t) BY <1>5, <1>9, <1>11, NothingRanked DEF ItemsRanked
<1>13. Rankings' BY <1>5, <1>8, <1>9, <1>11, NothingRanked DEF Rankings
<1>14. kind = "chunks" => \A x \in xs : rows[x] # Absent BY <1>1 DEF Retrieved!Searched
<1>15. Readings'
  BY <1>3, <1>8, <1>9, <1>11, <1>12, <1>13, <1>14 DEF Readings, RetrievalInv, Stores
<1>16. Retrieved!MatchesHold' BY <1>9 DEF Retrieved!MatchesHold
<1> QED BY <1>10, <1>15, <1>16 DEF RetrievalInv

LEMMA RankingLexically ==
  ASSUME RetrievalInv, Retrieved!Lexical
  PROVE  RetrievalInv'
<1>1. PICK xs : xs = {y \in Retrieved!Items : Retrieved!Candidate(y)} OBVIOUS
<1>2. PICK of : of = [x \in xs |-> rows[x].lexical] OBVIOUS
<1>3. xs \in SUBSET Retrieved!Items /\ of \in [xs -> Int]
  BY <1>1, <1>2, RetrievalAssumption DEF Retrieved!Candidate, RetrievalInv, Stores
<1>4. PICK n \in Nat : n = k * Overfetch
  BY RetrievalAssumption DEF RetrievalInv, Stores
<1>5. PICK t : t = lexical' OBVIOUS
<1>6. PICK S : S = {[item |-> x, score |-> of[x]] : x \in xs} OBVIOUS
<1>7. t = Retrieved!Top(S, n)
  <2>1. S = {[item |-> x, score |-> rows[x].lexical] : x \in xs} BY <1>2, <1>6
  <2> QED BY <1>1, <1>4, <1>5, <2>1, Zenon DEF Retrieved!Lexical
<1>8. Ranks(t) /\ Retrieved!ItemsOf(t) \subseteq xs BY <1>3, <1>4, <1>6, <1>7, Topping
<1>9. /\ matching = "lexical" /\ matching' = "resolve"
      /\ known' = [x \in Retrieved!Items |->
                     IF x \in Retrieved!ItemsOf(t) THEN rows[x] ELSE known[x]]
      /\ UNCHANGED <<kind, k, rows, vectors, semantic, past>>
  BY <1>5 DEF Retrieved!Lexical, Retrieved!call
<1>10. Stores' BY <1>9 DEF RetrievalInv, Stores
<1>11. Ranks(semantic) /\ Retrieved!ItemsOf(semantic) \subseteq Retrieved!Items
  BY Placed DEF RetrievalInv, Readings, Rankings
<1>12. ItemsRanked' = Retrieved!ItemsOf(semantic) \union Retrieved!ItemsOf(t)
  BY <1>5, <1>9 DEF ItemsRanked
<1>13. Rankings' BY <1>5, <1>8, <1>9, <1>11 DEF Rankings
<1>14. \A x \in xs : rows[x] # Absent BY <1>1 DEF Retrieved!Candidate
<1>15. kind = "chunks" => \A x \in Retrieved!ItemsOf(semantic) : known[x] # Absent
  BY DEF RetrievalInv, Readings, ItemsRanked
<1>16. Readings'
  BY <1>3, <1>8, <1>9, <1>11, <1>12, <1>13, <1>14, <1>15 DEF Readings, RetrievalInv, Stores
<1>17. Retrieved!MatchesHold' BY <1>9 DEF Retrieved!MatchesHold
<1> QED BY <1>10, <1>16, <1>17 DEF RetrievalInv

(* No more than k are the best k. *)
LEMMA BestAreFew ==
  ASSUME Rankings, k \in Nat
  PROVE  /\ Retrieved!BestFused \subseteq ItemsRanked /\ ItemsRanked \subseteq Retrieved!Items
         /\ IsFiniteSet(Retrieved!BestFused) /\ Cardinality(Retrieved!BestFused) \in Nat
         /\ Cardinality(Retrieved!BestFused) <= k
         /\ \A x \in Retrieved!BestFused : \A y \in ItemsRanked :
              Retrieved!Greater(Retrieved!Fused(y), Retrieved!Fused(x)) => y \in Retrieved!BestFused
<1>1. ItemsRanked \subseteq Retrieved!Items BY Placed DEF ItemsRanked, Rankings
<1>2. PICK order : order = Retrieved!FusedOrder(ItemsRanked) OBVIOUS
<1>3. PICK m : m = Cardinality(ItemsRanked) OBVIOUS
<1>4. m \in Nat /\ IsFiniteSet(ItemsRanked) BY <1>1, <1>3, Fusing, FS_CardinalityType
<1>5. /\ order \in [1..m -> ItemsRanked]
      /\ \A i, j \in 1..m : i < j => <<order[i], order[j]>> \in FusedBefore(ItemsRanked)
      /\ \A x \in ItemsRanked : \E i \in 1..m : order[i] = x
  BY <1>1, <1>2, <1>3, Fusing DEF Ranking
<1>6. PICK l : l = IF m < k THEN m ELSE k OBVIOUS
<1>7. l \in Nat /\ l <= k /\ \A j : j \in 1..l <=> j \in 1..m /\ j <= k BY <1>4, <1>6
<1>8. Retrieved!BestFused = {order[i] : i \in 1..l}
  <2>1. Retrieved!BestFused = {order[i] : i \in {j \in DOMAIN order : j <= k}}
    BY <1>2, Zenon DEF Retrieved!BestFused, ItemsRanked
  <2>2. {j \in DOMAIN order : j <= k} = 1..l BY <1>5, <1>7
  <2> QED BY <2>1, <2>2
<1>9. PICK best : best = Retrieved!BestFused OBVIOUS
<1>10. best \subseteq ItemsRanked BY <1>5, <1>7, <1>8, <1>9
<1>11. IsFiniteSet(best) /\ Cardinality(best) \in Nat /\ Cardinality(best) <= k
  <2>1. PICK f : f = [i \in 1..l |-> order[i]] OBVIOUS
  <2>2. f \in Surjection(1..l, best) BY <1>8, <1>9, <2>1 DEF Surjection
  <2>3. IsFiniteSet(1..l) /\ Cardinality(1..l) = l
    <3>1. Cardinality(1..l) = IF 1 > l THEN 0 ELSE l - 1 + 1 BY <1>7, FS_Interval
    <3> QED BY <1>7, <3>1, FS_Interval
  <2>4. IsFiniteSet(best) /\ Cardinality(best) <= l BY <2>2, <2>3, FS_Surjection
  <2>5. Cardinality(best) \in Nat BY <2>4, FS_CardinalityType
  <2> QED BY <1>7, <2>4, <2>5
<1>12. ASSUME NEW x \in best, NEW y \in ItemsRanked,
              Retrieved!Greater(Retrieved!Fused(y), Retrieved!Fused(x))
       PROVE  y \in best
  <2>1. PICK i \in 1..l : x = order[i] BY <1>8, <1>9
  <2>2. PICK j \in 1..m : y = order[j] BY <1>5
  <2>3. i \in 1..m BY <1>7
  <2>4. ~ (i < j)
    <3> SUFFICES ASSUME i < j PROVE FALSE OBVIOUS
    <3>1. <<x, y>> \in FusedBefore(ItemsRanked) BY <1>5, <2>1, <2>2, <2>3
    <3>2. x \in ItemsRanked BY <1>10
    <3> QED BY <1>1, <1>12, <3>1, <3>2, Fusing
  <2>5. j \in 1..l BY <1>4, <1>7, <2>3, <2>4
  <2> QED BY <1>8, <1>9, <2>2, <2>5
<1> QED BY <1>1, <1>9, <1>10, <1>11, <1>12

LEMMA OutrankingStays ==
  ASSUME UNCHANGED <<semantic, lexical>>
  PROVE  \A x, y : Retrieved!Outranks(x, y)' <=> Retrieved!Outranks(x, y)
BY DEF Retrieved!Outranks, Retrieved!Place

LEMMA Resolving ==
  ASSUME RetrievalInv, Retrieved!Resolve
  PROVE  RetrievalInv'
<1>1. PICK X : X = {x \in Retrieved!BestFused : Retrieved!Resolved(x) # Absent} OBVIOUS
<1>2. PICK there : there = Retrieved!FusedOrder(X) OBVIOUS
<1>3. PICK n : n = Cardinality(X) OBVIOUS
<1>4. /\ UNCHANGED <<kind, k, rows, vectors, semantic, lexical, known, past>>
      /\ matching = "resolve" /\ matching' = "done"
      /\ matches' = [i \in DOMAIN there |-> [item |-> there[i], row |-> Retrieved!Resolved(there[i])]]
  <2>1. matches' = [i \in DOMAIN there |-> [item |-> there[i], row |-> Retrieved!Resolved(there[i])]]
    BY <1>1, <1>2, Zenon DEF Retrieved!Resolve
  <2> QED BY <2>1 DEF Retrieved!Resolve, Retrieved!call
<1>5. Rankings /\ k \in Nat BY DEF RetrievalInv, Readings, Stores
<1>6. X \subseteq ItemsRanked /\ X \subseteq Retrieved!BestFused /\ X \in SUBSET Retrieved!Items
  BY <1>1, <1>5, BestAreFew
<1>7. n \in Nat /\ n <= k
  <2>1. IsFiniteSet(X) /\ Cardinality(X) <= Cardinality(Retrieved!BestFused)
    BY <1>5, <1>6, BestAreFew, FS_Subset
  <2> QED BY <1>3, <1>5, <2>1, BestAreFew, FS_CardinalityType
<1>8. /\ there \in [1..n -> X]
      /\ \A i, j \in 1..n : i < j => <<there[i], there[j]>> \in FusedBefore(X)
      /\ \A x \in X : \E i \in 1..n : there[i] = x
  BY <1>2, <1>3, <1>5, <1>6, Fusing DEF Ranking
<1>9. /\ DOMAIN matches' = 1..n /\ Len(matches') = n
      /\ \A i \in 1..n : /\ matches'[i].item = there[i]
                         /\ matches'[i].row = Retrieved!Resolved(there[i])
  BY <1>4, <1>7, <1>8
<1>10. Retrieved!ItemsOf(matches') = X
  BY <1>8, <1>9 DEF Retrieved!ItemsOf
<1>11. \A x \in X : Retrieved!Resolved(x) \in past[x] \ {Absent}
  <2> SUFFICES ASSUME NEW x \in X PROVE Retrieved!Resolved(x) \in past[x]
    BY <1>1
  <2>1. x \in Retrieved!Items BY <1>6
  <2>2. Retrieved!Resolved(x) # Absent BY <1>1
  <2> QED BY <2>1, <2>2 DEF Retrieved!Resolved, RetrievalInv, Stores, Readings
<1>12. \A x, y : Retrieved!Outranks(x, y)' <=> Retrieved!Outranks(x, y) BY <1>4, OutrankingStays
<1>13. ASSUME NEW i \in 1..n, NEW j \in 1..n, i < j
       PROVE  /\ matches'[i].item # matches'[j].item
              /\ ~ Retrieved!Outranks(matches'[j].item, matches'[i].item)
  <2>1. PICK x, y : x = there[i] /\ y = there[j] OBVIOUS
  <2>2. <<x, y>> \in FusedBefore(X) /\ x \in X /\ y \in X BY <1>8, <1>13, <2>1
  <2>3. x # y BY <1>5, <1>6, <2>2, Fusing
  <2>4. ~ Retrieved!Greater(Retrieved!Fused(y), Retrieved!Fused(x)) BY <1>5, <1>6, <2>2, Fusing
  <2>5. x \in ItemsRanked BY <1>6, <2>2
  <2>6. ~ Retrieved!Outranks(y, x) BY <1>5, <2>4, <2>5, OutrankedIsLess DEF ItemsRanked
  <2> QED BY <1>9, <2>1, <2>3, <2>6
<1>14. ASSUME NEW x \in X, NEW y \in ItemsRanked, y \notin X, Absent \notin past[y],
              Retrieved!Outranks(y, x)
       PROVE  FALSE
  <2>1. x \in Retrieved!BestFused /\ x \in ItemsRanked BY <1>6
  <2>2. Retrieved!Greater(Retrieved!Fused(y), Retrieved!Fused(x))
    BY <1>5, <1>14, <2>1, OutrankedIsLess DEF ItemsRanked
  <2>3. y \in Retrieved!BestFused /\ y \in Retrieved!Items BY <1>5, <2>1, <2>2, BestAreFew
  <2>4. Retrieved!Resolved(y) # Absent
    <3>1. rows[y] # Absent BY <1>14, <2>3 DEF RetrievalInv, Stores
    <3>2. kind = "chunks" => known[y] # Absent BY DEF RetrievalInv, Readings
    <3> QED BY <3>1, <3>2 DEF Retrieved!Resolved
  <2> QED BY <1>1, <1>14, <2>3, <2>4
<1>15. Stores' BY <1>4 DEF RetrievalInv, Stores
<1>16. Readings' BY <1>4 DEF RetrievalInv, Readings, Rankings, ItemsRanked
<1>17. Retrieved!MatchesHold'
  <2>1. Len(matches') <= k' BY <1>4, <1>7, <1>9
  <2>2. \A i \in 1..n : matches'[i].row \in past'[matches'[i].item] \ {Absent}
    BY <1>4, <1>8, <1>9, <1>11
  <2>3. \A x \in X : \A y \in ItemsRanked' : y \notin X /\ Absent \notin past'[y] =>
          ~ Retrieved!Outranks(y, x)'
    <3>1. ItemsRanked' = ItemsRanked /\ past' = past BY <1>4 DEF ItemsRanked
    <3> QED BY <1>12, <1>14, <3>1
  <2>4. PICK m : m = matches' OBVIOUS
  <2>5. \A i, j \in 1..n : i < j =>
          /\ m[i].item # m[j].item
          /\ ~ Retrieved!Outranks(m[j].item, m[i].item)'
    BY <1>12, <1>13, <2>4
  <2>6. DOMAIN m = 1..n BY <1>9, <2>4
  <2>7. \A x \in Retrieved!Items : \A y \in ItemsRanked' :
          x \in Retrieved!ItemsOf(m) /\ y \notin Retrieved!ItemsOf(m) /\ Absent \notin past'[y] =>
            ~ Retrieved!Outranks(y, x)'
    BY <1>10, <2>3, <2>4
  <2>8. \A i \in 1..n : m[i].row \in past'[m[i].item] \ {Absent} BY <2>2, <2>4
  <2> QED BY <2>1, <2>4, <2>5, <2>6, <2>7, <2>8, Zenon DEF Retrieved!MatchesHold, ItemsRanked
<1> QED BY <1>15, <1>16, <1>17 DEF RetrievalInv

LEMMA Changing ==
  ASSUME RetrievalInv, NEW x \in Retrieved!Items,
         \/ \E row \in {Absent} \union Rows : Retrieved!WriteRow(x, row)
         \/ \E vector \in {Absent} \union Vectors : Retrieved!WriteVector(x, vector)
  PROVE  RetrievalInv'
<1>1. /\ matching # "done" /\ UNCHANGED <<kind, k, matching, semantic, lexical, known>>
  BY DEF Retrieved!WriteRow, Retrieved!WriteVector, Retrieved!call
<1>2. /\ Stores' /\ \A y \in Retrieved!Items : past[y] \subseteq past'[y]
  <2>1. ASSUME NEW row \in {Absent} \union Rows, Retrieved!WriteRow(x, row)
        PROVE  Stores' /\ \A y \in Retrieved!Items : past[y] \subseteq past'[y]
    <3>1. /\ rows' = [rows EXCEPT ![x] = row] /\ vectors' = vectors
          /\ past' = [past EXCEPT ![x] = past[x] \union {row}]
      BY <2>1 DEF Retrieved!WriteRow
    <3> QED BY <1>1, <3>1 DEF RetrievalInv, Stores
  <2>2. ASSUME NEW vector \in {Absent} \union Vectors, Retrieved!WriteVector(x, vector)
        PROVE  Stores' /\ \A y \in Retrieved!Items : past[y] \subseteq past'[y]
    <3>1. /\ vectors' = [vectors EXCEPT ![x] = vector] /\ rows' = rows /\ past' = past
      BY <2>2 DEF Retrieved!WriteVector
    <3> QED BY <1>1, <3>1 DEF RetrievalInv, Stores
  <2> QED BY <2>1, <2>2
<1>3. Readings' BY <1>1, <1>2 DEF RetrievalInv, Readings, Rankings, ItemsRanked
<1>4. Retrieved!MatchesHold' BY <1>1 DEF Retrieved!MatchesHold
<1> QED BY <1>2, <1>3, <1>4 DEF RetrievalInv

LEMMA RetrievalIdle ==
  ASSUME RetrievalInv, UNCHANGED retrievalVars
  PROVE  RetrievalInv'
<1>1. UNCHANGED <<kind, k, rows, vectors, matching, semantic, lexical, known, matches, past>>
  BY DEF retrievalVars
<1>2. Stores' /\ Readings'
  BY <1>1 DEF RetrievalInv, Stores, Readings, Rankings, ItemsRanked
<1>3. Retrieved!MatchesHold'
  <2>1. \A x, y : Retrieved!Outranks(x, y)' <=> Retrieved!Outranks(x, y)
    BY <1>1, OutrankingStays
  <2>2. PICK m : m = matches OBVIOUS
  <2> QED BY <1>1, <2>1, <2>2 DEF RetrievalInv, Retrieved!MatchesHold
<1> QED BY <1>2, <1>3 DEF RetrievalInv

(***************************************************************************)
(* Whatever is written between the reads of a retrieval: no item twice,    *)
(* none as it never was, and of the best none that was there all along     *)
(* missing, for any rows, vectors, scores and limits                       *)
(* (composition/retrieval.py, domain/fusion.py).                           *)
(***************************************************************************)
THEOREM RetrievalHolds == AlgorithmsSpec => []MatchesHold
<1> DEFINE Inv == part = "retrieval" => RetrievalInv
<1>1. AlgorithmsInit => Inv BY RetrievalStarts DEF AlgorithmsInit
<1>2. Inv /\ [AlgorithmsNext]_algorithmVars => Inv'
  <2> SUFFICES ASSUME Inv, [AlgorithmsNext]_algorithmVars, part' = "retrieval"
               PROVE  RetrievalInv'
    OBVIOUS
  <2>1. part = "retrieval" /\ RetrievalInv BY DEF AlgorithmsNext, algorithmVars
  <2>2. CASE UNCHANGED retrievalVars BY <2>1, <2>2, RetrievalIdle
  <2>3. CASE Retrieved!Next
    <3>1. Retrieved!Returned => UNCHANGED retrievalVars
      BY DEF Retrieved!Returned, Retrieved!vars, retrievalVars
    <3> QED BY <2>1, <2>3, <3>1, RetrievalIdle, RankingSemantically, RankingLexically, Resolving,
               Changing DEF Retrieved!Next
  <2> QED BY <2>1, <2>2, <2>3 DEF AlgorithmsNext, algorithmVars
<1>3. Inv => MatchesHold
  BY DEF RetrievalInv, MatchesHold
<1> QED
  <2> HIDE DEF Inv
  <2> QED BY <1>1, <1>2, <1>3, PTL DEF AlgorithmsSpec

-----------------------------------------------------------------------------
(* What temporal expressions mean *)

LEMMA Units ==
  /\ Meaning!Width.instant = 1 /\ Meaning!Width.minute = 2 /\ Meaning!Width.hour = 4
  /\ Meaning!Width.day = 8 /\ Meaning!Width.month = 16 /\ Meaning!Width.year = 192
BY DEF Meaning!Width

LEMMA YearSpan ==
  ASSUME NEW x \in Int, NEW y \in Int
  PROVE  (x \div 192) + 1 = y <=> (y - 1) * 192 <= x /\ x < y * 192
OBVIOUS

LEMMA MonthSpan ==
  ASSUME NEW x \in Int, NEW y \in Int, NEW n \in 1..12
  PROVE  (x \div 192) + 1 = y /\ ((x % 192) \div 16) + 1 = n
           <=> /\ (y - 1) * 192 + (n - 1) * 16 <= x
               /\ x < (y - 1) * 192 + n * 16
OBVIOUS

LEMMA DaySpan ==
  ASSUME NEW x \in Int, NEW y \in Int, NEW n \in 1..12, NEW d \in 1..2
  PROVE  (x \div 192) + 1 = y /\ ((x % 192) \div 16) + 1 = n /\ ((x % 16) \div 8) + 1 = d
           <=> /\ (y - 1) * 192 + (n - 1) * 16 + (d - 1) * 8 <= x
               /\ x < (y - 1) * 192 + (n - 1) * 16 + d * 8
OBVIOUS

(* The hour or the minute of a day in which t is written and u is: the day
   begins at b, and that unit c later. *)
SameUnit(b, w, t, u, c) == b % 8 = 0 /\ u \div w = t \div w /\ c = (t \div w) * w

DayUnit(b, w, t, u, c) ==
  /\ c <= u /\ u < c + w
  /\ ((b + u) \div w) * w = b + c /\ (((b + u) \div w) + 1) * w = b + c + w
  /\ \A x \in Int :
       b <= x /\ x < b + 8 /\ (x % 8) \div w = t \div w <=> b + c <= x /\ x < b + c + w

LEMMA UnitOfDay ==
  ASSUME NEW b \in Int, NEW w \in {2, 4, 8}, NEW t \in 0..7, NEW u \in 0..7, NEW c \in Int,
         SameUnit(b, w, t, u, c)
  PROVE  DayUnit(b, w, t, u, c)
<1>1. CASE w = 2 BY <1>1 DEF SameUnit, DayUnit
<1>2. CASE w = 4 BY <1>2 DEF SameUnit, DayUnit
<1>3. CASE w = 8 BY <1>3 DEF SameUnit, DayUnit
<1> QED BY <1>1, <1>2, <1>3

(* What is filled in below the unit that is written stays within it. *)
LEMMA FilledIn ==
  ASSUME NEW w \in {2, 4, 8}, NEW z \in {1, 2, 4, 8}, z = w \/ (z = 1 /\ w = 2),
         NEW t \in 0..7, t % z = 0, NEW l \in Int
  PROVE  t + (l % z) \in 0..7 /\ (t + (l % z)) \div w = t \div w
<1>1. CASE z = 1 BY <1>1
<1>2. CASE z = 2 BY <1>2
<1>3. CASE z = 4 BY <1>3
<1>4. CASE z = 8 BY <1>4
<1> QED BY <1>1, <1>2, <1>3, <1>4

(* The day a moment is in. *)
LEMMA DayOfMoment ==
  ASSUME NEW l \in Int
  PROVE  (l \div 192) * 192 + ((l % 192) \div 16) * 16 + ((l % 16) \div 8) * 8 = (l \div 8) * 8
<1>1. PICK j \in Int : j = l \div 8 OBVIOUS
<1>2. l \div 192 = j \div 24 BY <1>1
<1>3. (l % 192) \div 16 = (j % 24) \div 2 BY <1>1
<1>4. (l % 16) \div 8 = j % 2 BY <1>1
<1> QED BY <1>1, <1>2, <1>3, <1>4

(* The parts of a wall clock. *)
LEMMA Clocks ==
  ASSUME NEW m \in Meaning!Moment
  PROVE  /\ m.local \in Int /\ m.offset \in Int /\ Meaning!At(m) = m.local - m.offset
         /\ Meaning!YearOf(m) = (m.local \div 192) + 1 /\ Meaning!YearOf(m) \in Int
         /\ Meaning!MonthOf(m) = ((m.local % 192) \div 16) + 1 /\ Meaning!MonthOf(m) \in 1..12
         /\ Meaning!DayOf(m) = ((m.local % 16) \div 8) + 1 /\ Meaning!DayOf(m) \in 1..2
<1>1. m.local \in Int /\ m.offset \in Int BY DEF Meaning!Moment
<1>2. PICK n \in Int : n = m.local BY <1>1
<1>3. /\ ((n % 192) \div 16) + 1 \in 1..12 /\ ((n % 16) \div 8) + 1 \in 1..2
      /\ (n \div 192) + 1 \in Int
  OBVIOUS
<1> QED BY <1>1, <1>2, <1>3, Units
        DEF Meaning!At, Meaning!YearOf, Meaning!MonthOf, Meaning!DayOf

LEMMA Instants ==
  ASSUME NEW x \in Int
  PROVE  /\ Meaning!Utc(x) \in Meaning!Moment
         /\ Meaning!Utc(x).local = x /\ Meaning!Utc(x).offset = 0
         /\ Meaning!YearOf(Meaning!Utc(x)) = (x \div 192) + 1
         /\ Meaning!MonthOf(Meaning!Utc(x)) = ((x % 192) \div 16) + 1
         /\ Meaning!DayOf(Meaning!Utc(x)) = ((x % 16) \div 8) + 1
BY Units DEF Meaning!Utc, Meaning!Moment, Meaning!YearOf, Meaning!MonthOf, Meaning!DayOf

YearAt(x) == (x \div 192) + 1
MonthAt(x) == ((x % 192) \div 16) + 1
DayAt(x) == ((x % 16) \div 8) + 1

LEMMA PartsOf ==
  ASSUME NEW x \in Int
  PROVE  /\ Meaning!YearOf(Meaning!Utc(x)) = YearAt(x) /\ Meaning!MonthOf(Meaning!Utc(x)) = MonthAt(x)
         /\ Meaning!DayOf(Meaning!Utc(x)) = DayAt(x)
BY Units DEF YearAt, MonthAt, DayAt, Meaning!Utc, Meaning!YearOf, Meaning!MonthOf, Meaning!DayOf

LEMMA Probes ==
  /\ \A m \in {ProbeA, ProbeB} :
       m \in Meaning!Moment /\ m.local \in Int /\ m.offset = 0 /\ m.local % 8 = 0 /\ m # None
  /\ None \notin Int /\ None \notin Meaning!Moment
BY MeaningAssumption, Units DEF Meaning!Moment

-----------------------------------------------------------------------------

(* What is found of a form read at a moment. *)
Found(f, v) == Meaning!Attempt(f, v)
Dated(from, till, p) == [start |-> from, end |-> till, precision |-> p]

(* The unit a moment is in, and what follows it. *)
UnitOf(m, p) ==
  [local |-> (m.local \div Meaning!Width[p]) * Meaning!Width[p], offset |-> m.offset]
Beyond(m, p) ==
  [local |-> ((m.local \div Meaning!Width[p]) + 1) * Meaning!Width[p], offset |-> m.offset]
LastOf(found) == IF found.end = None THEN found.start ELSE found.end
Begins(found) == Meaning!At(UnitOf(found.start, found.precision))
Over(found) == Meaning!At(Beyond(LastOf(found), found.precision))

(* Years and months are those of UTC. *)
InUtc(from, till, p) ==
  p \in {"year", "month"} => from.offset = 0 /\ (till # None => till.offset = 0)

(* What was found has dates. *)
Structured(f, v) ==
  /\ Found(f, v) = Dated(Found(f, v).start, Found(f, v).end, Found(f, v).precision)
  /\ Found(f, v).start \in Meaning!Moment
  /\ Found(f, v).end \in {None} \union Meaning!Moment
  /\ Found(f, v).precision \in DOMAIN Meaning!Width
  /\ \A m \in {Found(f, v).start, Found(f, v).end} \ {None} : Meaning!YearOf(m) \in 1..MaxYear
  /\ InUtc(Found(f, v).start, Found(f, v).end, Found(f, v).precision)

(* What was found covers what the form means. *)
Covers(f, v) ==
  /\ Begins(Found(f, v)) <= Meaning!At(Found(f, v).start)
  /\ Meaning!At(Found(f, v).start) < Over(Found(f, v))
  /\ \A x \in Int : Meaning!Spans(f, v, x) <=> Begins(Found(f, v)) <= x /\ x < Over(Found(f, v))

(* The forms of which that is said. *)
Said(f, v) ==
  /\ f.kind \notin {"quarter", "quarters"}
  /\ f.kind = "natural" => v.offset = 0

Faithful(f, v) == Structured(f, v) /\ (Said(f, v) => Covers(f, v))

LEMMA ParsedIs ==
  ASSUME NEW from, NEW till, NEW p, Meaning!Parsed(from, till, p) # Raised
  PROVE  /\ Meaning!Parsed(from, till, p) = Dated(from, till, p)
         /\ \A m \in {from, till} \ {None} : Meaning!YearOf(m) \in 1..MaxYear
BY DEF Meaning!Parsed, Dated

LEMMA TripleIs ==
  ASSUME NEW from, NEW till, NEW p
  PROVE  /\ Dated(from, till, p).start = from /\ Dated(from, till, p).end = till
         /\ Dated(from, till, p).precision = p
BY DEF Dated

(* A form of which is made what covers the instants from a until b. *)
Gives(f, v, from, till, p, a, b) ==
  /\ Found(f, v) = Meaning!Parsed(from, till, p) /\ Found(f, v) # Raised
  /\ from \in Meaning!Moment /\ till \in {None} \union Meaning!Moment
  /\ p \in DOMAIN Meaning!Width
  /\ InUtc(from, till, p)
  /\ Said(f, v) =>
       /\ Meaning!At(UnitOf(from, p)) = a
       /\ Meaning!At(Beyond(IF till = None THEN from ELSE till, p)) = b
       /\ a <= Meaning!At(from) /\ Meaning!At(from) < b
       /\ \A x \in Int : Meaning!Spans(f, v, x) <=> a <= x /\ x < b

LEMMA GivenIsFaithful ==
  ASSUME NEW f, NEW v, NEW from, NEW till, NEW p, NEW a, NEW b, Gives(f, v, from, till, p, a, b)
  PROVE  Faithful(f, v)
<1>1. /\ Found(f, v) = Dated(from, till, p)
      /\ \A m \in {from, till} \ {None} : Meaning!YearOf(m) \in 1..MaxYear
  BY ParsedIs DEF Gives
<1>2. /\ Found(f, v).start = from /\ Found(f, v).end = till /\ Found(f, v).precision = p
  BY <1>1, TripleIs
<1>3. Structured(f, v) BY <1>1, <1>2 DEF Gives, Structured
<1>4. ASSUME Said(f, v) PROVE Covers(f, v)
  <2>1. Over(Found(f, v)) = b /\ Begins(Found(f, v)) = a
    BY <1>2, <1>4 DEF Gives, Over, Begins, LastOf
  <2> QED BY <1>2, <1>4, <2>1 DEF Gives, Covers
<1> QED BY <1>3, <1>4 DEF Faithful

(* Where years and months begin, and where they are over. *)
LEMMA YearBegins ==
  ASSUME NEW y \in Int, NEW m, m = Meaning!Date(y, 1, 1)
  PROVE  /\ m \in Meaning!Moment
         /\ Meaning!At(m) = (y - 1) * 192 /\ Meaning!At(UnitOf(m, "year")) = (y - 1) * 192
         /\ Meaning!At(Beyond(m, "year")) = y * 192
<1>1. PICK l \in Int : l = (y - 1) * 192 OBVIOUS
<1>2. m = [local |-> l, offset |-> 0] BY <1>1, Units DEF Meaning!Date, Meaning!Utc
<1>3. m \in Meaning!Moment /\ Meaning!At(m) = l BY <1>2 DEF Meaning!Moment, Meaning!At
<1>4. /\ Meaning!At(UnitOf(m, "year")) = (l \div 192) * 192
      /\ Meaning!At(Beyond(m, "year")) = ((l \div 192) + 1) * 192
  BY <1>2, Units DEF UnitOf, Beyond, Meaning!At
<1>5. (l \div 192) * 192 = l /\ ((l \div 192) + 1) * 192 = y * 192 BY <1>1
<1> QED BY <1>1, <1>3, <1>4, <1>5

LEMMA MonthBegins ==
  ASSUME NEW y \in Int, NEW n \in Int, NEW m, m = Meaning!Date(y, n, 1)
  PROVE  /\ m \in Meaning!Moment
         /\ Meaning!At(m) = (y - 1) * 192 + (n - 1) * 16
         /\ Meaning!At(UnitOf(m, "month")) = (y - 1) * 192 + (n - 1) * 16
         /\ Meaning!At(Beyond(m, "month")) = (y - 1) * 192 + n * 16
<1>1. PICK l \in Int : l = (y - 1) * 192 + (n - 1) * 16 OBVIOUS
<1>2. m = [local |-> l, offset |-> 0] BY <1>1, Units DEF Meaning!Date, Meaning!Utc
<1>3. m \in Meaning!Moment /\ Meaning!At(m) = l BY <1>2 DEF Meaning!Moment, Meaning!At
<1>4. /\ Meaning!At(UnitOf(m, "month")) = (l \div 16) * 16
      /\ Meaning!At(Beyond(m, "month")) = ((l \div 16) + 1) * 16
  BY <1>2, Units DEF UnitOf, Beyond, Meaning!At
<1>5. (l \div 16) * 16 = l /\ ((l \div 16) + 1) * 16 = (y - 1) * 192 + n * 16 BY <1>1
<1> QED BY <1>1, <1>3, <1>4, <1>5

LEMMA UtcDates ==
  ASSUME NEW y \in Int, NEW n \in Int, NEW d \in Int
  PROVE  Meaning!Date(y, n, d).offset = 0
BY DEF Meaning!Date, Meaning!Utc

LEMMA DatesOnTheClock ==
  ASSUME NEW y, NEW n, NEW d, NEW l, (y - 1) * 192 + (n - 1) * 16 + (d - 1) * 8 = l
  PROVE  Meaning!Date(y, n, d).local = l
BY Units DEF Meaning!Date, Meaning!Utc

LEMMA DatesAreMoments ==
  ASSUME NEW y \in Int, NEW n \in Int, NEW d \in Int
  PROVE  Meaning!Date(y, n, d) \in Meaning!Moment
BY Units DEF Meaning!Date, Meaning!Utc, Meaning!Moment

LEMMA January == \A y \in Int : Meaning!Jan1(y) = Meaning!Date(y, 1, 1)
BY DEF Meaning!Jan1

LEMMA SomeDates == None \notin Meaning!Moment /\ {"year", "month", "day", "hour", "minute", "instant"} = DOMAIN Meaning!Width
BY MeaningAssumption DEF Meaning!Width

LEMMA YearFaithful ==
  ASSUME NEW v, NEW f, WellFormed(f), f.kind = "year", Found(f, v) # Raised
  PROVE  Faithful(f, v)
<1>1. PICK y \in Int : y = f.year BY DEF WellFormed
<1>2. PICK s : s = Meaning!Date(y, 1, 1) OBVIOUS
<1>3. Found(f, v) = Meaning!Parsed(s, None, "year")
  BY <1>1, <1>2, January DEF Found, Meaning!Attempt, Meaning!ParsePartial
<1>4. /\ s \in Meaning!Moment /\ Meaning!At(s) = (y - 1) * 192
      /\ Meaning!At(UnitOf(s, "year")) = (y - 1) * 192
      /\ Meaning!At(Beyond(s, "year")) = y * 192
  BY <1>2, YearBegins
<1>5. \A x \in Int : Meaning!Spans(f, v, x) <=> (x \div 192) + 1 = y
  BY <1>1, Instants DEF Meaning!Spans
<1>6. \A x \in Int : Meaning!Spans(f, v, x) <=> (y - 1) * 192 <= x /\ x < y * 192
  BY <1>5, YearSpan
<1>0. s.offset = 0 BY <1>2, UtcDates
<1>7. Gives(f, v, s, None, "year", (y - 1) * 192, y * 192)
  BY <1>0, <1>3, <1>4, <1>6, SomeDates DEF Gives, InUtc
<1> QED BY <1>7, GivenIsFaithful

LEMMA YearsFaithful ==
  ASSUME NEW v, NEW f, WellFormed(f), f.kind = "years", Found(f, v) \notin {None, Raised}
  PROVE  Faithful(f, v)
<1>1. f.first \in Int /\ f.last \in Int BY DEF WellFormed
<1>2. PICK y \in Int : y = f.first BY <1>1
<1>3. PICK z \in Int : z = f.last BY <1>1
<1>4. PICK s : s = Meaning!Date(y, 1, 1) OBVIOUS
<1>5. PICK t : t = Meaning!Date(z, 1, 1) OBVIOUS
<1>6. ~ (z < y) /\ Found(f, v) = Meaning!Parsed(s, t, "year")
  <2>1. Found(f, v) = Meaning!ParseRange(f) BY DEF Found, Meaning!Attempt
  <2>2. ~ (f.last < f.first) BY <2>1 DEF Meaning!ParseRange
  <2>3. Meaning!ParseRange(f) = Meaning!Parsed(Meaning!Jan1(f.first), Meaning!Jan1(f.last), "year")
    BY <2>2 DEF Meaning!ParseRange
  <2> QED BY <1>2, <1>3, <1>4, <1>5, <2>1, <2>2, <2>3, January
<1>7. /\ s \in Meaning!Moment /\ Meaning!At(s) = (y - 1) * 192
      /\ Meaning!At(UnitOf(s, "year")) = (y - 1) * 192
      /\ t \in Meaning!Moment /\ Meaning!At(Beyond(t, "year")) = z * 192
  <2>1. s \in Meaning!Moment /\ Meaning!At(s) = (y - 1) * 192
        /\ Meaning!At(UnitOf(s, "year")) = (y - 1) * 192
    BY <1>4, YearBegins
  <2>2. t \in Meaning!Moment /\ Meaning!At(Beyond(t, "year")) = z * 192
    BY <1>5, YearBegins
  <2> QED BY <2>1, <2>2
<1>8. \A x \in Int : Meaning!Spans(f, v, x) <=> (x \div 192) + 1 \in y..z
  BY <1>2, <1>3, Instants DEF Meaning!Spans
<1>9. \A x \in Int : (x \div 192) + 1 \in y..z <=> (y - 1) * 192 <= x /\ x < z * 192
  OBVIOUS
<1>0. s.offset = 0 /\ t.offset = 0 BY <1>4, <1>5, UtcDates
<1>10. Gives(f, v, s, t, "year", (y - 1) * 192, z * 192)
  BY <1>0, <1>6, <1>7, <1>8, <1>9, SomeDates DEF Gives, InUtc
<1> QED BY <1>10, GivenIsFaithful

LEMMA MonthFaithful ==
  ASSUME NEW v, NEW f, WellFormed(f), f.kind = "month", Found(f, v) # Raised
  PROVE  Faithful(f, v)
<1>1. f.year \in Int /\ f.month \in 1..12 BY DEF WellFormed
<1>2. PICK y \in Int : y = f.year BY <1>1
<1>3. PICK n \in 1..12 : n = f.month BY <1>1
<1>4. PICK s : s = Meaning!Date(y, n, 1) OBVIOUS
<1>5. Found(f, v) = Meaning!Parsed(s, None, "month")
  BY <1>2, <1>3, <1>4 DEF Found, Meaning!Attempt, Meaning!ParsePartial
<1>6. /\ s \in Meaning!Moment /\ Meaning!At(s) = (y - 1) * 192 + (n - 1) * 16
      /\ Meaning!At(UnitOf(s, "month")) = (y - 1) * 192 + (n - 1) * 16
      /\ Meaning!At(Beyond(s, "month")) = (y - 1) * 192 + n * 16
  BY <1>4, MonthBegins
<1>7. \A x \in Int : Meaning!Spans(f, v, x) <=>
        (x \div 192) + 1 = y /\ ((x % 192) \div 16) + 1 = n
  BY <1>2, <1>3, Instants DEF Meaning!Spans
<1>8. \A x \in Int : Meaning!Spans(f, v, x) <=>
        (y - 1) * 192 + (n - 1) * 16 <= x /\ x < (y - 1) * 192 + n * 16
  BY <1>7, MonthSpan
<1>0. s.offset = 0 BY <1>4, UtcDates
<1>9. Gives(f, v, s, None, "month", (y - 1) * 192 + (n - 1) * 16, (y - 1) * 192 + n * 16)
  BY <1>0, <1>5, <1>6, <1>8, SomeDates DEF Gives, InUtc
<1> QED BY <1>9, GivenIsFaithful

LEMMA MonthsFaithful ==
  ASSUME NEW v, NEW f, WellFormed(f), f.kind = "months", Found(f, v) \notin {None, Raised}
  PROVE  Faithful(f, v)
<1>1. f.year \in Int /\ f.first \in 1..12 /\ f.last \in 1..12 BY DEF WellFormed
<1>2. PICK y \in Int : y = f.year BY <1>1
<1>3. PICK n \in 1..12 : n = f.first BY <1>1
<1>4. PICK l \in 1..12 : l = f.last BY <1>1
<1>5. PICK s : s = Meaning!Date(y, n, 1) OBVIOUS
<1>6. PICK t : t = Meaning!Date(y, l, 1) OBVIOUS
<1>7. ~ (l < n) /\ Found(f, v) = Meaning!Parsed(s, t, "month")
  <2>1. Found(f, v) = Meaning!ParseRange(f) BY DEF Found, Meaning!Attempt
  <2>2. ~ (f.last < f.first) BY <2>1 DEF Meaning!ParseRange
  <2>3. Meaning!ParseRange(f) =
          Meaning!Parsed(Meaning!Date(f.year, f.first, 1), Meaning!Date(f.year, f.last, 1), "month")
    BY <2>2 DEF Meaning!ParseRange
  <2> QED BY <1>2, <1>3, <1>4, <1>5, <1>6, <2>1, <2>2, <2>3
<1>8. /\ s \in Meaning!Moment /\ Meaning!At(s) = (y - 1) * 192 + (n - 1) * 16
      /\ Meaning!At(UnitOf(s, "month")) = (y - 1) * 192 + (n - 1) * 16
      /\ t \in Meaning!Moment /\ Meaning!At(Beyond(t, "month")) = (y - 1) * 192 + l * 16
  <2>1. 1 \in Int /\ n \in Int /\ l \in Int OBVIOUS
  <2>2. s \in Meaning!Moment /\ Meaning!At(s) = (y - 1) * 192 + (n - 1) * 16
        /\ Meaning!At(UnitOf(s, "month")) = (y - 1) * 192 + (n - 1) * 16
    BY <1>5, <2>1, MonthBegins
  <2>3. t \in Meaning!Moment /\ Meaning!At(Beyond(t, "month")) = (y - 1) * 192 + l * 16
    BY <1>6, <2>1, MonthBegins
  <2> QED BY <2>2, <2>3
<1>9. \A x \in Int : Meaning!Spans(f, v, x) <=>
        (x \div 192) + 1 = y /\ ((x % 192) \div 16) + 1 \in n..l
  BY <1>2, <1>3, <1>4, Instants DEF Meaning!Spans
<1>10. \A x \in Int : (x \div 192) + 1 = y /\ ((x % 192) \div 16) + 1 \in n..l
         <=> (y - 1) * 192 + (n - 1) * 16 <= x /\ x < (y - 1) * 192 + l * 16
  OBVIOUS
<1>0. s.offset = 0 /\ t.offset = 0 BY <1>5, <1>6, UtcDates
<1>11. Gives(f, v, s, t, "month", (y - 1) * 192 + (n - 1) * 16, (y - 1) * 192 + l * 16)
  BY <1>0, <1>7, <1>8, <1>9, <1>10, SomeDates DEF Gives, InUtc
<1> QED BY <1>11, GivenIsFaithful

LEMMA DecadeFaithful ==
  ASSUME NEW v, NEW f, WellFormed(f), f.kind = "decade", Found(f, v) # Raised
  PROVE  Faithful(f, v)
<1>1. PICK d \in Int : d = f.decade BY DEF WellFormed
<1>2. PICK s : s = Meaning!Date(d * 10, 1, 1) OBVIOUS
<1>3. PICK t : t = Meaning!Date(d * 10 + 9, 1, 1) OBVIOUS
<1>4. Found(f, v) = Meaning!Parsed(s, t, "year")
  BY <1>1, <1>2, <1>3, January DEF Found, Meaning!Attempt, Meaning!ParsePartial
<1>5. /\ s \in Meaning!Moment /\ Meaning!At(s) = (d * 10 - 1) * 192
      /\ Meaning!At(UnitOf(s, "year")) = (d * 10 - 1) * 192
      /\ t \in Meaning!Moment /\ Meaning!At(Beyond(t, "year")) = (d * 10 + 9) * 192
  <2>1. s \in Meaning!Moment /\ Meaning!At(s) = (d * 10 - 1) * 192
        /\ Meaning!At(UnitOf(s, "year")) = (d * 10 - 1) * 192
    BY <1>2, YearBegins
  <2>2. t \in Meaning!Moment /\ Meaning!At(Beyond(t, "year")) = (d * 10 + 9) * 192
    BY <1>3, YearBegins
  <2> QED BY <2>1, <2>2
<1>6. \A x \in Int : Meaning!Spans(f, v, x) <=> ((x \div 192) + 1) \div 10 = d
  BY <1>1, Instants DEF Meaning!Spans
<1>7. \A x \in Int : ((x \div 192) + 1) \div 10 = d
         <=> (d * 10 - 1) * 192 <= x /\ x < (d * 10 + 9) * 192
  OBVIOUS
<1>0. s.offset = 0 /\ t.offset = 0 BY <1>2, <1>3, UtcDates
<1>8. Gives(f, v, s, t, "year", (d * 10 - 1) * 192, (d * 10 + 9) * 192)
  BY <1>0, <1>4, <1>5, <1>6, <1>7, SomeDates DEF Gives, InUtc
<1> QED BY <1>8, GivenIsFaithful

LEMMA PeriodFaithful ==
  ASSUME NEW v, NEW f, WellFormed(f), f.kind = "period", Found(f, v) \notin {None, Raised}
  PROVE  Faithful(f, v)
<1>1. f.century \in Int /\ f.portion \in {"whole", "early", "mid", "late"}
  BY DEF WellFormed, Meaning!Portion
<1>2. PICK c \in Int : c = f.century BY <1>1
<1>a. \A x \in {"whole", "early", "mid", "late"} :
        /\ Meaning!Portion[x][1] \in 1..100 /\ Meaning!Portion[x][2] \in 1..100
        /\ Meaning!Portion[x][1] < Meaning!Portion[x][2]
  <2>1. Meaning!Portion["whole"] = <<1, 100>> BY DEF Meaning!Portion
  <2>2. Meaning!Portion["early"] = <<1, 33>> BY DEF Meaning!Portion
  <2>3. Meaning!Portion["mid"] = <<34, 66>> BY DEF Meaning!Portion
  <2>4. Meaning!Portion["late"] = <<67, 100>> BY DEF Meaning!Portion
  <2> QED BY <2>1, <2>2, <2>3, <2>4
<1>3. PICK p \in 1..100 : p = Meaning!Portion[f.portion][1] BY <1>1, <1>a
<1>4. PICK q \in 1..100 : q = Meaning!Portion[f.portion][2] /\ p < q BY <1>1, <1>3, <1>a
<1>5. PICK s : s = Meaning!Date((c - 1) * 100 + p, 1, 1) OBVIOUS
<1>6. PICK t : t = Meaning!Date((c - 1) * 100 + q, 1, 1) OBVIOUS
<1>7. Found(f, v) = Meaning!Parsed(s, t, "year")
  <2>1. Found(f, v) = Meaning!ParsePeriod(f) BY DEF Found, Meaning!Attempt
  <2>2. Meaning!ParsePeriod(f) =
          Meaning!Parsed(Meaning!Jan1((c - 1) * 100 + p), Meaning!Jan1((c - 1) * 100 + q), "year")
    BY <1>2, <1>3, <1>4, <2>1 DEF Meaning!ParsePeriod
  <2> QED BY <1>5, <1>6, <2>1, <2>2, January
<1>8. /\ s \in Meaning!Moment /\ Meaning!At(s) = ((c - 1) * 100 + p - 1) * 192
      /\ Meaning!At(UnitOf(s, "year")) = ((c - 1) * 100 + p - 1) * 192
      /\ t \in Meaning!Moment /\ Meaning!At(Beyond(t, "year")) = ((c - 1) * 100 + q) * 192
  <2>1. s \in Meaning!Moment /\ Meaning!At(s) = ((c - 1) * 100 + p - 1) * 192
        /\ Meaning!At(UnitOf(s, "year")) = ((c - 1) * 100 + p - 1) * 192
    BY <1>5, YearBegins
  <2>2. t \in Meaning!Moment /\ Meaning!At(Beyond(t, "year")) = ((c - 1) * 100 + q) * 192
    BY <1>6, YearBegins
  <2> QED BY <2>1, <2>2
<1>9. ASSUME NEW x \in Int
      PROVE  Meaning!Spans(f, v, x) <=>
               ((c - 1) * 100 + p - 1) * 192 <= x /\ x < ((c - 1) * 100 + q) * 192
  <2>1. PICK n \in Int : n = x \div 192 OBVIOUS
  <2>2. Meaning!Spans(f, v, x) <=> ((n + 1) - 1) \div 100 = c - 1 /\ (((n + 1) - 1) % 100) + 1 \in p..q
    BY <1>2, <1>3, <1>4, <2>1, Instants DEF Meaning!Spans
  <2>3. ((n + 1) - 1) \div 100 = c - 1 /\ (((n + 1) - 1) % 100) + 1 \in p..q
          <=> (c - 1) * 100 + p - 1 <= n /\ n < (c - 1) * 100 + q
    OBVIOUS
  <2>4. (c - 1) * 100 + p - 1 <= n /\ n < (c - 1) * 100 + q
          <=> ((c - 1) * 100 + p - 1) * 192 <= x /\ x < ((c - 1) * 100 + q) * 192
    BY <2>1
  <2> QED BY <2>2, <2>3, <2>4
<1>10. InUtc(s, t, "year") BY <1>5, <1>6, UtcDates DEF InUtc
<1>11. Gives(f, v, s, t, "year", ((c - 1) * 100 + p - 1) * 192, ((c - 1) * 100 + q) * 192)
  BY <1>4, <1>7, <1>8, <1>9, <1>10, SomeDates DEF Gives
<1> QED BY <1>11, GivenIsFaithful

(* A quarter and a range of quarters have dates, of which no more is said. *)
LEMMA QuarterFaithful ==
  ASSUME NEW v, NEW f, WellFormed(f), f.kind = "quarter", Found(f, v) # Raised
  PROVE  Faithful(f, v)
<1>1. f.year \in Int /\ f.quarter \in 1..4 BY DEF WellFormed
<1>2. PICK n \in Int : n = (f.quarter - 1) * 3 + 1 BY <1>1
<1>3. PICK s : s = Meaning!Date(f.year, n, 1) OBVIOUS
<1>4. Found(f, v) = Meaning!Parsed(s, None, "month")
  BY <1>2, <1>3 DEF Found, Meaning!Attempt, Meaning!ParsePartial, Meaning!FirstMonth
<1>5. s \in Meaning!Moment /\ s.offset = 0 BY <1>1, <1>2, <1>3, DatesAreMoments, UtcDates
<1>6. Gives(f, v, s, None, "month", 0, 0)
  BY <1>4, <1>5, SomeDates DEF Gives, InUtc, Said
<1> QED BY <1>6, GivenIsFaithful

LEMMA QuartersFaithful ==
  ASSUME NEW v, NEW f, WellFormed(f), f.kind = "quarters", Found(f, v) \notin {None, Raised}
  PROVE  Faithful(f, v)
<1>1. f.year \in Int /\ f.first \in 1..4 /\ f.last \in 1..4 BY DEF WellFormed
<1>2. PICK n \in Int : n = (f.first - 1) * 3 + 1 BY <1>1
<1>3. PICK l \in Int : l = (f.last - 1) * 3 + 1 BY <1>1
<1>4. PICK s : s = Meaning!Date(f.year, n, 1) OBVIOUS
<1>5. PICK t : t = Meaning!Date(f.year, l, 1) OBVIOUS
<1>6. Found(f, v) = Meaning!Parsed(s, t, "month")
  <2>1. Found(f, v) = Meaning!ParseRange(f) BY DEF Found, Meaning!Attempt
  <2>2. ~ (f.last < f.first) BY <2>1 DEF Meaning!ParseRange
  <2>3. Meaning!ParseRange(f) =
          Meaning!Parsed(Meaning!Date(f.year, Meaning!FirstMonth(f.first), 1),
                         Meaning!Date(f.year, Meaning!FirstMonth(f.last), 1), "month")
    BY <2>2 DEF Meaning!ParseRange
  <2> QED BY <1>2, <1>3, <1>4, <1>5, <2>1, <2>3 DEF Meaning!FirstMonth
<1>7. s \in Meaning!Moment /\ s.offset = 0 BY <1>1, <1>2, <1>4, DatesAreMoments, UtcDates
<1>8. t \in Meaning!Moment /\ t.offset = 0 BY <1>1, <1>3, <1>5, DatesAreMoments, UtcDates
<1>9. Gives(f, v, s, t, "month", 0, 0)
  BY <1>6, <1>7, <1>8, SomeDates DEF Gives, InUtc, Said
<1> QED BY <1>9, GivenIsFaithful

(* What is written of a clock, and what its precision makes of that. *)
LEMMA ClockUnits ==
  ASSUME NEW f, ClockTime(f)
  PROVE  /\ Meaning!ClockPrecision(f.clock) \in {"day", "hour", "minute"}
         /\ f.time \in 0..7
         /\ f.clock = "none" => Meaning!ClockPrecision(f.clock) = "day" /\ f.time = 0
         /\ \E w \in {2, 4, 8}, z \in {1, 2, 4, 8} :
              /\ w = Meaning!Width[Meaning!ClockPrecision(f.clock)]
              /\ z = Meaning!Width[Meaning!WrittenUnit(f.clock)]
              /\ z = w \/ (z = 1 /\ w = 2)
              /\ f.time % z = 0
<1>1. CASE f.clock = "none"
  <2>1. Meaning!ClockPrecision(f.clock) = "day" /\ Meaning!WrittenUnit(f.clock) = "day"
    BY <1>1 DEF Meaning!ClockPrecision, Meaning!WrittenUnit
  <2>2. f.time \in 0..7 /\ f.time % 8 = 0 BY <2>1, Units DEF ClockTime
  <2>3. f.time = 0 BY <2>2
  <2> QED BY <2>1, <2>2, <2>3, Units
<1>2. CASE f.clock = "hour"
  <2>1. Meaning!ClockPrecision(f.clock) = "hour" /\ Meaning!WrittenUnit(f.clock) = "hour"
    BY <1>2 DEF Meaning!ClockPrecision, Meaning!WrittenUnit
  <2> QED BY <1>2, <2>1, Units DEF ClockTime
<1>3. CASE f.clock = "minute"
  <2>1. Meaning!ClockPrecision(f.clock) = "minute" /\ Meaning!WrittenUnit(f.clock) = "minute"
    BY <1>3 DEF Meaning!ClockPrecision, Meaning!WrittenUnit
  <2> QED BY <1>3, <2>1, Units DEF ClockTime
<1>4. CASE f.clock = "second"
  <2>1. Meaning!ClockPrecision(f.clock) = "minute" /\ Meaning!WrittenUnit(f.clock) = "instant"
    BY <1>4 DEF Meaning!ClockPrecision, Meaning!WrittenUnit
  <2> QED BY <1>4, <2>1, Units DEF ClockTime
<1> QED BY <1>1, <1>2, <1>3, <1>4 DEF ClockTime

(* What a form shows of a clock, and a clock. *)
Shows(f, t, w, p) ==
  t = f.time /\ p = Meaning!ClockPrecision(f.clock) /\ w = Meaning!Width[p]
IsDate(b, y, n, d) == b = (y - 1) * 192 + (n - 1) * 16 + (d - 1) * 8
IsClock(s, b, u, o) == s = [local |-> b + u, offset |-> o]

(* A moment in the unit from a until e, which is what is meant. *)
Shown(f, y, n, d, o, s, p, a, e) ==
  /\ s \in Meaning!Moment
  /\ Meaning!At(UnitOf(s, p)) = a /\ Meaning!At(Beyond(s, p)) = e
  /\ a <= Meaning!At(s) /\ Meaning!At(s) < e
  /\ \A x \in Int :
       Meaning!AtTime(f, Meaning!Utc(x + o)) /\ Meaning!OnDay(Meaning!Utc(x + o), y, n, d)
         <=> a <= x /\ x < e

(* A date b, and on it a clock time u that shows as t, in the unit w wide that
   begins c after midnight. *)
Clocked(f, y, n, d, b, w, t, u, c, o, p, s) ==
  /\ y \in Int /\ n \in 1..12 /\ d \in 1..2 /\ b \in Int /\ IsDate(b, y, n, d)
  /\ w \in {2, 4, 8} /\ t \in 0..7 /\ u \in 0..7 /\ c \in Int /\ o \in Int
  /\ Shows(f, t, w, p) /\ SameUnit(b, w, t, u, c) /\ IsClock(s, b, u, o)

(* A moment of a day, in the hour or minute that is written, is one of the
   unit that is meant. *)
LEMMA WallClock ==
  ASSUME NEW f, NEW y, NEW n, NEW d, NEW b, NEW w, NEW t, NEW u, NEW c, NEW o, NEW p, NEW s,
         Clocked(f, y, n, d, b, w, t, u, c, o, p, s)
  PROVE  Shown(f, y, n, d, o, s, p, b + c - o, b + c + w - o)
<1> USE DEF Clocked
<1>1. DayUnit(b, w, t, u, c) BY UnitOfDay
<1>2. c <= u /\ u < c + w BY <1>1 DEF DayUnit
<1>3. /\ ((b + u) \div w) * w = b + c /\ (((b + u) \div w) + 1) * w = b + c + w
      /\ \A x \in Int :
           b <= x /\ x < b + 8 /\ (x % 8) \div w = t \div w <=> b + c <= x /\ x < b + c + w
  BY <1>1 DEF DayUnit
<1>4. s \in Meaning!Moment /\ Meaning!At(s) = b + u - o
  BY DEF Meaning!Moment, Meaning!At, IsClock
<1>5. /\ Meaning!At(UnitOf(s, p)) = ((b + u) \div w) * w - o
      /\ Meaning!At(Beyond(s, p)) = (((b + u) \div w) + 1) * w - o
  BY DEF UnitOf, Beyond, Meaning!At, IsClock, Shows
<1>6. ASSUME NEW x \in Int
      PROVE  Meaning!AtTime(f, Meaning!Utc(x + o)) /\ Meaning!OnDay(Meaning!Utc(x + o), y, n, d)
               <=> b + c - o <= x /\ x < b + c + w - o
  <2>1. PICK z \in Int : z = x + o OBVIOUS
  <2>2. Meaning!AtTime(f, Meaning!Utc(z)) <=> (z % 8) \div w = t \div w
    BY Instants, Units DEF Meaning!AtTime, Shows
  <2>3. Meaning!OnDay(Meaning!Utc(z), y, n, d) <=>
          (z \div 192) + 1 = y /\ ((z % 192) \div 16) + 1 = n /\ ((z % 16) \div 8) + 1 = d
    <3>1. /\ Meaning!YearOf(Meaning!Utc(z)) = YearAt(z) /\ Meaning!MonthOf(Meaning!Utc(z)) = MonthAt(z)
          /\ Meaning!DayOf(Meaning!Utc(z)) = DayAt(z)
      BY PartsOf
    <3> QED BY <3>1 DEF Meaning!OnDay, YearAt, MonthAt, DayAt
  <2>4. (z \div 192) + 1 = y /\ ((z % 192) \div 16) + 1 = n /\ ((z % 16) \div 8) + 1 = d
         <=> /\ (y - 1) * 192 + (n - 1) * 16 + (d - 1) * 8 <= z
             /\ z < (y - 1) * 192 + (n - 1) * 16 + d * 8
    BY DaySpan
  <2>5. /\ (y - 1) * 192 + (n - 1) * 16 + (d - 1) * 8 = b
        /\ (y - 1) * 192 + (n - 1) * 16 + d * 8 = b + 8
    BY DEF IsDate
  <2>6. Meaning!OnDay(Meaning!Utc(z), y, n, d) <=> b <= z /\ z < b + 8 BY <2>3, <2>4, <2>5
  <2>7. b <= z /\ z < b + 8 /\ (z % 8) \div w = t \div w <=> b + c <= z /\ z < b + c + w
    BY <1>3
  <2>8. b + c <= z /\ z < b + c + w <=> b + c - o <= x /\ x < b + c + w - o BY <2>1
  <2> QED BY <2>1, <2>2, <2>6, <2>7, <2>8
<1>7. b + c - o <= b + u - o /\ b + u - o < b + c + w - o BY <1>2
<1>8. Meaning!At(UnitOf(s, p)) = b + c - o /\ Meaning!At(Beyond(s, p)) = b + c + w - o
  BY <1>3, <1>5
<1> QED BY <1>4, <1>6, <1>7, <1>8 DEF Shown

(* A date, with or without a clock time, some of it filled in. *)
LEMMA ClockFaithful ==
  ASSUME NEW v \in Meaning!Moment, NEW f, WellFormed(f), f.kind = "absolute", Found(f, v) # Raised
  PROVE  Faithful(f, v)
<1>1. /\ ClockTime(f) /\ f.year \in {None} \union Int /\ f.month \in {None} \union 1..12
      /\ f.day \in {None, 1, 2} /\ f.offset \in {None} \union Int
  BY DEF WellFormed
<1>2. /\ v.local \in Int /\ v.offset \in Int /\ Meaning!YearOf(v) \in Int
      /\ Meaning!MonthOf(v) \in 1..12 /\ Meaning!DayOf(v) \in 1..2
  BY Clocks
<1>3. PICK y \in Int : y = Meaning!Given(f.year, Meaning!YearOf(v)) BY <1>1, <1>2 DEF Meaning!Given
<1>4. PICK n \in 1..12 : n = Meaning!Given(f.month, Meaning!MonthOf(v))
  BY <1>1, <1>2 DEF Meaning!Given
<1>5. PICK d \in 1..2 : d = Meaning!Given(f.day, Meaning!DayOf(v)) BY <1>1, <1>2 DEF Meaning!Given
<1>6. PICK o \in Int : o = Meaning!Given(f.offset, v.offset) BY <1>1, <1>2 DEF Meaning!Given
<1>7. PICK p \in {"day", "hour", "minute"} : p = Meaning!ClockPrecision(f.clock)
  BY <1>1, ClockUnits
<1>8. PICK w \in {2, 4, 8}, z \in {1, 2, 4, 8} :
        /\ w = Meaning!Width[p] /\ z = Meaning!Width[Meaning!WrittenUnit(f.clock)]
        /\ z = w \/ (z = 1 /\ w = 2)
        /\ f.time % z = 0
  BY <1>1, <1>7, ClockUnits
<1>9. PICK t \in 0..7 : t = f.time BY <1>1, ClockUnits
<1>10. PICK u \in 0..7 : u = t + (v.local % z) /\ u \div w = t \div w
  <2>1. PICK l \in Int : l = v.local BY <1>2
  <2>2. t % z = 0 /\ (z = w \/ (z = 1 /\ w = 2)) BY <1>8, <1>9
  <2>3. t + (l % z) \in 0..7 /\ (t + (l % z)) \div w = t \div w BY <2>2, FilledIn
  <2> QED BY <2>1, <2>3
<1>11. PICK c \in Int : c = (t \div w) * w BY <1>8
<1>12. PICK b \in Int : b = (y - 1) * 192 + (n - 1) * 16 + (d - 1) * 8 OBVIOUS
<1>13. PICK s : s = [local |-> b + u, offset |-> o] OBVIOUS
<1>14. Found(f, v) = Meaning!Parsed(s, None, p)
  <2>1. PICK m : m = Meaning!Date(y, n, d) OBVIOUS
  <2>2. m.local = b BY <1>12, <2>1, DatesOnTheClock
  <2>3. Meaning!TimeFilled(f, v) = u BY <1>8, <1>9, <1>10 DEF Meaning!TimeFilled
  <2>4. Found(f, v) = Meaning!ParseAbsolute(f, v) BY DEF Found, Meaning!Attempt
  <2>5. Found(f, v) = Meaning!Parsed([local |-> m.local + Meaning!TimeFilled(f, v),
                                      offset |-> Meaning!Given(f.offset, v.offset)], None, p)
    BY <1>3, <1>4, <1>5, <1>7, <2>1, <2>4 DEF Meaning!ParseAbsolute
  <2> QED BY <1>6, <1>13, <2>2, <2>3, <2>5
<1>15. Shown(f, y, n, d, o, s, p, b + c - o, b + c + w - o)
  <2>1. b % 8 = 0 BY <1>12
  <2>2. SameUnit(b, w, t, u, c) BY <1>10, <1>11, <2>1 DEF SameUnit
  <2>3. Shows(f, t, w, p) /\ IsClock(s, b, u, o) BY <1>7, <1>8, <1>9, <1>13 DEF Shows, IsClock
  <2>4. IsDate(b, y, n, d) BY <1>12 DEF IsDate
  <2>5. Clocked(f, y, n, d, b, w, t, u, c, o, p, s) BY <2>2, <2>3, <2>4 DEF Clocked
  <2> QED BY <2>5, WallClock
<1>16. \A x \in Int : Meaning!Spans(f, v, x) <=>
         Meaning!AtTime(f, Meaning!Utc(x + o)) /\ Meaning!OnDay(Meaning!Utc(x + o), y, n, d)
  BY <1>3, <1>4, <1>5, <1>6 DEF Meaning!Spans
<1>17. InUtc(s, None, p) BY <1>7 DEF InUtc
<1>18. Gives(f, v, s, None, p, b + c - o, b + c + w - o)
  BY <1>7, <1>14, <1>15, <1>16, <1>17, SomeDates DEF Gives, Shown
<1> QED BY <1>18, GivenIsFaithful

(* An amount of time before a date, with or without a clock time. *)
LEMMA AgoFaithful ==
  ASSUME NEW v \in Meaning!Moment, NEW f, WellFormed(f), f.kind = "natural", Found(f, v) # Raised
  PROVE  Faithful(f, v)
<1>1. ClockTime(f) /\ f.ago \in Nat BY DEF WellFormed
<1>2. PICK l \in Int : l = v.local - f.ago BY <1>1, Clocks
<1>3. PICK y \in Int, n \in 1..12, d \in 1..2 :
        y = (l \div 192) + 1 /\ n = ((l % 192) \div 16) + 1 /\ d = ((l % 16) \div 8) + 1
  <2>1. /\ (l \div 192) + 1 \in Int /\ ((l % 192) \div 16) + 1 \in 1..12
        /\ ((l % 16) \div 8) + 1 \in 1..2
    OBVIOUS
  <2> QED BY <2>1
<1>4. /\ y = Meaning!YearOf(Meaning!Utc(l)) /\ n = Meaning!MonthOf(Meaning!Utc(l))
      /\ d = Meaning!DayOf(Meaning!Utc(l))
  <2>1. y = YearAt(l) /\ n = MonthAt(l) /\ d = DayAt(l) BY <1>3 DEF YearAt, MonthAt, DayAt
  <2>2. /\ Meaning!YearOf(Meaning!Utc(l)) = YearAt(l) /\ Meaning!MonthOf(Meaning!Utc(l)) = MonthAt(l)
        /\ Meaning!DayOf(Meaning!Utc(l)) = DayAt(l)
    BY PartsOf
  <2> QED BY <2>1, <2>2
<1>5. PICK b \in Int : b = (l \div 8) * 8 OBVIOUS
<1>6. b = (y - 1) * 192 + (n - 1) * 16 + (d - 1) * 8
  <2>1. y - 1 = l \div 192 /\ n - 1 = (l % 192) \div 16 /\ d - 1 = (l % 16) \div 8
    BY <1>3
  <2> QED BY <1>5, <2>1, DayOfMoment
<1>7. PICK p \in {"day", "hour", "minute"} : p = Meaning!ClockPrecision(f.clock)
  BY <1>1, ClockUnits
<1>8. PICK w \in {2, 4, 8} : w = Meaning!Width[p] BY <1>1, <1>7, ClockUnits
<1>9. PICK t \in 0..7 : t = f.time BY <1>1, ClockUnits
<1>10. PICK u \in 0..7 : /\ u = (IF f.clock = "none" THEN l % 8 ELSE t)
                         /\ u \div w = t \div w
  <2>1. CASE f.clock = "none"
    <3>1. w = 8 /\ t = 0 BY <1>1, <1>7, <1>8, <1>9, <2>1, ClockUnits, Units
    <3>2. l % 8 \in 0..7 /\ (l % 8) \div 8 = 0 \div 8 OBVIOUS
    <3> QED BY <2>1, <3>1, <3>2
  <2>2. CASE f.clock # "none" BY <2>2
  <2> QED BY <2>1, <2>2
<1>11. PICK c \in Int : c = (t \div w) * w BY <1>8
<1>12. PICK o \in Int : o = 0 OBVIOUS
<1>13. PICK s : s = [local |-> b + u, offset |-> o] OBVIOUS
<1>14. Found(f, v) = Meaning!Parsed(s, None, p)
  <2>1. Found(f, v) = Meaning!ParseNatural(f, v) BY DEF Found, Meaning!Attempt
  <2>2. Meaning!ParseNatural(f, v) =
          Meaning!Parsed(Meaning!Utc(IF f.clock = "none" THEN l ELSE b + t), None, p)
    BY <1>2, <1>5, <1>7, <1>9, Units DEF Meaning!ParseNatural
  <2>3. b + (l % 8) = l BY <1>5
  <2>4. (IF f.clock = "none" THEN l ELSE b + t) = b + u BY <1>10, <2>3
  <2>5. Meaning!Utc(b + u) = s BY <1>12, <1>13 DEF Meaning!Utc
  <2> QED BY <2>1, <2>2, <2>4, <2>5
<1>15. Shown(f, y, n, d, o, s, p, b + c - o, b + c + w - o)
  <2>1. b % 8 = 0 BY <1>5
  <2>2. SameUnit(b, w, t, u, c) BY <1>10, <1>11, <2>1 DEF SameUnit
  <2>3. Shows(f, t, w, p) /\ IsClock(s, b, u, o) BY <1>7, <1>8, <1>9, <1>13 DEF Shows, IsClock
  <2>4. IsDate(b, y, n, d) BY <1>6 DEF IsDate
  <2>5. Clocked(f, y, n, d, b, w, t, u, c, o, p, s) BY <2>2, <2>3, <2>4 DEF Clocked
  <2> QED BY <2>5, WallClock
<1>16. Said(f, v) => \A x \in Int : Meaning!Spans(f, v, x) <=>
         Meaning!AtTime(f, Meaning!Utc(x + o)) /\ Meaning!OnDay(Meaning!Utc(x + o), y, n, d)
  BY <1>2, <1>3, <1>4, <1>12 DEF Said, Meaning!Spans
<1>17. InUtc(s, None, p) BY <1>7 DEF InUtc
<1>18. Gives(f, v, s, None, p, b + c - o, b + c + w - o)
  BY <1>7, <1>14, <1>15, <1>16, <1>17, SomeDates DEF Gives, Shown
<1> QED BY <1>18, GivenIsFaithful

(* What is made of a form covers what the form means. *)
LEMMA FormsAreFaithful ==
  ASSUME NEW v \in Meaning!Moment, NEW f, WellFormed(f), Found(f, v) \notin {None, Raised}
  PROVE  Faithful(f, v)
<1>1. f.kind \in {"year", "years", "month", "months", "quarter", "quarters", "decade", "period",
                  "absolute", "natural"}
  BY DEF WellFormed
<1> QED BY <1>1, YearFaithful, YearsFaithful, MonthFaithful, MonthsFaithful, DecadeFaithful,
           PeriodFaithful, QuarterFaithful, QuartersFaithful, ClockFaithful, AgoFaithful

-----------------------------------------------------------------------------

SpanEnds == CHOOSE p \in Samples \X Samples : \A x \in Samples : p[1] <= x /\ x <= p[2]
Least == SpanEnds[1]
Greatest == SpanEnds[2]

LEMMA SamplesEnd ==
  /\ Least \in Samples /\ Greatest \in Samples /\ Samples \subseteq Int
  /\ \A x \in Samples : Least <= x /\ x <= Greatest
<1>1. Samples \subseteq Int /\ Samples # {} /\ IsFiniteSet(Samples) BY MeaningAssumption
<1>2. Orders(Ascending(Samples), Samples) BY <1>1 DEF Orders, Ascending
<1>3. PICK f : Ranking(f, Samples, Ascending(Samples)) BY <1>1, <1>2, RankedIsRanking
<1>4. PICK n \in Nat : n = Cardinality(Samples) BY <1>1, FS_CardinalityType
<1>5. /\ f \in [1..n -> Samples]
      /\ \A i, j \in 1..n : i < j => f[i] < f[j]
      /\ \A x \in Samples : \E i \in 1..n : f[i] = x
  BY <1>3, <1>4 DEF Ranking, Ascending
<1>6. 1 \in 1..n /\ n \in 1..n
  <2>1. PICK x \in Samples : TRUE BY <1>1
  <2>2. PICK i \in 1..n : f[i] = x BY <1>5
  <2> QED BY <1>4, <2>2
<1>7. f[1] \in Samples /\ f[n] \in Samples BY <1>5, <1>6
<1>8. ASSUME NEW x \in Samples PROVE f[1] <= x /\ x <= f[n]
  <2>1. PICK i \in 1..n : f[i] = x BY <1>5
  <2>2. f[1] \in Int /\ f[n] \in Int /\ x \in Int BY <1>1, <1>7
  <2>3. i = 1 \/ f[1] < f[i] BY <1>5, <1>6
  <2>4. i = n \/ f[i] < f[n] BY <1>5, <1>6
  <2> QED BY <2>1, <2>2, <2>3, <2>4
<1>9. \E p \in Samples \X Samples : \A x \in Samples : p[1] <= x /\ x <= p[2]
  <2>1. <<f[1], f[n]>> \in Samples \X Samples BY <1>7
  <2> QED BY <1>8, <2>1
<1>10. SpanEnds \in Samples \X Samples /\ \A x \in Samples : SpanEnds[1] <= x /\ x <= SpanEnds[2]
  BY <1>9 DEF SpanEnds
<1> QED BY <1>1, <1>10 DEF Least, Greatest

(* From where a reading is read, and what is found there. *)
From(e) == Meaning!Vantage(e.reference)
FoundBy(e) == Found(e.text.form, From(e))

LEMMA ReadingsAre ==
  ASSUME NEW e \in Meaning!Readings
  PROVE  /\ e.text \in Expressions /\ e.reference \in References
         /\ e.extent = Meaning!ParseTemporal(e.text, e.reference)
         /\ e.means = Meaning!Means(e.text, From(e))
         /\ From(e) \in Meaning!Moment
         /\ WellFormed(e.text.form) /\ e.text.markers \subseteq Markers
<1>1. PICK t \in Expressions, r \in References : e = Meaning!Reading(t, r)
  BY DEF Meaning!Readings
<1>2. /\ e.text = t /\ e.reference = r /\ e.extent = Meaning!ParseTemporal(t, r)
      /\ e.means = Meaning!Means(t, Meaning!Vantage(r))
  BY <1>1 DEF Meaning!Reading
<1>3. Meaning!Vantage(r) \in Meaning!Moment
  BY MeaningAssumption DEF Meaning!Vantage, Meaning!Given
<1>4. WellFormed(t.form) /\ t.markers \subseteq Markers BY MeaningAssumption
<1> QED BY <1>2, <1>3, <1>4 DEF From

LEMMA MarkersSay ==
  ASSUME NEW t
  PROVE  /\ t.markers \in {{}, {"circa"}, {"approximate"}, {"before"}, {"after"}} =>
              /\ t.markers = {"before"} <=> Meaning!UncertaintyOf(t) = "before"
              /\ t.markers = {"after"} <=> Meaning!UncertaintyOf(t) = "after"
         /\ Meaning!UncertaintyOf(t) \in {"exact", "circa", "approximate", "before", "after"}
BY DEF Meaning!UncertaintyOf, Meaning!DetectUncertainty

LEMMA OneMarker ==
  ASSUME NEW e \in Meaning!Readings, Meaning!Plain(e)
  PROVE  /\ e.text.markers \in {{}, {"circa"}, {"approximate"}, {"before"}, {"after"}}
         /\ \A m : m \in e.text.markers => e.text.markers = {m}
<1>1. PICK S : S = e.text.markers OBVIOUS
<1>2. S \subseteq Markers /\ Cardinality(S) <= 1
  <2>1. S \subseteq Markers BY <1>1, ReadingsAre
  <2>2. Cardinality(S) <= 1
    <3>1. \A T : Meaning!Cardinality(T) = Cardinality(T)
      BY Zenon DEF Meaning!Cardinality, Cardinality
    <3> QED BY <1>1, <3>1 DEF Meaning!Plain
  <2> QED BY <2>1, <2>2
<1>3. IsFiniteSet(Markers)
  <2>1. Markers = (({"circa"} \union {"approximate"}) \union {"before"}) \union {"after"} BY DEF Markers
  <2> QED BY <2>1, FS_Singleton, FS_Union
<1>4. IsFiniteSet(S) /\ Cardinality(S) \in Nat BY <1>2, <1>3, FS_Subset, FS_CardinalityType
<1>5. CASE Cardinality(S) = 0
  <2>1. S = {} BY <1>4, <1>5, FS_EmptySet
  <2> QED BY <1>1, <2>1
<1>6. CASE Cardinality(S) = 1
  <2>1. PICK m : S = {m} BY <1>4, <1>6, FS_Singleton
  <2>2. m \in Markers BY <1>2, <2>1
  <2> QED BY <1>1, <2>1, <2>2 DEF Markers
<1> QED BY <1>2, <1>4, <1>5, <1>6

(* From where and until where a reading means. *)
Low(e) ==
  IF e.text.markers = {"before"} THEN Least
  ELSE IF e.text.markers = {"after"} THEN Over(FoundBy(e))
  ELSE Begins(FoundBy(e))
High(e) ==
  IF e.text.markers = {"before"} THEN Begins(FoundBy(e))
  ELSE IF e.text.markers = {"after"} THEN Greatest + 1
  ELSE Over(FoundBy(e))

LEMMA ExtentsAre ==
  ASSUME NEW e \in Meaning!Readings, Meaning!Parses(e)
  PROVE  /\ FoundBy(e) \notin {None, Ambiguous, Raised} /\ Faithful(e.text.form, From(e))
         /\ e.extent = [start |-> FoundBy(e).start, end |-> FoundBy(e).end,
                        precision |-> FoundBy(e).precision,
                        uncertainty |-> Meaning!UncertaintyOf(e.text)]
<1>1. PICK found : found = Meaning!Found(e.text.form, e.reference) OBVIOUS
<1>2. e.extent = IF found \in {None, Ambiguous, Raised} THEN found
        ELSE [start |-> found.start, end |-> found.end, precision |-> found.precision,
              uncertainty |-> Meaning!UncertaintyOf(e.text)]
  BY <1>1, ReadingsAre DEF Meaning!ParseTemporal
<1>3. found \notin {None, Ambiguous, Raised} BY <1>2 DEF Meaning!Parses
<1>4. found = FoundBy(e)
  <2>1. CASE e.reference # None
    BY <1>1, <2>1 DEF Meaning!Found, FoundBy, From, Found, Meaning!Vantage, Meaning!Given
  <2>2. CASE e.reference = None
    BY <1>1, <1>3, <2>2 DEF Meaning!Found, FoundBy, From, Found, Meaning!Vantage, Meaning!Given
  <2> QED BY <2>1, <2>2
<1>5. WellFormed(e.text.form) /\ From(e) \in Meaning!Moment BY ReadingsAre
<1>6. Faithful(e.text.form, From(e)) BY <1>3, <1>4, <1>5, FormsAreFaithful DEF FoundBy
<1> QED BY <1>2, <1>3, <1>4, <1>6

(* What is found of a text whose meaning is said. *)
LEMMA UnderstoodIs ==
  ASSUME NEW e \in Meaning!Readings, Meaning!Understood(e)
  PROVE  /\ Meaning!Parses(e) /\ Meaning!Plain(e)
         /\ Structured(e.text.form, From(e)) /\ Covers(e.text.form, From(e))
<1>1. Meaning!Parses(e) /\ Meaning!Plain(e) BY DEF Meaning!Understood
<1>2. Said(e.text.form, From(e)) BY <1>1 DEF Meaning!Plain, Said, From
<1> QED BY <1>1, <1>2, ExtentsAre DEF Faithful

(* Widening answers what follows the unit. *)
LEMMA WidenedIs ==
  ASSUME NEW m \in Meaning!Moment, NEW p \in DOMAIN Meaning!Width,
         Meaning!Widen(m, p) # Raised
  PROVE  Meaning!Widen(m, p) = Beyond(m, p)
<1>1. p # None BY MeaningAssumption
<1>2. m = [local |-> m.local, offset |-> m.offset] BY DEF Meaning!Moment
<1>3. [m EXCEPT !.local = ((@ \div Meaning!Width[p]) + 1) * Meaning!Width[p]] = Beyond(m, p)
  BY <1>2 DEF Beyond
<1> QED BY <1>1, <1>3 DEF Meaning!Widen

LEMMA MomentsGoOn ==
  ASSUME NEW m \in Meaning!Moment, NEW p \in DOMAIN Meaning!Width
  PROVE  Beyond(m, p) \in Meaning!Moment /\ UnitOf(m, p) \in Meaning!Moment
<1>1. Meaning!Width[p] \in {1, 2, 4, 8, 16, 192} BY DEF Meaning!Width
<1>2. m.local \in Int /\ m.offset \in Int BY DEF Meaning!Moment
<1>3. /\ ((m.local \div Meaning!Width[p]) + 1) * Meaning!Width[p] \in Int
      /\ (m.local \div Meaning!Width[p]) * Meaning!Width[p] \in Int
  BY <1>1, <1>2
<1> QED BY <1>2, <1>3 DEF Beyond, UnitOf, Meaning!Moment

(* On the start of a unit, that unit begins. *)
LEMMA OnTheUnit ==
  ASSUME NEW m \in Meaning!Moment, NEW p \in DOMAIN Meaning!Width,
         m.local % Meaning!Width[p] = 0
  PROVE  UnitOf(m, p) = m
<1>1. PICK w \in {1, 2, 4, 8, 16, 192} : w = Meaning!Width[p] BY DEF Meaning!Width
<1>2. PICK l \in Int : l = m.local /\ l % w = 0 BY <1>1 DEF Meaning!Moment
<1>3. (l \div w) * w = l
  <2>1. CASE w = 1 BY <1>2, <2>1
  <2>2. CASE w = 2 BY <1>2, <2>2
  <2>3. CASE w = 4 BY <1>2, <2>3
  <2>4. CASE w = 8 BY <1>2, <2>4
  <2>5. CASE w = 16 BY <1>2, <2>5
  <2>6. CASE w = 192 BY <1>2, <2>6
  <2> QED BY <2>1, <2>2, <2>3, <2>4, <2>5, <2>6
<1>4. m = [local |-> l, offset |-> m.offset] BY <1>2 DEF Meaning!Moment
<1> QED BY <1>1, <1>2, <1>3, <1>4 DEF UnitOf

(* An interval ends where what its text means does, and begins where it does or,
   if something finer was filled in, later; a "before" likewise stops late.
   The samples have the instants around its ends. *)
LowerAgrees(lower, e) ==
  IF lower = None THEN Low(e) = Least
  ELSE /\ Low(e) <= Meaning!At(lower) /\ Meaning!At(lower) < High(e)
       /\ Meaning!OnItsUnit(e) => Meaning!At(lower) = Low(e)
       /\ {Low(e) - 1, Low(e)} \subseteq Samples
UpperAgrees(upper, e) ==
  IF upper = None THEN High(e) = Greatest + 1
  ELSE /\ Meaning!OnItsUnit(e) \/ "before" \notin e.text.markers => Meaning!At(upper) = High(e)
       /\ {High(e) - 1, High(e)} \subseteq Samples
EndsAgree(within, e) ==
  /\ LowerAgrees(within.lower, e) /\ UpperAgrees(within.upper, e)
  /\ e.text.markers = {"before"} => within.upper # None /\ within.lower = None
  /\ e.text.markers = {"after"} => within.lower # None /\ within.upper = None

(* The samples there are. *)
LEMMA SampledEnds ==
  ASSUME NEW e \in Meaning!Readings, Meaning!Understood(e)
  PROVE  /\ Meaning!Widen(LastOf(FoundBy(e)), FoundBy(e).precision)
              = Beyond(LastOf(FoundBy(e)), FoundBy(e).precision)
         /\ Beyond(LastOf(FoundBy(e)), FoundBy(e).precision) \in Meaning!Moment
         /\ Meaning!Widen(LastOf(FoundBy(e)), FoundBy(e).precision) # Raised
         /\ Meaning!Given(e.extent.end, e.extent.start) = LastOf(FoundBy(e))
         /\ Meaning!Given(e.extent.start, e.extent.end) = FoundBy(e).start
         /\ {Begins(FoundBy(e)) - 1, Begins(FoundBy(e))} \subseteq Samples
         /\ {Over(FoundBy(e)) - 1, Over(FoundBy(e))} \subseteq Samples
<1>1. PICK x : x = e.extent OBVIOUS
<1>2. PICK s : s = FoundBy(e).start OBVIOUS
<1>3. PICK t : t = LastOf(FoundBy(e)) OBVIOUS
<1>4. PICK p : p = FoundBy(e).precision OBVIOUS
<1>5. x.start = s /\ x.end = FoundBy(e).end /\ x.precision = p
  <2>1. Meaning!Parses(e) BY UnderstoodIs
  <2>2. x = [start |-> s, end |-> FoundBy(e).end, precision |-> p,
             uncertainty |-> Meaning!UncertaintyOf(e.text)]
    BY <1>1, <1>2, <1>4, <2>1, ExtentsAre
  <2> QED BY <2>2
<1>6. /\ s \in Meaning!Moment /\ FoundBy(e).end \in {None} \union Meaning!Moment
      /\ p \in DOMAIN Meaning!Width
  BY <1>2, <1>4, UnderstoodIs DEF Structured, FoundBy
<1>7. s # None /\ t \in Meaning!Moment BY <1>2, <1>3, <1>6, Probes DEF LastOf
<1>8. Meaning!Given(x.end, x.start) = t /\ Meaning!Given(x.start, x.end) = s
  BY <1>2, <1>3, <1>5, <1>7 DEF LastOf, Meaning!Given
<1>9. PICK w : w = Meaning!Width[x.precision] OBVIOUS
<1>10. PICK unit : unit = [x.start EXCEPT !.local = (@ \div w) * w] OBVIOUS
<1>11. PICK over : over = Meaning!Widen(Meaning!Given(x.end, x.start), x.precision) OBVIOUS
<1>12. /\ over # Raised
       /\ \A m \in {unit, over} : {Meaning!At(m) - 1, Meaning!At(m)} \subseteq Samples
  BY <1>1, <1>9, <1>10, <1>11, MeaningAssumption
<1>13. over = Meaning!Widen(t, p) BY <1>5, <1>8, <1>11
<1>14. over = Beyond(t, p) BY <1>6, <1>7, <1>12, <1>13, WidenedIs
<1>15. unit = UnitOf(s, p)
  <2>1. s = [local |-> s.local, offset |-> s.offset] BY <1>6 DEF Meaning!Moment
  <2>2. [s EXCEPT !.local = (@ \div w) * w] = [local |-> (s.local \div w) * w, offset |-> s.offset]
    BY <2>1
  <2> QED BY <1>5, <1>9, <1>10, <2>2 DEF UnitOf
<1>16. Beyond(t, p) \in Meaning!Moment BY <1>6, <1>7, MomentsGoOn
<1>17. Begins(FoundBy(e)) = Meaning!At(unit) /\ Over(FoundBy(e)) = Meaning!At(over)
  BY <1>2, <1>3, <1>4, <1>14, <1>15 DEF Begins, Over
<1> QED BY <1>1, <1>2, <1>3, <1>4, <1>8, <1>12, <1>13, <1>14, <1>16, <1>17

LEMMA BoundsAgree ==
  ASSUME NEW e \in Meaning!Readings, Meaning!Understood(e)
  PROVE  EndsAgree(Meaning!Bounds(e.extent), e)
<1>1. PICK found : found = FoundBy(e) OBVIOUS
<1>2. PICK x : x = e.extent OBVIOUS
<1>3. PICK s : s = found.start OBVIOUS
<1>4. PICK t : t = LastOf(found) OBVIOUS
<1>5. PICK p : p = found.precision OBVIOUS
<1>6. PICK a \in Int : a = Begins(found)
  <2>1. s \in Meaning!Moment /\ p \in DOMAIN Meaning!Width
    BY <1>1, <1>3, <1>5, UnderstoodIs DEF Structured, FoundBy
  <2>2. UnitOf(s, p) \in Meaning!Moment BY <2>1, MomentsGoOn
  <2> QED BY <1>3, <1>5, <2>2 DEF Begins, Meaning!At, Meaning!Moment
<1>7. PICK b \in Int : b = Over(found)
  <2>1. Beyond(t, p) \in Meaning!Moment BY <1>1, <1>4, <1>5, SampledEnds
  <2> QED BY <1>4, <1>5, <2>1 DEF Over, Meaning!At, Meaning!Moment
<1>8. PICK within : within = Meaning!Bounds(x) OBVIOUS
<1>9. /\ x.start = s /\ x.precision = p /\ x.end = found.end
      /\ x.uncertainty = Meaning!UncertaintyOf(e.text)
  <2>1. Meaning!Parses(e) BY UnderstoodIs
  <2>2. x = [start |-> s, end |-> found.end, precision |-> p,
             uncertainty |-> Meaning!UncertaintyOf(e.text)]
    BY <1>1, <1>2, <1>3, <1>5, <2>1, ExtentsAre
  <2> QED BY <2>2
<1>10. /\ s \in Meaning!Moment /\ s # None /\ s # Raised /\ p \in DOMAIN Meaning!Width
       /\ None # Raised
  BY <1>1, <1>3, <1>5, UnderstoodIs, MeaningAssumption DEF Structured, FoundBy
<1>11. /\ Meaning!Widen(t, p) = Beyond(t, p) /\ Meaning!Widen(t, p) # Raised
       /\ Beyond(t, p) \in Meaning!Moment /\ Beyond(t, p) # None
       /\ Meaning!Given(x.end, x.start) = t /\ Meaning!Given(x.start, x.end) = s
       /\ {a - 1, a} \subseteq Samples /\ {b - 1, b} \subseteq Samples
  BY <1>1, <1>2, <1>3, <1>4, <1>5, <1>6, <1>7, SampledEnds, Probes
<1>12. PICK n \in Int : n = Meaning!At(s) /\ a <= n /\ n < b
  <2>1. Meaning!At(s) \in Int BY <1>10, Clocks
  <2> QED BY <1>1, <1>3, <1>6, <1>7, <2>1, UnderstoodIs DEF Covers, FoundBy
<1>13. Meaning!OnItsUnit(e) => n = a
  <2> SUFFICES ASSUME Meaning!OnItsUnit(e) PROVE n = a OBVIOUS
  <2>1. s.local % Meaning!Width[p] = 0 BY <1>2, <1>9 DEF Meaning!OnItsUnit
  <2>2. UnitOf(s, p) = s BY <1>10, <2>1, OnTheUnit
  <2> QED BY <1>3, <1>5, <1>6, <1>12, <2>2 DEF Begins
<1>14. Meaning!At(Beyond(t, p)) = b BY <1>4, <1>5, <1>7 DEF Over
<1>15. /\ e.text.markers \in {{}, {"circa"}, {"approximate"}, {"before"}, {"after"}}
       /\ \A m : m \in e.text.markers => e.text.markers = {m}
  BY OneMarker, UnderstoodIs
<1>16. CASE e.text.markers = {"before"}
  <2>1. x.uncertainty = "before" BY <1>9, <1>15, <1>16, MarkersSay
  <2>2. within = Meaning!Interval(None, s)
    BY <1>8, <1>10, <1>11, <2>1 DEF Meaning!Bounds, Meaning!UpTo
  <2>3. within.lower = None /\ within.upper = s BY <1>10, <2>2 DEF Meaning!Interval
  <2>4. Low(e) = Least /\ High(e) = a BY <1>1, <1>6, <1>16 DEF Low, High
  <2>5. "before" \in e.text.markers /\ e.text.markers # {"after"} BY <1>16
  <2>6. LowerAgrees(within.lower, e) BY <2>3, <2>4 DEF LowerAgrees
  <2>7. UpperAgrees(within.upper, e)
    BY <1>10, <1>11, <1>12, <1>13, <2>3, <2>4, <2>5 DEF UpperAgrees
  <2> QED BY <1>2, <1>8, <1>10, <2>3, <2>5, <2>6, <2>7 DEF EndsAgree
<1>17. CASE e.text.markers = {"after"}
  <2>1. x.uncertainty = "after" BY <1>9, <1>15, <1>17, MarkersSay
  <2>2. found.end = None BY <1>2, <1>9, <1>17, UnderstoodIs DEF Meaning!Plain
  <2>3. t = s BY <1>3, <1>4, <2>2 DEF LastOf
  <2>4. within = Meaning!Interval(Meaning!Widen(s, p), None)
    BY <1>8, <1>9, <1>10, <1>11, <2>1 DEF Meaning!Bounds
  <2>5. within.lower = Beyond(t, p) /\ within.upper = None
    BY <1>10, <1>11, <2>3, <2>4 DEF Meaning!Interval
  <2>6. Low(e) = b /\ High(e) = Greatest + 1 BY <1>1, <1>7, <1>17 DEF Low, High
  <2>7. "before" \notin e.text.markers /\ e.text.markers # {"before"} BY <1>17
  <2>8. b < Greatest + 1
    <3>1. b \in Samples BY <1>11
    <3>2. b <= Greatest /\ Greatest \in Int BY <3>1, SamplesEnd
    <3> QED BY <3>2
  <2>9. LowerAgrees(within.lower, e)
    BY <1>11, <1>14, <2>5, <2>6, <2>8 DEF LowerAgrees
  <2>10. UpperAgrees(within.upper, e) BY <2>5, <2>6 DEF UpperAgrees
  <2> QED BY <1>2, <1>8, <1>11, <2>5, <2>7, <2>9, <2>10 DEF EndsAgree
<1>18. CASE e.text.markers \notin {{"before"}, {"after"}}
  <2>1. x.uncertainty # "before" /\ x.uncertainty # "after" BY <1>9, <1>15, <1>18, MarkersSay
  <2>2. within = Meaning!Interval(s, Meaning!Widen(t, p))
    BY <1>8, <1>9, <1>10, <1>11, <2>1 DEF Meaning!Bounds
  <2>3. within.lower = s /\ within.upper = Beyond(t, p)
    BY <1>10, <1>11, <2>2 DEF Meaning!Interval
  <2>4. Low(e) = a /\ High(e) = b BY <1>1, <1>6, <1>7, <1>18 DEF Low, High
  <2>5. LowerAgrees(within.lower, e)
    BY <1>10, <1>11, <1>12, <1>13, <2>3, <2>4 DEF LowerAgrees
  <2>6. UpperAgrees(within.upper, e) BY <1>11, <1>14, <2>3, <2>4 DEF UpperAgrees
  <2> QED BY <1>2, <1>8, <1>18, <2>5, <2>6 DEF EndsAgree
<1> QED BY <1>16, <1>17, <1>18

(* The ends there are are dates. *)
Moments(within) ==
  /\ within.lower # None => Meaning!At(within.lower) \in Int
  /\ within.upper # None => Meaning!At(within.upper) \in Int

LEMMA BoundsAreMoments ==
  ASSUME NEW e \in Meaning!Readings, Meaning!Understood(e)
  PROVE  Moments(Meaning!Bounds(e.extent))
<1>1. PICK s : s = FoundBy(e).start OBVIOUS
<1>2. PICK t : t = LastOf(FoundBy(e)) OBVIOUS
<1>3. PICK p : p = FoundBy(e).precision OBVIOUS
<1>4. PICK x : x = e.extent OBVIOUS
<1>5. /\ Meaning!Given(x.end, x.start) = t /\ Meaning!Given(x.start, x.end) = s
      /\ Meaning!Widen(t, p) = Beyond(t, p) /\ Meaning!Widen(t, p) # Raised
      /\ Beyond(t, p) \in Meaning!Moment
  BY <1>1, <1>2, <1>3, <1>4, SampledEnds
<1>6. /\ x.start = s /\ x.precision = p /\ x.end = FoundBy(e).end
      /\ x.uncertainty = Meaning!UncertaintyOf(e.text)
  <2>1. Meaning!Parses(e) BY UnderstoodIs
  <2>2. x = [start |-> s, end |-> FoundBy(e).end, precision |-> p,
             uncertainty |-> Meaning!UncertaintyOf(e.text)]
    BY <1>1, <1>3, <1>4, <2>1, ExtentsAre
  <2> QED BY <2>2
<1>7. s \in Meaning!Moment /\ s # None /\ s # Raised /\ None # Raised
  BY <1>1, UnderstoodIs, MeaningAssumption DEF Structured, FoundBy
<1>8. Meaning!At(s) \in Int /\ Meaning!At(Beyond(t, p)) \in Int
  BY <1>5, <1>7 DEF Meaning!At, Meaning!Moment
<1>9. CASE x.uncertainty = "before"
  <2>1. Meaning!Bounds(x) = Meaning!Interval(None, s)
    BY <1>5, <1>7, <1>9 DEF Meaning!Bounds, Meaning!UpTo
  <2> QED BY <1>4, <1>7, <1>8, <2>1 DEF Meaning!Interval, Moments
<1>10. CASE x.uncertainty = "after"
  <2>1. Meaning!Bounds(x) = Meaning!Interval(Meaning!Widen(s, p), None)
    BY <1>5, <1>6, <1>7, <1>10 DEF Meaning!Bounds
  <2>2. e.text.markers = {"after"}
    <3>1. e.text.markers \in {{}, {"circa"}, {"approximate"}, {"before"}, {"after"}}
      BY OneMarker, UnderstoodIs
    <3> QED BY <1>6, <1>10, <3>1, MarkersSay
  <2>3. FoundBy(e).end = None
    <3>1. e.extent.end = None BY <2>2, UnderstoodIs DEF Meaning!Plain
    <3> QED BY <1>4, <1>6, <3>1
  <2>4. t = s BY <1>1, <1>2, <2>3 DEF LastOf
  <2> QED BY <1>4, <1>5, <1>7, <1>8, <2>1, <2>4 DEF Meaning!Interval, Moments
<1>11. CASE x.uncertainty \notin {"before", "after"}
  <2>1. Meaning!Bounds(x) = Meaning!Interval(s, Meaning!Widen(t, p))
    BY <1>5, <1>6, <1>7, <1>11 DEF Meaning!Bounds
  <2> QED BY <1>4, <1>5, <1>7, <1>8, <2>1 DEF Meaning!Interval, Moments
<1> QED BY <1>9, <1>10, <1>11

LEMMA SmallestIsIt ==
  ASSUME NEW S \in SUBSET Int, NEW a \in S, \A y \in S : a <= y
  PROVE  Meaning!SmallestOf(S) = a
<1>1. \A x \in S : (\A y \in S : x <= y) => x = a OBVIOUS
<1> QED BY <1>1 DEF Meaning!SmallestOf

LEMMA LargestIsIt ==
  ASSUME NEW S \in SUBSET Int, NEW a \in S, \A y \in S : y <= a
  PROVE  Meaning!LargestOf(S) = a
<1>1. \A x \in S : (\A y \in S : y <= x) => x = a OBVIOUS
<1> QED BY <1>1 DEF Meaning!LargestOf

Span(l, h) == {x \in Samples : l <= x /\ x < h}

(* A span with samples at both its ends. *)
Sampled(l, h) == l \in Samples /\ h \in Int /\ h - 1 \in Samples /\ l < h

LEMMA SpansEnd ==
  ASSUME NEW l, NEW h, Sampled(l, h)
  PROVE  Meaning!SmallestOf(Span(l, h)) = l /\ Meaning!LargestOf(Span(l, h)) = h - 1
<1>1. Samples \subseteq Int BY SamplesEnd
<1>2. l \in Int /\ h \in Int BY <1>1 DEF Sampled
<1>3. Span(l, h) \subseteq Int BY <1>1 DEF Span
<1>4. l \in Span(l, h) /\ \A y \in Span(l, h) : l <= y BY <1>2 DEF Sampled, Span
<1>5. h - 1 \in Span(l, h) BY <1>1, <1>2 DEF Sampled, Span
<1>6. \A y \in Span(l, h) : y <= h - 1 BY <1>1, <1>2 DEF Span
<1> QED BY <1>3, <1>4, <1>5, <1>6, SmallestIsIt, LargestIsIt

LEMMA MeaningIs ==
  ASSUME NEW e \in Meaning!Readings, Meaning!Understood(e)
  PROVE  Sampled(Low(e), High(e)) /\ e.means = Span(Low(e), High(e))
<1>1. PICK a : a = Begins(FoundBy(e)) OBVIOUS
<1>2. PICK b : b = Over(FoundBy(e)) OBVIOUS
<1>3. /\ Least \in Samples /\ Greatest \in Samples /\ Samples \subseteq Int
      /\ Least \in Int /\ Greatest \in Int
      /\ \A x \in Samples : Least <= x /\ x <= Greatest
  BY SamplesEnd
<1>4. {a - 1, a} \subseteq Samples /\ {b - 1, b} \subseteq Samples BY <1>1, <1>2, SampledEnds
<1>5. a \in Int /\ b \in Int /\ a < b
  <2>1. a \in Int /\ b \in Int BY <1>3, <1>4
  <2>2. FoundBy(e).start \in Meaning!Moment BY UnderstoodIs DEF Structured, FoundBy
  <2>3. PICK n \in Int : n = Meaning!At(FoundBy(e).start) BY <2>2, Clocks
  <2>4. a <= n /\ n < b BY <1>1, <1>2, <2>3, UnderstoodIs DEF Covers, FoundBy
  <2> QED BY <2>1, <2>4
<1>6. Meaning!Span(e.text.form, From(e)) = Span(a, b)
  <2>1. \A x \in Int : Meaning!Spans(e.text.form, From(e), x) <=> a <= x /\ x < b
    BY <1>1, <1>2, UnderstoodIs DEF Covers, FoundBy
  <2> QED BY <1>3, <2>1 DEF Meaning!Span, Span
<1>7. /\ Span(a, b) \subseteq Int /\ a \in Span(a, b) /\ b - 1 \in Span(a, b)
      /\ \A y \in Span(a, b) : a <= y /\ y <= b - 1
  <2>1. \A x \in Samples : x \in Int BY <1>3
  <2>2. a \in Span(a, b) /\ b - 1 \in Span(a, b) BY <1>4, <1>5 DEF Span
  <2>3. \A y \in Span(a, b) : a <= y /\ y <= b - 1 BY <1>5, <2>1 DEF Span
  <2>4. Span(a, b) \subseteq Int BY <1>3 DEF Span
  <2> QED BY <2>2, <2>3, <2>4
<1>8. e.means = Meaning!Means(e.text, From(e)) BY ReadingsAre
<1>9. Least < a /\ b <= Greatest BY <1>3, <1>4, <1>5
<1>10. CASE e.text.markers = {"before"}
  <2>1. Low(e) = Least /\ High(e) = a BY <1>1, <1>10 DEF Low, High
  <2>2. e.means = {x \in Samples : \A y \in Span(a, b) : x < y}
    BY <1>6, <1>8, <1>10 DEF Meaning!Means
  <2>3. \A x \in Samples : (\A y \in Span(a, b) : x < y) <=> Least <= x /\ x < a
    BY <1>3, <1>5, <1>7
  <2>4. e.means = Span(Least, a) BY <2>2, <2>3 DEF Span
  <2> QED BY <1>3, <1>4, <1>5, <1>9, <2>1, <2>4 DEF Sampled
<1>11. CASE e.text.markers = {"after"}
  <2>1. Low(e) = b /\ High(e) = Greatest + 1 BY <1>2, <1>11 DEF Low, High
  <2>2. e.means = {x \in Samples : \A y \in Span(a, b) : x > y}
    BY <1>6, <1>8, <1>11 DEF Meaning!Means
  <2>3. \A x \in Samples : (\A y \in Span(a, b) : x > y) <=> b <= x /\ x < Greatest + 1
    BY <1>3, <1>5, <1>7
  <2>4. e.means = Span(b, Greatest + 1) BY <2>2, <2>3 DEF Span
  <2>5. Greatest + 1 - 1 = Greatest /\ b < Greatest + 1 BY <1>3, <1>5, <1>9
  <2> QED BY <1>3, <1>4, <2>1, <2>4, <2>5 DEF Sampled
<1>12. CASE e.text.markers \notin {{"before"}, {"after"}}
  <2>1. Low(e) = a /\ High(e) = b BY <1>1, <1>2, <1>12 DEF Low, High
  <2>2. e.means = Span(a, b) BY <1>6, <1>8, <1>12 DEF Meaning!Means
  <2> QED BY <1>4, <1>5, <2>1, <2>2 DEF Sampled
<1> QED BY <1>10, <1>11, <1>12

(* Spans are the same, or one within the other, as their ends are. *)
LEMMA SpansCompare ==
  ASSUME NEW l, NEW h, Sampled(l, h), NEW m, NEW i, Sampled(m, i)
  PROVE  /\ Span(l, h) \subseteq Span(m, i) <=> m <= l /\ h <= i
         /\ Span(l, h) = Span(m, i) <=> l = m /\ h = i
<1>1. Samples \subseteq Int BY SamplesEnd
<1>2. l \in Int /\ h \in Int /\ m \in Int /\ i \in Int BY <1>1 DEF Sampled
<1>3. /\ l \in Span(l, h) /\ h - 1 \in Span(l, h)
      /\ m \in Span(m, i) /\ i - 1 \in Span(m, i)
  BY <1>2 DEF Sampled, Span
<1>4. Span(l, h) \subseteq Span(m, i) => m <= l /\ h <= i
  <2> SUFFICES ASSUME Span(l, h) \subseteq Span(m, i) PROVE m <= l /\ h <= i OBVIOUS
  <2>1. l \in Span(m, i) /\ h - 1 \in Span(m, i) BY <1>3
  <2> QED BY <1>2, <2>1 DEF Span
<1>5. m <= l /\ h <= i => Span(l, h) \subseteq Span(m, i)
  <2>1. \A x \in Samples : x \in Int BY <1>1
  <2>2. m <= l /\ h <= i => \A x \in Samples : l <= x /\ x < h => m <= x /\ x < i
    BY <1>2, <2>1
  <2> QED BY <2>2 DEF Span
<1>6. Span(m, i) \subseteq Span(l, h) => l <= m /\ i <= h
  <2> SUFFICES ASSUME Span(m, i) \subseteq Span(l, h) PROVE l <= m /\ i <= h OBVIOUS
  <2>1. m \in Span(l, h) /\ i - 1 \in Span(l, h) BY <1>3
  <2> QED BY <1>2, <2>1 DEF Span
<1> QED BY <1>2, <1>4, <1>5, <1>6

(* The relation meant, by the ends of the spans. *)
LEMMA RelationByEnds ==
  ASSUME NEW e \in Meaning!Readings, Meaning!Understood(e),
         NEW f \in Meaning!Readings, Meaning!Understood(f),
         NEW l \in Int, l = Low(e), NEW h \in Int, h = High(e),
         NEW m \in Int, m = Low(f), NEW i \in Int, i = High(f)
  PROVE  /\ l < h /\ m < i
         /\ Meaning!RelationMeant(e, f) =
              IF l = m /\ h = i THEN "equals" ELSE IF h <= m THEN "before" ELSE IF i <= l THEN "after"
              ELSE IF m <= l /\ h <= i THEN "during" ELSE IF l <= m /\ i <= h THEN "contains"
              ELSE "overlaps"
<1>1. Sampled(l, h) /\ e.means = Span(l, h) /\ Sampled(m, i) /\ f.means = Span(m, i) BY MeaningIs
<1>2. /\ Meaning!SmallestOf(e.means) = l /\ Meaning!LargestOf(e.means) = h - 1
      /\ Meaning!SmallestOf(f.means) = m /\ Meaning!LargestOf(f.means) = i - 1
  BY <1>1, SpansEnd
<1>3. /\ e.means = f.means <=> l = m /\ h = i
      /\ e.means \subseteq f.means <=> m <= l /\ h <= i
      /\ f.means \subseteq e.means <=> l <= m /\ i <= h
  BY <1>1, SpansCompare
<1>4. (h - 1 < m <=> h <= m) /\ (i - 1 < l <=> i <= l) OBVIOUS
<1>5. l < h /\ m < i BY <1>1 DEF Sampled
<1> QED BY <1>2, <1>3, <1>4, <1>5 DEF Meaning!RelationMeant

(* Where both begin as their texts mean, so they are related. *)
LEMMA RelationIs ==
  ASSUME NEW e \in Meaning!Readings, Meaning!Understood(e), Meaning!OnItsUnit(e),
         NEW f \in Meaning!Readings, Meaning!Understood(f), Meaning!OnItsUnit(f)
  PROVE  Meaning!Related(e, f) = Meaning!RelationMeant(e, f)
<1>1. PICK p : p = Meaning!Bounds(e.extent) OBVIOUS
<1>2. PICK q : q = Meaning!Bounds(f.extent) OBVIOUS
<1>3. EndsAgree(p, e) /\ EndsAgree(q, f) BY <1>1, <1>2, BoundsAgree
<1>4. /\ Least \in Int /\ Greatest \in Int
      /\ \A x \in Samples : x \in Int /\ Least <= x /\ x <= Greatest
  BY SamplesEnd
<1>5. PICK l \in Int : l = Low(e) BY <1>4, MeaningIs DEF Sampled
<1>6. PICK h \in Int : h = High(e) BY <1>4, MeaningIs DEF Sampled
<1>7. PICK m \in Int : m = Low(f) BY <1>4, MeaningIs DEF Sampled
<1>8. PICK i \in Int : i = High(f) BY <1>4, MeaningIs DEF Sampled
<1>9. \A x \in Int : x - 1 \in Samples => Least < x BY <1>4
<1>10. /\ IF p.lower = None THEN l = Least ELSE Meaning!At(p.lower) = l /\ Least < l
       /\ IF p.upper = None THEN h = Greatest + 1 ELSE Meaning!At(p.upper) = h /\ h <= Greatest
  BY <1>3, <1>4, <1>5, <1>6, <1>9 DEF EndsAgree, LowerAgrees, UpperAgrees
<1>11. /\ IF q.lower = None THEN m = Least ELSE Meaning!At(q.lower) = m /\ Least < m
       /\ IF q.upper = None THEN i = Greatest + 1 ELSE Meaning!At(q.upper) = i /\ i <= Greatest
  BY <1>3, <1>4, <1>7, <1>8, <1>9 DEF EndsAgree, LowerAgrees, UpperAgrees
<1>12. l < h /\ m < i BY <1>5, <1>6, <1>7, <1>8, RelationByEnds
<1>13. Least <= l /\ Least <= m /\ h <= Greatest + 1 /\ i <= Greatest + 1
  BY <1>4, <1>10, <1>11
<1>14. /\ Meaning!SameEnd(p.lower, q.lower) <=> l = m
       /\ Meaning!SameEnd(p.upper, q.upper) <=> h = i
  BY <1>4, <1>10, <1>11 DEF Meaning!SameEnd
<1>15. /\ Meaning!Disjoint(p.upper, q.lower) <=> h <= m
       /\ Meaning!Disjoint(q.upper, p.lower) <=> i <= l
  BY <1>4, <1>10, <1>11, <1>12, <1>13 DEF Meaning!Disjoint
<1>16. /\ Meaning!LowerLe(p.lower, q.lower) <=> l <= m
       /\ Meaning!LowerLe(q.lower, p.lower) <=> m <= l
       /\ Meaning!UpperLe(p.upper, q.upper) <=> h <= i
       /\ Meaning!UpperLe(q.upper, p.upper) <=> i <= h
  BY <1>4, <1>10, <1>11, <1>13 DEF Meaning!LowerLe, Meaning!UpperLe
<1>17. Meaning!RelationMeant(e, f) =
         IF l = m /\ h = i THEN "equals" ELSE IF h <= m THEN "before" ELSE IF i <= l THEN "after"
         ELSE IF m <= l /\ h <= i THEN "during" ELSE IF l <= m /\ i <= h THEN "contains"
         ELSE "overlaps"
  BY <1>5, <1>6, <1>7, <1>8, RelationByEnds
<1>18. Meaning!Related(e, f) = Meaning!RelateBounds(p, q) BY <1>1, <1>2 DEF Meaning!Related
<1> QED BY <1>14, <1>15, <1>16, <1>17, <1>18 DEF Meaning!RelateBounds

(* The ends of an interval, by the span that is meant. *)
LEMMA EndsByNumber ==
  ASSUME NEW e \in Meaning!Readings, Meaning!Understood(e),
         "before" \in e.text.markers => Meaning!OnItsUnit(e),
         NEW p, p = Meaning!Bounds(e.extent),
         NEW l \in Int, l = Low(e), NEW h \in Int, h = High(e)
  PROVE  /\ IF p.lower = None THEN l = Least /\ p.upper # None
            ELSE Meaning!At(p.lower) >= l /\ Meaning!At(p.lower) < h
         /\ IF p.upper = None THEN h = Greatest + 1 ELSE Meaning!At(p.upper) = h /\ h <= Greatest
         /\ Least <= l /\ l <= Greatest /\ Least < h /\ l < h
<1>1. EndsAgree(p, e) BY BoundsAgree
<1>2. /\ Least \in Int /\ Greatest \in Int
      /\ \A x \in Samples : x \in Int /\ Least <= x /\ x <= Greatest
  BY SamplesEnd
<1>3. Sampled(l, h) BY MeaningIs
<1>4. Least <= l /\ l <= Greatest /\ Least < h /\ l < h BY <1>2, <1>3 DEF Sampled
<1>5. IF p.upper = None THEN h = Greatest + 1 ELSE Meaning!At(p.upper) = h /\ h <= Greatest
  BY <1>1, <1>2 DEF EndsAgree, UpperAgrees
<1>6. p.lower = None => l = Least /\ p.upper # None
  <2> SUFFICES ASSUME p.lower = None PROVE l = Least /\ p.upper # None OBVIOUS
  <2>1. l = Least BY <1>1 DEF EndsAgree, LowerAgrees
  <2>2. e.text.markers # {"after"} BY <1>1 DEF EndsAgree
  <2>3. CASE e.text.markers = {"before"} BY <1>1, <2>1, <2>3 DEF EndsAgree
  <2>4. CASE e.text.markers # {"before"}
    <3>1. l = Begins(FoundBy(e)) BY <2>2, <2>4 DEF Low
    <3>2. l - 1 \in Samples BY <3>1, SampledEnds
    <3> QED BY <1>2, <2>1, <3>2
  <2> QED BY <2>3, <2>4
<1>7. p.lower # None => Meaning!At(p.lower) >= l /\ Meaning!At(p.lower) < h
  <2> SUFFICES ASSUME p.lower # None
               PROVE  Meaning!At(p.lower) >= l /\ Meaning!At(p.lower) < h
    OBVIOUS
  <2>1. Low(e) <= Meaning!At(p.lower) /\ Meaning!At(p.lower) < High(e)
    BY <1>1 DEF EndsAgree, LowerAgrees
  <2> QED BY <2>1
<1> QED BY <1>4, <1>5, <1>6, <1>7

(* One wholly before or after the other is found there, wherever they begin. *)
LEMMA ApartIs ==
  ASSUME NEW e \in Meaning!Readings, Meaning!Understood(e),
         "before" \in e.text.markers => Meaning!OnItsUnit(e),
         NEW f \in Meaning!Readings, Meaning!Understood(f),
         "before" \in f.text.markers => Meaning!OnItsUnit(f),
         Meaning!RelationMeant(e, f) \in {"before", "after"}
  PROVE  Meaning!Related(e, f) = Meaning!RelationMeant(e, f)
<1>1. PICK p : p = Meaning!Bounds(e.extent) OBVIOUS
<1>2. PICK q : q = Meaning!Bounds(f.extent) OBVIOUS
<1>3. Least \in Int /\ Greatest \in Int /\ Samples \subseteq Int BY SamplesEnd
<1>4. PICK l \in Int : l = Low(e) BY <1>3, MeaningIs DEF Sampled
<1>5. PICK h \in Int : h = High(e) BY <1>3, MeaningIs DEF Sampled
<1>6. PICK m \in Int : m = Low(f) BY <1>3, MeaningIs DEF Sampled
<1>7. PICK i \in Int : i = High(f) BY <1>3, MeaningIs DEF Sampled
<1>8. /\ IF p.lower = None THEN l = Least /\ p.upper # None
         ELSE Meaning!At(p.lower) >= l /\ Meaning!At(p.lower) < h
      /\ IF p.upper = None THEN h = Greatest + 1 ELSE Meaning!At(p.upper) = h /\ h <= Greatest
      /\ Least <= l /\ l <= Greatest /\ Least < h /\ l < h
  BY <1>1, <1>4, <1>5, EndsByNumber
<1>9. /\ IF q.lower = None THEN m = Least /\ q.upper # None
         ELSE Meaning!At(q.lower) >= m /\ Meaning!At(q.lower) < i
      /\ IF q.upper = None THEN i = Greatest + 1 ELSE Meaning!At(q.upper) = i /\ i <= Greatest
      /\ Least <= m /\ m <= Greatest /\ Least < i /\ m < i
  BY <1>2, <1>6, <1>7, EndsByNumber
<1>10. Moments(p) /\ Moments(q)
  BY <1>1, <1>2, BoundsAreMoments
<1>11. PICK pl \in Int, pu \in Int :
         /\ p.lower # None => pl = Meaning!At(p.lower)
         /\ p.upper # None => pu = Meaning!At(p.upper)
  BY <1>10 DEF Moments
<1>12. PICK ql \in Int, qu \in Int :
         /\ q.lower # None => ql = Meaning!At(q.lower)
         /\ q.upper # None => qu = Meaning!At(q.upper)
  BY <1>10 DEF Moments
<1>13. Meaning!RelationMeant(e, f) =
         IF l = m /\ h = i THEN "equals" ELSE IF h <= m THEN "before" ELSE IF i <= l THEN "after"
         ELSE IF m <= l /\ h <= i THEN "during" ELSE IF l <= m /\ i <= h THEN "contains"
         ELSE "overlaps"
  BY <1>4, <1>5, <1>6, <1>7, RelationByEnds
<1>14. Meaning!Related(e, f) = Meaning!RelateBounds(p, q) BY <1>1, <1>2 DEF Meaning!Related
<1>15. CASE h <= m
  <2>1. p.upper # None /\ q.lower # None BY <1>3, <1>8, <1>9, <1>15
  <2>2. Meaning!Disjoint(p.upper, q.lower)
    BY <1>8, <1>9, <1>11, <1>12, <1>15, <2>1 DEF Meaning!Disjoint
  <2>3. ~ Meaning!SameEnd(p.upper, q.upper)
    BY <1>8, <1>9, <1>11, <1>12, <1>15, <2>1 DEF Meaning!SameEnd
  <2>4. Meaning!RelateBounds(p, q) = "before" BY <2>2, <2>3 DEF Meaning!RelateBounds
  <2>5. Meaning!RelationMeant(e, f) = "before" BY <1>8, <1>9, <1>13, <1>15
  <2> QED BY <1>14, <2>4, <2>5
<1>16. CASE ~ (h <= m)
  <2>1. Meaning!RelationMeant(e, f) = "after" /\ i <= l BY <1>13, <1>16
  <2>2. q.upper # None /\ p.lower # None BY <1>3, <1>8, <1>9, <2>1
  <2>3. Meaning!Disjoint(q.upper, p.lower)
    BY <1>8, <1>9, <1>11, <1>12, <2>1, <2>2 DEF Meaning!Disjoint
  <2>4. ~ Meaning!SameEnd(p.upper, q.upper)
    BY <1>8, <1>9, <1>11, <1>12, <2>1, <2>2 DEF Meaning!SameEnd
  <2>5. ~ Meaning!Disjoint(p.upper, q.lower)
    BY <1>8, <1>9, <1>11, <1>12, <2>1, <2>2 DEF Meaning!Disjoint
  <2>6. Meaning!RelateBounds(p, q) = "after" BY <2>3, <2>4, <2>5 DEF Meaning!RelateBounds
  <2> QED BY <1>14, <2>1, <2>6
<1> QED BY <1>15, <1>16

LEMMA TwoOf ==
  ASSUME NEW R, NEW q \in Seq(R), Len(q) = 2
  PROVE  q[1] \in R /\ q[2] \in R
OBVIOUS

(* What was read are readings. *)
ReadInv == read \in Seq(Meaning!Readings)

LEMMA ReadHolds == AlgorithmsSpec => []ReadInv
<1>1. AlgorithmsInit => ReadInv BY DEF AlgorithmsInit, ReadInv
<1>2. ReadInv /\ [AlgorithmsNext]_algorithmVars => ReadInv'
  <2> SUFFICES ASSUME ReadInv, [AlgorithmsNext]_algorithmVars PROVE ReadInv' OBVIOUS
  <2>1. CASE Meaning!Next
    <3>1. PICK t \in Expressions, r \in References : read' = Append(read, Meaning!Reading(t, r))
      BY <2>1 DEF Meaning!Next, Meaning!Read
    <3>2. Meaning!Reading(t, r) \in Meaning!Readings BY DEF Meaning!Readings
    <3> QED BY <3>1, <3>2 DEF ReadInv
  <2>2. CASE UNCHANGED read BY <2>2 DEF ReadInv
  <2> QED BY <2>1, <2>2 DEF AlgorithmsNext, algorithmVars
<1> QED BY <1>1, <1>2, PTL DEF AlgorithmsSpec

(***************************************************************************)
(* For any texts of the grammar whose meaning is said, read at any two     *)
(* dates: the relation computed of extents that begin where a unit of      *)
(* their precision does is that of the spans of time the texts mean, and   *)
(* of any two of which one is meant to be wholly before the other, that is *)
(* found, but for a "before" that stops late                               *)
(* (domain/temporal_parsing.py:219-605, domain/interval.py:100-214).       *)
(***************************************************************************)
THEOREM RelationsMean == AlgorithmsSpec => []RelationsAreMeant
<1>1. ReadInv => RelationsAreMeant
  <2> SUFFICES ASSUME ReadInv, Len(read) = 2,
                      Meaning!Understood(read[1]), Meaning!Understood(read[2])
               PROVE  LET e == read[1]
                          f == read[2]
                          meant == Meaning!RelationMeant(e, f)
                      IN /\ Meaning!OnItsUnit(e) /\ Meaning!OnItsUnit(f)
                              => Meaning!Related(e, f) = meant
                         /\ /\ meant \in {"before", "after"}
                            /\ \A r \in {e, f} : "before" \in r.text.markers => Meaning!OnItsUnit(r)
                            => Meaning!Related(e, f) = meant
    BY DEF RelationsAreMeant, Meaning!RelationsAreMeant
  <2>1. PICK R : R = Meaning!Readings OBVIOUS
  <2>2. read \in Seq(R) /\ Len(read) = 2 BY <2>1 DEF ReadInv
  <2>3. read[1] \in R /\ read[2] \in R BY <2>2, TwoOf
  <2> QED BY <2>1, <2>3, RelationIs, ApartIs
<1> QED BY <1>1, ReadHolds, PTL

-----------------------------------------------------------------------------

(* Every date that was found has a year of four digits. *)
FourDigitYears ==
  \A e \in Meaning!Readings :
    Meaning!Parses(e) => Meaning!YearOf(e.extent.start) >= 1000

LEMMA MomentsEqual ==
  ASSUME NEW m \in Meaning!Moment, NEW n \in Meaning!Moment,
         m.local = n.local, m.offset = n.offset
  PROVE  m = n
<1>1. m = [local |-> m.local, offset |-> m.offset] /\ n = [local |-> n.local, offset |-> n.offset]
  BY DEF Meaning!Moment
<1> QED BY <1>1

LEMMA YearsAre ==
  ASSUME NEW m \in Meaning!Moment, m.offset = 0, Meaning!IsYear(m)
  PROVE  m = Meaning!Jan1(Meaning!YearOf(m))
<1>1. PICK y \in Int : y = Meaning!YearOf(m) BY Clocks
<1>2. PICK n : n = Meaning!Jan1(y) OBVIOUS
<1>3. n \in Meaning!Moment /\ n.offset = 0 BY <1>2, January, DatesAreMoments, UtcDates
<1>4. Meaning!At(m) = Meaning!At(n) BY <1>1, <1>2 DEF Meaning!IsYear
<1>5. m.local = n.local BY <1>3, <1>4, Clocks
<1>6. m = n BY <1>3, <1>5, MomentsEqual
<1> QED BY <1>1, <1>2, <1>6

LEMMA MonthsAre ==
  ASSUME NEW m \in Meaning!Moment, m.offset = 0, Meaning!IsMonth(m)
  PROVE  m = Meaning!Date(Meaning!YearOf(m), Meaning!MonthOf(m), 1)
<1>1. PICK y \in Int : y = Meaning!YearOf(m) BY Clocks
<1>2. PICK i \in 1..12 : i = Meaning!MonthOf(m) BY Clocks
<1>3. PICK n : n = Meaning!Date(y, i, 1) OBVIOUS
<1>4. n \in Meaning!Moment /\ n.offset = 0
  <2>1. i \in Int /\ 1 \in Int OBVIOUS
  <2> QED BY <1>3, <2>1, DatesAreMoments, UtcDates
<1>5. Meaning!At(m) = Meaning!At(n) BY <1>1, <1>2, <1>3 DEF Meaning!IsMonth
<1>6. m.local = n.local BY <1>4, <1>5, Clocks
<1>7. m = n BY <1>4, <1>6, MomentsEqual
<1> QED BY <1>1, <1>2, <1>3, <1>7

(* The day that begins when a moment is, on whatever clock, is of its year. *)
LEMMA DaysAre ==
  ASSUME NEW m \in Meaning!Moment, NEW n,
         n = Meaning!Date(Meaning!YearOf(m), Meaning!MonthOf(m), Meaning!DayOf(m))
  PROVE  n \in Meaning!Moment /\ n.offset = 0 /\ Meaning!YearOf(n) = Meaning!YearOf(m)
<1>1. PICK y \in Int : y = Meaning!YearOf(m) BY Clocks
<1>2. PICK i \in 1..12 : i = Meaning!MonthOf(m) BY Clocks
<1>3. PICK d \in 1..2 : d = Meaning!DayOf(m) BY Clocks
<1>4. n = Meaning!Date(y, i, d) BY <1>1, <1>2, <1>3
<1>5. n \in Meaning!Moment /\ n.offset = 0
  <2>1. i \in Int /\ d \in Int OBVIOUS
  <2> QED BY <1>4, <2>1, DatesAreMoments, UtcDates
<1>6. PICK l \in Int : l = (y - 1) * 192 + (i - 1) * 16 + (d - 1) * 8 OBVIOUS
<1>7. n.local = l BY <1>4, <1>6, DatesOnTheClock
<1>8. (l \div 192) + 1 = y BY <1>6
<1>9. Meaning!YearOf(n) = (l \div 192) + 1 BY <1>5, <1>7, Clocks
<1> QED BY <1>1, <1>5, <1>8, <1>9

(* Dates the calendar has are parsed as they are. *)
LEMMA ParsedBack ==
  ASSUME NEW from, NEW till, NEW p,
         \A m \in {from, till} \ {None} : Meaning!YearOf(m) \in 1..MaxYear
  PROVE  Meaning!Parsed(from, till, p) = Dated(from, till, p)
BY DEF Meaning!Parsed, Dated

(* The form an extent is rendered in is parsed, whenever that is, as the
   extent's was, but that a day begins in UTC. *)
ParsesBack(form, e, n) ==
  /\ form.kind # "period"
  /\ \A probe \in {ProbeA, ProbeB} :
       Meaning!Attempt(form, probe) = Dated(n, FoundBy(e).end, FoundBy(e).precision)
  /\ n \in Meaning!Moment /\ Meaning!At(n) = Meaning!At(FoundBy(e).start)
  /\ n = FoundBy(e).start \/ (FoundBy(e).end = None /\ FoundBy(e).precision = "day")

LEMMA FormsParseBack ==
  ASSUME FourDigitYears, NEW e \in Meaning!Readings, Meaning!Parses(e),
         NEW form, form = Meaning!FormFor(e.extent), form # None
  PROVE  \E n : ParsesBack(form, e, n)
<1>1. PICK x : x = e.extent OBVIOUS
<1>2. PICK s : s = x.start OBVIOUS
<1>3. PICK t : t = x.end OBVIOUS
<1>4. PICK p : p = x.precision OBVIOUS
<1>5. /\ FoundBy(e).start = s /\ FoundBy(e).end = t /\ FoundBy(e).precision = p
      /\ FoundBy(e) = Dated(s, t, p)
      /\ s \in Meaning!Moment /\ t \in {None} \union Meaning!Moment
      /\ \A m \in {s, t} \ {None} : Meaning!YearOf(m) \in 1..MaxYear
      /\ InUtc(s, t, p)
  <2>1. x = [start |-> FoundBy(e).start, end |-> FoundBy(e).end,
             precision |-> FoundBy(e).precision, uncertainty |-> Meaning!UncertaintyOf(e.text)]
    BY <1>1, ExtentsAre
  <2>2. FoundBy(e).start = s /\ FoundBy(e).end = t /\ FoundBy(e).precision = p
    BY <1>2, <1>3, <1>4, <2>1
  <2>3. Structured(e.text.form, From(e)) BY ExtentsAre DEF Faithful
  <2> QED BY <2>2, <2>3 DEF Structured, FoundBy
<1>6. Meaning!Parsed(s, t, p) = Dated(s, t, p) BY <1>5, ParsedBack
<1>7. None \notin Meaning!Moment /\ None \notin Int BY Probes
<1>8. form = Meaning!FormFor(x) /\ ~ (Meaning!YearOf(x.start) < 1000)
  <2>1. Meaning!YearOf(s) >= 1000 BY <1>1, <1>2 DEF FourDigitYears
  <2>2. Meaning!YearOf(s) \in Int BY <1>5, Clocks
  <2> QED BY <1>1, <1>2, <2>1, <2>2
<1>9. CASE p = "year" /\ t = None /\ Meaning!IsYear(s)
  <2>1. form = [kind |-> "year", year |-> Meaning!YearOf(s)]
    BY <1>2, <1>3, <1>4, <1>8, <1>9 DEF Meaning!FormFor
  <2>2. s = Meaning!Jan1(Meaning!YearOf(s)) BY <1>5, <1>9, YearsAre DEF InUtc
  <2>3. \A probe : Meaning!Attempt(form, probe) = Meaning!Parsed(s, t, p)
    BY <1>9, <2>1, <2>2 DEF Meaning!Attempt, Meaning!ParsePartial
  <2>4. ParsesBack(form, e, s) BY <1>5, <1>6, <2>1, <2>3 DEF ParsesBack
  <2> QED BY <2>4
<1>10. CASE p = "year" /\ t # None /\ Meaning!RangeOfYears(x)
  <2>1. form = [kind |-> "years", first |-> Meaning!YearOf(s), last |-> Meaning!YearOf(t)]
    BY <1>2, <1>3, <1>4, <1>8, <1>10 DEF Meaning!FormFor
  <2>2. s = Meaning!Jan1(Meaning!YearOf(s)) /\ t = Meaning!Jan1(Meaning!YearOf(t))
    BY <1>2, <1>3, <1>5, <1>10, YearsAre DEF InUtc, Meaning!RangeOfYears
  <2>3. ~ (Meaning!YearOf(t) < Meaning!YearOf(s))
    <3>1. Meaning!YearOf(t) \in Int /\ Meaning!YearOf(s) \in Int BY <1>5, <1>10, Clocks
    <3> QED BY <1>2, <1>3, <1>10, <3>1 DEF Meaning!RangeOfYears
  <2>4. \A probe : Meaning!Attempt(form, probe) = Meaning!ParseRange(form)
    BY <2>1 DEF Meaning!Attempt
  <2>5. Meaning!ParseRange(form) = Meaning!Parsed(s, t, p)
    BY <1>10, <2>1, <2>2, <2>3 DEF Meaning!ParseRange
  <2>6. ParsesBack(form, e, s) BY <1>5, <1>6, <2>1, <2>4, <2>5 DEF ParsesBack
  <2> QED BY <2>6
<1>11. CASE p = "month" /\ t = None /\ Meaning!IsMonth(s)
  <2>1. form = [kind |-> "month", year |-> Meaning!YearOf(s), month |-> Meaning!MonthOf(s)]
    BY <1>2, <1>3, <1>4, <1>8, <1>11 DEF Meaning!FormFor
  <2>2. s = Meaning!Date(Meaning!YearOf(s), Meaning!MonthOf(s), 1)
    BY <1>5, <1>11, MonthsAre DEF InUtc
  <2>3. \A probe : Meaning!Attempt(form, probe) = Meaning!Parsed(s, t, p)
    BY <1>11, <2>1, <2>2 DEF Meaning!Attempt, Meaning!ParsePartial
  <2>4. ParsesBack(form, e, s) BY <1>5, <1>6, <2>1, <2>3 DEF ParsesBack
  <2> QED BY <2>4
<1>12. CASE p = "day" /\ t = None /\ Meaning!IsDay(s)
  <2>1. form = Meaning!DayForm(s)
    BY <1>2, <1>3, <1>4, <1>8, <1>12 DEF Meaning!FormFor
  <2>2. PICK n : n = Meaning!Date(Meaning!YearOf(s), Meaning!MonthOf(s), Meaning!DayOf(s))
    OBVIOUS
  <2>3. n \in Meaning!Moment /\ n.offset = 0 /\ Meaning!YearOf(n) \in 1..MaxYear
    <3>1. Meaning!YearOf(s) \in 1..MaxYear BY <1>5, <1>7
    <3> QED BY <1>5, <2>2, <3>1, DaysAre
  <2>4. Meaning!At(n) = Meaning!At(s) BY <1>12, <2>2 DEF Meaning!IsDay
  <2>5. /\ form.kind = "absolute" /\ form.year = Meaning!YearOf(s)
        /\ form.month = Meaning!MonthOf(s) /\ form.day = Meaning!DayOf(s)
        /\ form.clock = "none" /\ form.time = 0 /\ form.offset = None
    BY <2>1 DEF Meaning!DayForm
  <2>6. /\ Meaning!YearOf(s) # None /\ Meaning!MonthOf(s) # None /\ Meaning!DayOf(s) # None
    <3>1. Meaning!YearOf(s) \in Int /\ Meaning!MonthOf(s) \in Int /\ Meaning!DayOf(s) \in Int
      BY <1>5, Clocks
    <3> QED BY <1>7, <3>1
  <2>7. ASSUME NEW probe \in {ProbeA, ProbeB}
        PROVE  Meaning!Attempt(form, probe) = Dated(n, t, p)
    <3>1. probe.offset = 0 /\ probe.local % 8 = 0 BY Probes
    <3>2. Meaning!TimeFilled(form, probe) = 0
      BY <2>5, <3>1, Units DEF Meaning!TimeFilled, Meaning!WrittenUnit
    <3>3. Meaning!Given(form.offset, probe.offset) = 0 BY <2>5, <3>1 DEF Meaning!Given
    <3>4. n = [local |-> n.local + 0, offset |-> 0]
      <4>1. n.local \in Int BY <2>3, Clocks
      <4>2. n = [local |-> n.local, offset |-> n.offset] BY <2>3 DEF Meaning!Moment
      <4> QED BY <2>3, <4>1, <4>2
    <3>5. Meaning!Attempt(form, probe) = Meaning!ParseAbsolute(form, probe)
      BY <2>5 DEF Meaning!Attempt
    <3>6. /\ Meaning!Given(form.year, Meaning!YearOf(probe)) = Meaning!YearOf(s)
          /\ Meaning!Given(form.month, Meaning!MonthOf(probe)) = Meaning!MonthOf(s)
          /\ Meaning!Given(form.day, Meaning!DayOf(probe)) = Meaning!DayOf(s)
      BY <2>5, <2>6 DEF Meaning!Given
    <3>7. Meaning!ClockPrecision(form.clock) = "day" BY <2>5 DEF Meaning!ClockPrecision
    <3>8. Meaning!ParseAbsolute(form, probe) =
             Meaning!Parsed([local |-> n.local + 0, offset |-> 0], None, "day")
      BY <2>2, <3>2, <3>3, <3>6, <3>7, Zenon DEF Meaning!ParseAbsolute
    <3>9. Meaning!Parsed(n, t, p) = Dated(n, t, p)
      <4>1. \A m \in {n, t} \ {None} : Meaning!YearOf(m) \in 1..MaxYear BY <1>12, <2>3
      <4> QED BY <4>1, ParsedBack
    <3> QED BY <1>12, <3>4, <3>5, <3>8, <3>9
  <2>8. ParsesBack(form, e, n) BY <1>5, <1>12, <2>3, <2>4, <2>5, <2>7 DEF ParsesBack
  <2> QED BY <2>8
<1>13. \/ p = "year" /\ t = None /\ Meaning!IsYear(s)
       \/ p = "year" /\ t # None /\ Meaning!RangeOfYears(x)
       \/ p = "month" /\ t = None /\ Meaning!IsMonth(s)
       \/ p = "day" /\ t = None /\ Meaning!IsDay(s)
  BY <1>2, <1>3, <1>4, <1>8 DEF Meaning!FormFor
<1> QED BY <1>9, <1>10, <1>11, <1>12, <1>13

LEMMA MarkersParseBack ==
  ASSUME NEW u \in {"exact", "circa", "approximate", "before", "after"}
  PROVE  Meaning!DetectUncertainty(Meaning!MarkersFor(u)) = u
BY DEF Meaning!DetectUncertainty, Meaning!MarkersFor

LEMMA ExtentsParseBack ==
  ASSUME FourDigitYears, NEW e \in Meaning!Readings, Meaning!Parses(e),
         NEW said, said = Meaning!RenderTemporal(e.extent), said # None,
         NEW back, back = Meaning!ParseTemporal(said, None)
  PROVE  back \notin {None, Ambiguous, Raised} /\ Meaning!SameExtent(back, e.extent)
<1>1. PICK x : x = e.extent OBVIOUS
<1>2. PICK form : form = Meaning!FormFor(x) OBVIOUS
<1>3. form # None /\ said = [markers |-> Meaning!MarkersFor(x.uncertainty), form |-> form]
  BY <1>1, <1>2 DEF Meaning!RenderTemporal, Meaning!Renderable
<1>4. said.markers = Meaning!MarkersFor(x.uncertainty) /\ said.form = form BY <1>3
<1>5. PICK n : ParsesBack(form, e, n) BY <1>1, <1>2, <1>3, FormsParseBack
<1>6. PICK s : s = FoundBy(e).start OBVIOUS
<1>7. PICK t : t = FoundBy(e).end OBVIOUS
<1>8. PICK p : p = FoundBy(e).precision OBVIOUS
<1>9. PICK u : u = Meaning!UncertaintyOf(e.text) OBVIOUS
<1>10. /\ x = [start |-> s, end |-> t, precision |-> p, uncertainty |-> u]
       /\ FoundBy(e) \notin {None, Ambiguous, Raised} /\ FoundBy(e) = Dated(s, t, p)
       /\ s \in Meaning!Moment /\ x \notin {None, Ambiguous, Raised}
  <2>1. /\ x = [start |-> s, end |-> t, precision |-> p, uncertainty |-> u]
        /\ FoundBy(e) \notin {None, Ambiguous, Raised}
    BY <1>1, <1>6, <1>7, <1>8, <1>9, ExtentsAre
  <2>2. Structured(e.text.form, From(e)) BY ExtentsAre DEF Faithful
  <2>3. FoundBy(e) = Dated(s, t, p) /\ s \in Meaning!Moment
    BY <1>6, <1>7, <1>8, <2>2 DEF Structured, FoundBy
  <2> QED BY <1>1, <2>1, <2>3 DEF Meaning!Parses
<1>11. x.start = s /\ x.end = t /\ x.precision = p /\ x.uncertainty = u BY <1>10
<1>12. u \in {"exact", "circa", "approximate", "before", "after"} BY <1>9, MarkersSay
<1>13. Meaning!UncertaintyOf(said) = u
  BY <1>4, <1>5, <1>11, <1>12, MarkersParseBack DEF ParsesBack, Meaning!UncertaintyOf
<1>14. Meaning!Found(form, None) = Dated(n, t, p)
  BY <1>5, <1>7, <1>8 DEF ParsesBack, Meaning!Found
<1>15. /\ n \in Meaning!Moment /\ Meaning!At(n) = Meaning!At(s)
       /\ n = s \/ (t = None /\ p = "day")
  BY <1>5, <1>6, <1>7, <1>8 DEF ParsesBack
<1>16. PICK y : y = [start |-> n, end |-> t, precision |-> p, uncertainty |-> u] OBVIOUS
<1>17. Dated(n, t, p) \notin {None, Ambiguous, Raised} /\ y \notin {None, Ambiguous, Raised}
  <2>1. CASE n = s BY <1>10, <1>16, <2>1
  <2>2. CASE t = None /\ p = "day"
    <3>1. Dated(n, t, p) \in [start : Meaning!Moment, end : {None}, precision : {"day"}]
      BY <1>15, <2>2 DEF Dated
    <3>2. y \in [start : Meaning!Moment, end : {None}, precision : {"day"},
                 uncertainty : Markers \union {"exact"}]
      BY <1>12, <1>15, <1>16, <2>2 DEF Markers
    <3> QED BY <3>1, <3>2, MeaningAssumption
  <2> QED BY <1>15, <2>1, <2>2
<1>18. back = y
  BY <1>4, <1>13, <1>14, <1>16, <1>17, TripleIs DEF Meaning!ParseTemporal
<1>19. y.start = n /\ y.end = t /\ y.precision = p /\ y.uncertainty = u BY <1>16
<1>20. Meaning!SameEnd(n, s) BY <1>10, <1>15, Probes DEF Meaning!SameEnd
<1>21. Meaning!SameEnd(t, t) BY DEF Meaning!SameEnd
<1>22. Meaning!SameExtent(y, x) BY <1>11, <1>19, <1>20, <1>21 DEF Meaning!SameExtent
<1> QED BY <1>1, <1>17, <1>18, <1>22

(***************************************************************************)
(* An extent that is rendered at all is rendered as text that means it     *)
(* again, from no vantage point and whatever its markers, if its year has  *)
(* four digits; the text of an earlier one does not parse back             *)
(* (temporal_parsing.py:536-578).                                          *)
(***************************************************************************)
THEOREM RenderedTextMeansTheSame ==
  ASSUME FourDigitYears
  PROVE  AlgorithmsSpec => []RenderingsParseBack
<1>1. ReadInv => RenderingsParseBack
  <2> SUFFICES ASSUME ReadInv, NEW i \in 1..Len(read), Meaning!Parses(read[i]),
                      Meaning!RenderTemporal(read[i].extent) # None
               PROVE  LET back == Meaning!ParseTemporal(Meaning!RenderTemporal(read[i].extent), None)
                      IN back \notin {None, Ambiguous, Raised}
                           /\ Meaning!SameExtent(back, read[i].extent)
    BY DEF RenderingsParseBack, Meaning!RenderingsParseBack
  <2>1. read[i] \in Meaning!Readings BY DEF ReadInv
  <2> QED BY <2>1, ExtentsParseBack
<1> QED BY <1>1, ReadHolds, PTL
=============================================================================
