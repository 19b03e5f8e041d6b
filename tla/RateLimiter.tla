----------------------------- MODULE RateLimiter -----------------------------
(***************************************************************************)
(* Callers of one tenant's sliding-window limit: src/src/redstring/llm/    *)
(* rate_limiter.py over the hit-window half of the `Cache` port.           *)
(*                                                                         *)
(* Time is counted in the clock's ticks, and several calls may fall into   *)
(* one.  Over `MemoryCache` an `acquire` is never interrupted; over        *)
(* `RedisCache` counting, looking up the oldest hit and recording are      *)
(* three round trips.  The deadline of the whole series is left out: twice *)
(* the window after its last hit, it drops nothing a window still holds.   *)
(***************************************************************************)
EXTENDS Integers, FiniteSets

CONSTANTS
  Callers,  \* tasks or processes that call for the tenant
  Rpm,      \* calls allowed per window
  Window,   \* window_seconds, in ticks
  MaxTime   \* bound on the clock

ASSUME CallersAssumption == IsFiniteSet(Callers)
ASSUME RpmAssumption == Rpm \in Nat \ {0}
ASSUME WindowAssumption == Window \in Nat \ {0}
ASSUME BoundAssumption == MaxTime \in Nat

VARIABLES
  shared,  \* the cache is a RedisCache; wiring, chosen once
  clock,   \* datetime.now(UTC), in ticks
  hits,    \* the recorded hits; a number tells hits of one tick apart
  pc,      \* what each caller does next
  now,     \* the instant each caller read when it entered acquire
  retry    \* when each refused caller was told to come back

vars == <<shared, clock, hits, pc, now, retry>>

Steps == {"idle", "count", "oldest", "record"}

NoRetry == MaxTime + Window + 1   \* nobody was told this instant

Hit == [at : 0..MaxTime, number : Nat]

Init ==
  /\ shared \in BOOLEAN
  /\ clock = 0
  /\ hits = {}
  /\ pc = [c \in Callers |-> "idle"]
  /\ now = [c \in Callers |-> 0]
  /\ retry = [c \in Callers |-> NoRetry]

(* A MemoryCache never hands control over inside acquire. *)
MayRun(c) == shared \/ \A d \in Callers \ {c} : pc[d] = "idle"

Goto(c, step) == pc' = [pc EXCEPT ![c] = step]

(* The hits at or after an instant. *)
Since(t) == {h \in hits : h.at >= t}

(* acquire reads the clock once ... *)
Acquire(c) ==
  /\ pc[c] = "idle"
  /\ MayRun(c)
  /\ now' = [now EXCEPT ![c] = clock]
  /\ retry' = [retry EXCEPT ![c] = NoRetry]
  /\ Goto(c, "count")
  /\ UNCHANGED <<shared, clock, hits>>

(* Mutant: the window is one hit too large. *)
CountHitsOffByOne(c) ==
  /\ pc[c] = "count"
  /\ MayRun(c)
  /\ hits' = Since(now[c] - Window)
  /\ Goto(c, IF Cardinality(hits') > Rpm THEN "oldest" ELSE "record")
  /\ UNCHANGED <<shared, clock, now, retry>>

(* ... count_hits forgets what left the window and counts the rest ... *)
CountHits(c) ==
  /\ pc[c] = "count"
  /\ MayRun(c)
  /\ hits' = Since(now[c] - Window)
  /\ Goto(c, IF Cardinality(hits') >= Rpm THEN "oldest" ELSE "record")
  /\ UNCHANGED <<shared, clock, now, retry>>

(* oldest_hit, of a window that holds one. *)
Oldest(window) ==
  (CHOOSE h \in window : \A k \in window : h.at <= k.at).at

(* ... and a full window raises RateLimitExceeded: come back when its oldest
   hit is a window old. *)
Refuse(c) ==
  LET window == Since(now[c] - Window)
  IN /\ pc[c] = "oldest"
     /\ MayRun(c)
     /\ retry' = [retry EXCEPT ![c] =
          IF window = {} THEN now[c] + Window
          ELSE Oldest(window) + Window]
     /\ Goto(c, "idle")
     /\ UNCHANGED <<shared, clock, hits, now>>

(* Otherwise the hit is recorded and the call may be made. *)
RecordHit(c) ==
  /\ pc[c] = "record"
  /\ MayRun(c)
  /\ \E n \in 0..Cardinality(hits) :
       /\ [at |-> now[c], number |-> n] \notin hits
       /\ \A k \in 0..(n - 1) : [at |-> now[c], number |-> k] \in hits
       /\ hits' = hits \union {[at |-> now[c], number |-> n]}
  /\ Goto(c, "idle")
  /\ UNCHANGED <<shared, clock, now, retry>>

Tick ==
  /\ clock < MaxTime
  /\ clock' = clock + 1
  /\ UNCHANGED <<shared, hits, pc, now, retry>>

Next ==
  \/ \E c \in Callers : Acquire(c) \/ CountHits(c) \/ Refuse(c) \/ RecordHit(c)
  \/ Tick

Spec == Init /\ [][Next]_vars

-----------------------------------------------------------------------------
(* Properties *)

TypeOK ==
  /\ shared \in BOOLEAN
  /\ clock \in 0..MaxTime
  /\ hits \in SUBSET Hit
  /\ pc \in [Callers -> Steps]
  /\ now \in [Callers -> 0..MaxTime]
  /\ retry \in [Callers -> Nat]

Calls == Cardinality(Since(clock - Window))   \* in the window that ends now

(* Within one process no window holds more calls than the allowance: "twice
   the limit is what knocks it over" (rate_limiter.py:16-21).  Hits an acquire
   forgot are older than every window that ends now or later. *)
WindowBound == ~ shared => Calls <= Rpm

(* However many processes race, each exceeds the allowance by one call at
   most. *)
OvershootBound == Calls <= Rpm + Cardinality(Callers) - 1

(* docs/how-to/harden-model-calls.md: "Use Redis when several workers must
   draw on one allowance". *)
SharedWindowBound == Calls <= Rpm

(* Within one process, a refused caller is told to wait a window at most, and
   every instant before the one it is told has the allowance used up by hits
   already recorded. *)
RetryIsEarliest ==
  [][ \A c \in Callers : ~ shared /\ pc[c] = "oldest" /\ pc'[c] = "idle" =>
        /\ retry'[c] <= now[c] + Window
        /\ \A t \in now[c]..(retry'[c] - 1) : Cardinality(Since(t - Window)) >= Rpm ]_vars

(* "A caller sleeping for it and retrying will succeed" (RateLimitExceeded). *)
RetrySucceeds ==
  [][ \A c \in Callers :
        pc[c] = "idle" /\ pc'[c] = "count" /\ retry[c] = clock
          => Calls < Rpm ]_vars
=============================================================================
