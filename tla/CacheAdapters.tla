--------------------------- MODULE CacheAdapters ---------------------------
(***************************************************************************)
(* The two adapters of the `Cache` port, given the same calls:             *)
(* src/src/redstring/llm/cache/{memory,redis}.py.  One key of each kind: a *)
(* value that is set, a counter, a series of hits.                         *)
(*                                                                         *)
(* A `MemoryCache` call is never interrupted.  A `RedisCache` call is one  *)
(* command or one transaction, except `increment`, which sets the time to  *)
(* live of a counter it created in a second one; its caller may die        *)
(* between the two.  Time is counted in milliseconds, in which Redis's     *)
(* clock and the process's agree.                                          *)
(***************************************************************************)
EXTENDS Integers, FiniteSets

CONSTANTS
  Processes,   \* processes that share the Redis
  TimeToLive,  \* the ttl_seconds of increment and record_hit
  WindowWidth, \* how far back the caller asks for hits
  Values,      \* what is set
  Never,       \* no deadline
  Nothing,     \* None
  LastInstant, \* bound on the clock
  MaxCount     \* bound on the counter and on the hits of an instant

VARIABLES
  instant, \* the clocks
  memory,  \* MemoryCache: [value, counter, hits], each [is, until]
  redis,   \* the Redis, likewise
  step,    \* process -> "idle" or "expire", between INCR and PEXPIRE
  died,    \* a process died between them
  late     \* time passed between the two commands of an increment

vars == <<instant, memory, redis, step, died, late>>

Instants == 0..LastInstant

NoHits == [t \in Instants |-> 0]
Empty == [is |-> Nothing, until |-> Never]
NoSeries == [is |-> NoHits, until |-> Never]

Init ==
  /\ instant = 0
  /\ memory = [value |-> Empty, counter |-> Empty, hits |-> NoSeries]
  /\ redis = memory
  /\ step = [p \in Processes |-> "idle"]
  /\ died = FALSE
  /\ late = FALSE

Expired(entry) == entry.until # Never /\ entry.until <= instant

(* What the key holds now, in either adapter. *)
Live(entry) == IF Expired(entry) THEN Nothing ELSE entry.is
LiveHits(series) == IF Expired(series) THEN NoHits ELSE series.is

(* Both take the change in one step. *)
BothSet(field, entry) ==
  /\ memory' = [memory EXCEPT ![field] = entry]
  /\ redis' = [redis EXCEPT ![field] = entry]

Put(v, ttl) ==
  /\ BothSet("value", [is |-> v, until |-> IF ttl = Never THEN Never ELSE instant + ttl])
  /\ UNCHANGED <<instant, step, died, late>>

(* delete takes a key's value and its hits. *)
Delete(field) ==
  /\ BothSet(field, IF field = "hits" THEN NoSeries ELSE Empty)
  /\ late' = (late /\ field # "counter")
  /\ UNCHANGED <<instant, step, died>>

(* Mutant: every increment sets the time to live again. *)
Refreshed(entry) ==
  IF Live(entry) = Nothing THEN [is |-> 1, until |-> instant + TimeToLive]
  ELSE [is |-> entry.is + 1, until |-> instant + TimeToLive]

(* MemoryCache.increment *)
Incremented(entry) ==
  IF Live(entry) = Nothing THEN [is |-> 1, until |-> instant + TimeToLive]
  ELSE [entry EXCEPT !.is = @ + 1]

(* RedisCache.increment, first half: INCR keeps the time to live there is. *)
Incr(entry) ==
  IF Live(entry) = Nothing THEN [is |-> 1, until |-> Never] ELSE [entry EXCEPT !.is = @ + 1]

(* Mutant: whoever makes a counter leaves its time to live to others. *)
NeverItsMaker(count) == FALSE

MadeIt(count) == count = 1

Increment(p) ==
  /\ step[p] = "idle"
  /\ {Live(memory.counter), Live(redis.counter)} \subseteq {Nothing} \union 1..(MaxCount - 1)
  /\ memory' = [memory EXCEPT !.counter = Incremented(@)]
  /\ redis' = [redis EXCEPT !.counter = Incr(@)]
  /\ step' = [step EXCEPT ![p] = IF MadeIt(redis'.counter.is) THEN "expire" ELSE "idle"]
  /\ UNCHANGED <<instant, died, late>>

(* Second half: PEXPIRE, of whatever counter is there by now. *)
PExpire(p) ==
  /\ step[p] = "expire"
  /\ step' = [step EXCEPT ![p] = "idle"]
  /\ redis' = IF Live(redis.counter) = Nothing THEN redis
              ELSE [redis EXCEPT !.counter.until = instant + TimeToLive]
  /\ UNCHANGED <<instant, memory, died, late>>

Die(p) ==
  /\ step[p] = "expire"
  /\ step' = [step EXCEPT ![p] = "idle"]
  /\ died' = TRUE
  /\ UNCHANGED <<instant, memory, redis, late>>

(* The series lives a time to live from its last hit.  MemoryCache adds to a
   series even if it has expired, Redis starts another. *)
Recorded(hits) == [hits EXCEPT ![instant] = @ + 1]

RecordHit ==
  /\ memory.hits.is[instant] < MaxCount
  /\ memory' = [memory EXCEPT !.hits =
                  [is |-> Recorded(memory.hits.is), until |-> instant + TimeToLive]]
  /\ redis' = [redis EXCEPT !.hits =
                 [is |-> Recorded(LiveHits(redis.hits)), until |-> instant + TimeToLive]]
  /\ UNCHANGED <<instant, step, died, late>>

Since(hits, t) == [i \in Instants |-> IF i < t THEN 0 ELSE hits[i]]

Pruned(series, t) ==
  IF Expired(series) THEN NoSeries ELSE [series EXCEPT !.is = Since(@, t)]

(* count_hits prunes what is older than it asks for: a list in memory, a
   sorted set by ZREMRANGEBYSCORE. *)
CountHits ==
  /\ memory' = [memory EXCEPT !.hits = Pruned(@, instant - WindowWidth)]
  /\ redis' = [redis EXCEPT !.hits.is = Since(LiveHits(redis.hits), instant - WindowWidth)]
  /\ UNCHANGED <<instant, step, died, late>>

Tick ==
  /\ instant < LastInstant
  /\ instant' = instant + 1
  /\ late' = (late \/ \E p \in Processes : step[p] = "expire")
  /\ UNCHANGED <<memory, redis, step, died>>

Next ==
  \/ \E v \in Values, ttl \in {Never, TimeToLive} : Put(v, ttl)
  \/ \E field \in {"value", "counter", "hits"} : Delete(field)
  \/ \E p \in Processes : Increment(p) \/ PExpire(p) \/ Die(p)
  \/ RecordHit \/ CountHits \/ Tick

Spec == Init /\ [][Next]_vars

-----------------------------------------------------------------------------
(* Properties *)

(* A caller cannot tell the adapters apart: both hold the same values and the
   same hits of every window narrower than the time to live, and, between
   calls, the same counter, unless the second command of an increment came
   late or never (memory.py:77-131, redis.py:110-164). *)
AdaptersAgree ==
  /\ Live(memory.value) = Live(redis.value)
  /\ Since(LiveHits(memory.hits), instant - WindowWidth)
       = Since(LiveHits(redis.hits), instant - WindowWidth)
  /\ (\A p \in Processes : step[p] = "idle") /\ ~ late /\ ~ died
       => Live(memory.counter) = Live(redis.counter)

(* A counter decays: however increments and deletions interleave, one with no
   deadline has a maker about to set it, unless that one died
   (redis.py:118-124). *)
CountersExpire ==
  redis.counter.is # Nothing /\ redis.counter.until = Never /\ ~ died
    => \E p \in Processes : step[p] = "expire"

(* The same whoever dies.  (Known limit: INCR and PEXPIRE are two commands.) *)
CountersAlwaysExpire ==
  redis.counter.is # Nothing /\ redis.counter.until = Never
    => \E p \in Processes : step[p] = "expire"
=============================================================================
