-------------------------- MODULE FetchRateLimiter ---------------------------
(***************************************************************************)
(* FetchRateLimiter: fetches wait in one queue per bucket until fewer than *)
(* maxConcurrent of them run and fewer than maxPerInterval have started    *)
(* within the last intervalMs.  All buckets share one drain: a microtask   *)
(* or a timer, at most one of each.                                        *)
(*                                                                         *)
(* Time is counted in ticks.  A start is remembered by its age, which      *)
(* stops at Interval, and a timer by the ticks left; a timer may fire      *)
(* late.  The buckets of a full table are evicted in any order.            *)
(***************************************************************************)
EXTENDS Integers, FiniteSets, SequencesExt

CONSTANTS
    Buckets,         \* the bucket keys in use, see resolveBucketKey
    Fetches,         \* the scheduled tasks
    MaxConcurrent,   \* maxConcurrent, 0 if not configured
    MaxPerInterval,  \* maxPerInterval, 0 if not configured
    Interval,        \* intervalMs, in ticks
    Bypass,          \* queueOverflow is "bypass"
    MaxBuckets,      \* MAX_BUCKETS
    MaxQueue         \* MAX_QUEUE_PER_BUCKET

Never == -1          \* a timer that is not armed

ASSUME FetchesAssumption == IsFiniteSet(Fetches)
ASSUME LimitsAssumption ==
    /\ MaxConcurrent \in Nat /\ MaxPerInterval \in Nat /\ Interval \in Nat \ {0}
    /\ MaxConcurrent + MaxPerInterval > 0
    /\ MaxBuckets \in Nat \ {0} /\ MaxQueue \in Nat \ {0} /\ Bypass \in BOOLEAN

VARIABLES
    buckets,    \* the bucket states, a function on the buckets that exist
    queues,     \* queuesByBucket
    pending,    \* pendingBuckets
    scheduled,  \* drainScheduled: a microtask is on its way
    timer,      \* ticks until the drain timer fires, or Never
    disposed,
    task,       \* task[f]: "new", "queued", "running", "bypassing" or "over"
    recent      \* history: recent[b], the ages of b's starts within Interval

limiterVars == <<buckets, queues, pending, scheduled, timer, disposed, task, recent>>

Ages == 0..Interval
Timers == Ages \cup {Never}

BucketStates == [active : 0..Cardinality(Fetches), started : Seq(Ages), cleanup : Timers]

LimiterTypeOK ==
    /\ DOMAIN buckets \subseteq Buckets
    /\ \A b \in DOMAIN buckets : buckets[b] \in BucketStates
    /\ queues \in [Buckets -> Seq(Fetches)]
    /\ \A b \in Buckets : Len(queues[b]) <= MaxQueue
    /\ pending \subseteq Buckets
    /\ scheduled \in BOOLEAN /\ disposed \in BOOLEAN
    /\ timer \in Timers
    /\ task \in [Fetches -> {"new", "queued", "running", "bypassing", "over"}]
    /\ recent \in [Buckets -> Seq(Ages)]

NoBuckets == [b \in {} |-> 0]

InitLimiter ==
    /\ buckets = NoBuckets
    /\ queues = [b \in Buckets |-> << >>]
    /\ pending = {}
    /\ scheduled = FALSE /\ timer = Never /\ disposed = FALSE
    /\ task = [f \in Fetches |-> "new"]
    /\ recent = [b \in Buckets |-> << >>]

-----------------------------------------------------------------------------
Without(m, B) == [b \in DOMAIN m \ B |-> m[b]]

\* A bucket evictIdleBuckets may drop.
IsIdle(b) == buckets[b].active = 0 /\ buckets[b].started = << >> /\ queues[b] = << >>

\* The sets of buckets evictIdleBuckets may drop: it stops at nine tenths.
Evictions ==
    LET idle == {b \in DOMAIN buckets : IsIdle(b)}
        left(E) == Cardinality(DOMAIN buckets) - Cardinality(E)
    IN  {E \in SUBSET idle :
           /\ 10 * left(E) <= 9 * MaxBuckets \/ E = idle
           /\ E # {} => 10 * (left(E) + 1) > 9 * MaxBuckets}

NewBucket == [active |-> 0, started |-> << >>, cleanup |-> Never]

\* scheduleDrain(0), and scheduleDrain(delay) with the deadline in the future.
ScheduleNow == scheduled' = TRUE /\ timer' = Never

\* The task of f runs outside the limiter.
RunAt(f, where) == task' = [task EXCEPT ![f] = where]

\* The task is queued, and the queue drained.
Push(f, b, after) ==
    /\ buckets' = after
    /\ queues' = [queues EXCEPT ![b] = Append(@, f)]
    /\ RunAt(f, "queued")
    /\ pending' = pending \cup {b}
    /\ ScheduleNow

\* schedule(): a disposed limiter, a full table of buckets and a full queue
\* refuse; with "bypass" a full queue lets the task pass.
Schedule(f, b) ==
    /\ task[f] = "new"
    /\ \E E \in IF b \in DOMAIN buckets \/ Cardinality(DOMAIN buckets) < MaxBuckets
                THEN {{}} ELSE Evictions :
         LET kept  == Without(buckets, E)
             after == [c \in DOMAIN kept \cup {b} |-> IF c \in DOMAIN kept THEN kept[c] ELSE NewBucket]
         IN  \/ /\ ~disposed
                /\ Cardinality(DOMAIN after) <= MaxBuckets
                /\ Len(queues[b]) < MaxQueue
                /\ Push(f, b, after)
             \/ /\ disposed \/ Cardinality(DOMAIN after) > MaxBuckets \/ Len(queues[b]) >= MaxQueue
                /\ buckets' = kept
                /\ RunAt(f, IF ~disposed /\ Cardinality(DOMAIN after) <= MaxBuckets /\ Bypass
                            THEN "bypassing" ELSE "over")
                /\ UNCHANGED <<queues, pending, scheduled, timer>>
    /\ UNCHANGED <<disposed, recent>>

-----------------------------------------------------------------------------
\* The first n starts, and no more, lie outside of the interval.
Expired(ages, n) ==
    /\ \A i \in 1..n : ages[i] = Interval
    /\ n < Len(ages) => ages[n + 1] < Interval

\* The starts that still count.
Recent(ages) ==
    LET gone == CHOOSE n \in 0..Len(ages) : Expired(ages, n)
    IN  SubSeq(ages, gone + 1, Len(ages))

\* prune()
Pruned(b) == Recent(buckets[b].started)

Saturated(b) == MaxConcurrent > 0 /\ buckets[b].active >= MaxConcurrent

\* Mutant: one start too many.
WaitTimeOffByOne(b) ==
    IF Saturated(b) THEN 1
    ELSE IF MaxPerInterval = 0 \/ Len(Pruned(b)) <= MaxPerInterval THEN 0
    ELSE Interval - Head(Pruned(b))

\* waitTime(): 0 lets the head of b's queue start.
WaitTime(b) ==
    IF Saturated(b) THEN 1
    ELSE IF MaxPerInterval = 0 \/ Len(Pruned(b)) < MaxPerInterval THEN 0
    ELSE Interval - Head(Pruned(b))

\* waitTime() prunes the starts, unless all slots are taken.
Looked(b) ==
    IF Saturated(b) \/ MaxPerInterval = 0 THEN buckets[b]
    ELSE [buckets[b] EXCEPT !.started = Pruned(b)]

Started(b) ==
    [Looked(b) EXCEPT !.active = @ + 1, !.cleanup = Never,
                      !.started = IF MaxPerInterval = 0 THEN @ ELSE Append(@, 0)]

\* drain(): every pending bucket whose head may start starts it.
DrainBuckets ==
    LET full  == {b \in pending : queues[b] # << >>}
        ready == {b \in full : WaitTime(b) = 0}
        heads == {Head(queues[b]) : b \in ready}
    IN  /\ buckets' = [b \in DOMAIN buckets |->
                         IF b \in ready THEN Started(b)
                         ELSE IF b \in full THEN Looked(b) ELSE buckets[b]]
        /\ queues' = [b \in Buckets |-> IF b \in ready THEN Tail(queues[b]) ELSE queues[b]]
        /\ task' = [f \in Fetches |-> IF f \in heads THEN "running" ELSE task[f]]
        /\ recent' = [b \in Buckets |->
                        IF b \in ready THEN Append(recent[b], 0) ELSE recent[b]]
        /\ pending' = {b \in full : b \in ready => Len(queues[b]) > 1}

\* Mutant: buckets that have to wait arm no timer.
DrainAgainOnStart ==
    /\ scheduled' = (pending' # {} /\ buckets' # buckets)
    /\ timer' = Never

\* The end of drain(): a microtask if something started, the timer for the
\* bucket that is ready first otherwise.
DrainAgain ==
    LET full  == {b \in pending : queues[b] # << >>}
        waits == {WaitTime(b) : b \in full}
    IN  /\ scheduled' = (pending' # {} /\ 0 \in waits)
        /\ timer' = IF pending' # {} /\ 0 \notin waits
                    THEN CHOOSE w \in waits : \A v \in waits : w <= v ELSE Never

Drain ==
    /\ scheduled \/ timer = 0
    /\ DrainBuckets
    /\ DrainAgain
    /\ UNCHANGED disposed

\* The task settles: its slot is free, an idle bucket is dropped, or later.
End(f, b) ==
    /\ task[f] = "running"
    /\ RunAt(f, "over")
    /\ IF disposed THEN UNCHANGED <<buckets, pending, scheduled, timer>>
       ELSE LET s == [buckets[b] EXCEPT !.active = @ - 1]
            IN  /\ buckets' =
                     IF queues[b] # << >> \/ s.active > 0 THEN [buckets EXCEPT ![b] = s]
                     ELSE IF s.started = << >> THEN Without(buckets, {b})
                     ELSE [buckets EXCEPT ![b] = [s EXCEPT !.cleanup = Interval]]
                /\ pending' = IF queues[b] # << >> THEN pending \cup {b} ELSE pending
                /\ ScheduleNow
    /\ UNCHANGED <<queues, disposed, recent>>

EndBypass(f) ==
    /\ task[f] = "bypassing"
    /\ RunAt(f, "over")
    /\ UNCHANGED <<buckets, queues, pending, scheduled, timer, disposed, recent>>

\* A bucket's cleanup timer.
Cleanup(b) ==
    LET s == [buckets[b] EXCEPT !.cleanup = Never, !.started = Pruned(b)]
    IN  /\ b \in DOMAIN buckets
        /\ buckets[b].cleanup = 0
        /\ buckets' = IF s.active = 0 /\ s.started = << >> /\ queues[b] = << >>
                      THEN Without(buckets, {b}) ELSE [buckets EXCEPT ![b] = s]
        /\ UNCHANGED <<queues, pending, scheduled, timer, disposed, task, recent>>

\* dispose() rejects what is queued; what runs goes on.
Dispose ==
    /\ ~disposed /\ disposed' = TRUE
    /\ buckets' = NoBuckets /\ queues' = [b \in Buckets |-> << >>] /\ pending' = {}
    /\ scheduled' = FALSE /\ timer' = Never
    /\ task' = [f \in Fetches |-> IF task[f] = "queued" THEN "over" ELSE task[f]]
    /\ UNCHANGED recent

\* Time passes; microtasks run before it does.
Older(ages) == [i \in DOMAIN ages |-> IF ages[i] < Interval THEN ages[i] + 1 ELSE Interval]
Sooner(t) == IF t > 0 THEN t - 1 ELSE t

LimiterTick ==
    /\ ~scheduled
    /\ buckets' = [b \in DOMAIN buckets |->
                     [buckets[b] EXCEPT !.started = Older(@), !.cleanup = Sooner(@)]]
    /\ timer' = Sooner(timer)
    /\ recent' = [b \in Buckets |-> Recent(Older(recent[b]))]
    /\ UNCHANGED <<queues, pending, scheduled, disposed, task>>
=============================================================================
