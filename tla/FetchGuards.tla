---------------------------- MODULE FetchGuards ------------------------------
(***************************************************************************)
(* fetchAndPopulate up to the answer of the fetcher: the circuit breaker   *)
(* is asked, the fetch passes the rate limiter, and its outcome is         *)
(* recorded with the breaker.  disconnect disposes the limiter.            *)
(***************************************************************************)
EXTENDS FetchRateLimiter, CircuitBreaker

VARIABLES
    of,         \* of[f]: the key fetched
    failures    \* history: fetches whose fetcher ran and failed

vars == <<limiterVars, breakers, of, failures>>

CONSTANTS
    Keys, RateScope, BreakerScope   \* "key", or one bucket or breaker for all

\* resolveBucketKey and resolveCircuitBreakerKey; the other scopes name a
\* bucket by fetcher or by the caller's choice and share it in the same way.
BucketOf(k) == IF RateScope = "key" THEN k ELSE "global"
BreakerOf(k) == IF BreakerScope = "key" THEN k ELSE "shared"

ASSUME ScopeAssumption ==
    \A k \in Keys : BucketOf(k) \in Buckets /\ BreakerOf(k) \in Breakers

TypeOK ==
    /\ LimiterTypeOK
    /\ BreakerTypeOK
    /\ of \in [Fetches -> Keys]
    /\ failures \subseteq Fetches

Init ==
    /\ InitLimiter
    /\ InitBreakers
    /\ of \in [Fetches -> Keys]
    /\ failures = {}

-----------------------------------------------------------------------------
Breaker(f) == BreakerOf(of[f])
Bucket(f) == BucketOf(of[f])

\* An open breaker throws; otherwise the fetch is scheduled.  The breaker does
\* not hear of a fetch the limiter refuses (FetchRateLimitError).
Fetch(f) ==
    /\ IF IsOpenIn(breakers, Breaker(f))
       THEN /\ task[f] = "new"
            /\ RunAt(f, "over")
            /\ UNCHANGED <<buckets, queues, pending, scheduled, timer, disposed, recent, breakers>>
       ELSE Schedule(f, Bucket(f)) /\ AssertClosed(Breaker(f))
    /\ UNCHANGED <<of, failures>>

\* The fetcher ran: recordSuccess, or recordCircuitFailure.
Settle(f, success) ==
    /\ End(f, Bucket(f)) \/ EndBypass(f)
    /\ IF success
       THEN RecordSuccess(Breaker(f)) /\ UNCHANGED failures
       ELSE RecordFailure(Breaker(f)) /\ failures' = failures \cup {f}
    /\ UNCHANGED of

\* A key is deleted (deleteKeys, handleInvalidationMessage).
Invalidate(k) ==
    /\ RecordSuccess(k)
    /\ UNCHANGED <<limiterVars, of, failures>>

\* The stack is cleared.
Clear ==
    /\ ClearBreakers
    /\ UNCHANGED <<limiterVars, of, failures>>

Tick == LimiterTick /\ BreakerTick /\ UNCHANGED <<of, failures>>

Limiter(A) == A /\ UNCHANGED <<breakers, of, failures>>

Next ==
    \/ \E f \in Fetches : Fetch(f) \/ \E success \in BOOLEAN : Settle(f, success)
    \/ Limiter(Drain) \/ Limiter(Dispose)
    \/ \E b \in Buckets : Limiter(Cleanup(b))
    \/ \E k \in Keys \cap Breakers : Invalidate(k)
    \/ Clear
    \/ Tick

Spec == Init /\ [][Next]_vars

\* Microtasks and timers run, fetchers settle (both outcomes are possible at
\* the same time), time passes.
FairSpec ==
    /\ Spec
    /\ WF_vars(Limiter(Drain)) /\ WF_vars(Tick)
    /\ \A f \in Fetches : WF_vars(Settle(f, TRUE))

-----------------------------------------------------------------------------
(* Properties.                                                             *)

\* No bucket starts more fetches within an interval than it may, and no more
\* run at once, though idle buckets are evicted and cleaned up and start from
\* nothing when they come back.
RatesHold ==
    \A b \in Buckets :
        /\ MaxPerInterval > 0 => Len(recent[b]) <= MaxPerInterval
        /\ MaxConcurrent > 0 =>
             Cardinality({f \in Fetches : task[f] = "running" /\ Bucket(f) = b}) <= MaxConcurrent
               \/ disposed

\* No queued fetch is forgotten, whatever the shared timer was armed for.
QueuedFetchesRun == \A f \in Fetches : task[f] = "queued" ~> task[f] \in {"running", "over"}

\* A breaker opens for nothing but fetchers of its own that ran and failed: a
\* full queue, a full table or a disposed limiter never opens it, however late
\* the fetches that were admitted before end (recordCircuitFailure).  And the
\* failure of another key takes an open breaker out of the full table only if
\* no breaker that is not open stays there (pruneIfNeeded).
BreakersJudgeFetches ==
    [][/\ \A i \in DOMAIN breakers' :
             breakers'[i].failures <=
                Cardinality({f \in failures' : Breaker(f) = breakers'[i].key})
       /\ \A f \in failures' \ failures, b \in Breakers :
             Breaker(f) # b /\ IsOpenIn(breakers, b) /\ ~Holds(breakers', b)
               => \A i \in DOMAIN breakers' : breakers'[i].open]_vars

-----------------------------------------------------------------------------
(* The parts of the inductive invariant of RatesHold.                      *)

Running(b) == {f \in Fetches : task[f] = "running" /\ Bucket(f) = b}

\* What is queued waits in its own bucket, once, and the bucket exists.
QueuesHoldWaiting ==
    \A b \in Buckets :
        /\ queues[b] # << >> => b \in DOMAIN buckets
        /\ \A i \in 1..Len(queues[b]) :
              /\ task[queues[b][i]] = "queued" /\ Bucket(queues[b][i]) = b
              /\ \A j \in 1..Len(queues[b]) : queues[b][i] = queues[b][j] => i = j

\* A bucket counts what runs and remembers the starts that count; nothing runs
\* or counts in a bucket that does not exist.
BucketsKnow ==
    \A b \in Buckets :
        IF b \in DOMAIN buckets
        THEN /\ buckets[b].active = Cardinality(Running(b))
             /\ MaxPerInterval > 0 => recent[b] = Pruned(b)
        ELSE disposed \/ (Running(b) = {} /\ (MaxPerInterval > 0 => recent[b] = << >>))

\* dispose() leaves no bucket behind, and none is created afterwards.
DisposedIsEmpty == disposed => DOMAIN buckets = {}
=============================================================================
