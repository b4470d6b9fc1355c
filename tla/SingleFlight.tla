---------------------------- MODULE SingleFlight -----------------------------
(***************************************************************************)
(* Distributed single-flight: a miss of one key in several processes, each *)
(* of which asks RedisSingleFlightCoordinator for the key's lock before it *)
(* calls its fetcher (fetchWithGuards, waitForFreshValue).  The lock has a *)
(* lease that its owner renews; processes crash, Redis commands time out   *)
(* with or without having taken effect, fetchers fail or hang.             *)
(*                                                                         *)
(* Time is counted in ticks.  Within a process the stampede guard has made *)
(* one task of all calls, so a process makes one call.                     *)
(***************************************************************************)
EXTENDS Naturals, FiniteSets

CONSTANTS
    Processes,
    NoToken,        \* the lock is free
    Lease,          \* singleFlightLeaseMs, in ticks
    RenewInterval,  \* singleFlightRenewIntervalMs
    Timeout,        \* singleFlightTimeoutMs
    Graceful        \* gracefulDegradation is configured: a subset of BOOLEAN

VARIABLES
    lock,       \* the value of the lock's Redis key: a token or NoToken
    lease,      \* ticks until that key expires
    pc, attempt,
    renewIn,    \* ticks until the renewal timer of a worker fires
    deadline,   \* ticks left to wait
    ok,         \* ok[p]: the worker of p succeeded
    value,      \* the shared layer has a fresh value
    degrades    \* the process degrades gracefully

vars == <<lock, lease, pc, attempt, renewIn, deadline, ok, value, degrades>>

Pcs == {"idle", "acquiring", "working", "releasing", "polling", "unlocked",
        "done", "failed", "crashed"}

\* The random token of an execute() is its process and attempt.
Token(p) == <<p, attempt[p]>>

TypeOK ==
    /\ lock \in (Processes \X {1, 2}) \cup {NoToken}
    /\ lease \in 0..Lease /\ (lease = 0 <=> lock = NoToken)
    /\ pc \in [Processes -> Pcs]
    /\ attempt \in [Processes -> {1, 2}]
    /\ renewIn \in [Processes -> 0..RenewInterval]
    /\ deadline \in [Processes -> 0..Timeout]
    /\ ok \in [Processes -> BOOLEAN]
    /\ value \in BOOLEAN /\ degrades \in BOOLEAN

Init ==
    /\ lock = NoToken /\ lease = 0
    /\ pc = [p \in Processes |-> "idle"]
    /\ attempt = [p \in Processes |-> 1]
    /\ renewIn = [p \in Processes |-> 0]
    /\ deadline = [p \in Processes |-> 0]
    /\ ok = [p \in Processes |-> FALSE]
    /\ value = FALSE
    /\ degrades \in Graceful

-----------------------------------------------------------------------------
Goto(p, where) == pc' = [pc EXCEPT ![p] = where]

\* execute() rejected: a degrading stack fetches without the lock.
Rejected(p) == Goto(p, IF degrades THEN "unlocked" ELSE "failed")

\* The initial miss.  It is not confirmed again under the lock.
Start(p) ==
    /\ pc[p] = "idle"
    /\ Goto(p, IF value THEN "done" ELSE "acquiring")
    /\ UNCHANGED <<lock, lease, attempt, renewIn, deadline, ok, value, degrades>>

\* SET NX PX: the winner works and arms its renewal timer; the others wait, in
\* the second round with a deadline that has passed.
Acquire(p) ==
    /\ pc[p] = "acquiring"
    /\ IF lock = NoToken
       THEN /\ lock' = Token(p) /\ lease' = Lease
            /\ renewIn' = [renewIn EXCEPT ![p] = RenewInterval]
            /\ Goto(p, "working")
            /\ UNCHANGED deadline
       ELSE /\ IF attempt[p] = 1
               THEN deadline' = [deadline EXCEPT ![p] = Timeout] /\ Goto(p, "polling")
               ELSE UNCHANGED deadline /\ Rejected(p)
            /\ UNCHANGED <<lock, lease, renewIn>>
    /\ UNCHANGED <<attempt, ok, value, degrades>>

\* The command times out, sent in vain or not.
AcquireFails(p) ==
    /\ pc[p] = "acquiring"
    /\ \/ UNCHANGED <<lock, lease>>
       \/ lock = NoToken /\ lock' = Token(p) /\ lease' = Lease
    /\ Rejected(p)
    /\ UNCHANGED <<attempt, renewIn, deadline, ok, value, degrades>>

\* The worker fetched and stored a value, or failed.
Work(p, success) ==
    /\ pc[p] = "working"
    /\ ok' = [ok EXCEPT ![p] = success]
    /\ value' = (value \/ success)
    /\ Goto(p, "releasing")
    /\ UNCHANGED <<lock, lease, attempt, renewIn, deadline, degrades>>

\* Mutant: any token is deleted.
DropAny(p) == lock' = NoToken /\ lease' = 0

\* RELEASE_SCRIPT: the key is deleted if it still holds this token.
Drop(p) ==
    IF lock = Token(p) THEN lock' = NoToken /\ lease' = 0 ELSE UNCHANGED <<lock, lease>>

Release(p) ==
    /\ pc[p] = "releasing"
    /\ Drop(p)
    /\ IF ok[p] THEN Goto(p, "done") ELSE Rejected(p)
    /\ UNCHANGED <<attempt, renewIn, deadline, ok, value, degrades>>

\* The call rejects then, even though its worker succeeded.
ReleaseFails(p) ==
    /\ pc[p] = "releasing"
    /\ Drop(p) \/ UNCHANGED <<lock, lease>>
    /\ Rejected(p)
    /\ UNCHANGED <<attempt, renewIn, deadline, ok, value, degrades>>

\* RENEW_SCRIPT
Renew(p) ==
    /\ pc[p] = "working" /\ renewIn[p] = 0
    /\ renewIn' = [renewIn EXCEPT ![p] = RenewInterval]
    /\ lease' = IF lock = Token(p) THEN Lease ELSE lease
    /\ UNCHANGED <<lock, pc, attempt, deadline, ok, value, degrades>>

\* A renewal that fails is not repeated before the next interval.
RenewFails(p) ==
    /\ pc[p] = "working" /\ renewIn[p] = 0
    /\ renewIn' = [renewIn EXCEPT ![p] = RenewInterval]
    /\ UNCHANGED <<lock, lease, pc, attempt, deadline, ok, value, degrades>>

\* Mutant: a waiter that finds the lock taken again goes on waiting.
PollAgain(p) ==
    /\ pc[p] = "polling"
    /\ \/ /\ deadline[p] > 0 /\ value
          /\ Goto(p, "done")
       \/ /\ deadline[p] = 0
          /\ Goto(p, "acquiring")
    /\ UNCHANGED <<lock, lease, attempt, renewIn, deadline, ok, value, degrades>>

\* waitForFreshValue: poll until the deadline, then try for the lock once more.
Poll(p) ==
    /\ pc[p] = "polling"
    /\ \/ /\ deadline[p] > 0 /\ value
          /\ Goto(p, "done")
          /\ UNCHANGED attempt
       \/ /\ deadline[p] = 0
          /\ Goto(p, "acquiring")
          /\ attempt' = [attempt EXCEPT ![p] = 2]
    /\ UNCHANGED <<lock, lease, renewIn, deadline, ok, value, degrades>>

\* fetchTask without the lock.
Unlocked(p, success) ==
    /\ pc[p] = "unlocked"
    /\ value' = (value \/ success)
    /\ Goto(p, IF success THEN "done" ELSE "failed")
    /\ UNCHANGED <<lock, lease, attempt, renewIn, deadline, ok, degrades>>

-----------------------------------------------------------------------------
\* Time passes.  Timers fire before it goes on.
Tick ==
    /\ \A p \in Processes : pc[p] = "working" => renewIn[p] > 0
    /\ \/ lease > 0
       \/ \E p \in Processes : pc[p] = "polling" /\ deadline[p] > 0
    /\ lease' = IF lease > 0 THEN lease - 1 ELSE 0
    /\ lock' = IF lease' = 0 THEN NoToken ELSE lock
    /\ renewIn' = [p \in Processes |-> IF pc[p] = "working" THEN renewIn[p] - 1 ELSE renewIn[p]]
    /\ deadline' = [p \in Processes |->
                      IF pc[p] = "polling" /\ deadline[p] > 0 THEN deadline[p] - 1 ELSE deadline[p]]
    /\ UNCHANGED <<pc, attempt, ok, value, degrades>>

\* The stored value expires or is invalidated.
ValueGone ==
    /\ value /\ value' = FALSE
    /\ UNCHANGED <<lock, lease, pc, attempt, renewIn, deadline, ok, degrades>>

Ended(p) == pc[p] \in {"done", "failed", "crashed"}

Crash(p) ==
    /\ pc[p] # "idle" /\ ~Ended(p)
    /\ Goto(p, "crashed")
    /\ UNCHANGED <<lock, lease, attempt, renewIn, deadline, ok, value, degrades>>

Idle == (\A p \in Processes : Ended(p)) /\ UNCHANGED vars

\* A call makes progress; nothing here depends on a fetcher.
Step(p) == Acquire(p) \/ Release(p) \/ Renew(p) \/ Poll(p)

Next ==
    \/ \E p \in Processes :
          \/ Start(p) \/ Step(p) \/ Crash(p)
          \/ AcquireFails(p) \/ ReleaseFails(p) \/ RenewFails(p)
          \/ \E success \in BOOLEAN : Work(p, success) \/ Unlocked(p, success)
    \/ Tick \/ ValueGone \/ Idle

Spec == Init /\ [][Next]_vars

\* Redis answers, timers fire and time passes; fetchers may hang.
FairSpec == Spec /\ WF_vars(Tick) /\ \A p \in Processes : WF_vars(Step(p))

-----------------------------------------------------------------------------
(* Properties.                                                             *)

\* A lock leaves its owner, and its lease grows, only by a command of the
\* owner or by the end of the lease: the late release or renewal of a worker
\* whose lease lapsed spares the lock of the next one (the two scripts).
OthersSpareTheLock ==
    [][lock # NoToken =>
         /\ lock' # lock => lease = 1 \/ pc[lock[1]] = "releasing"
         /\ lease' > lease => \A q \in Processes \ {lock[1]} : renewIn'[q] = renewIn[q]]_vars

\* Nobody waits for ever, though the owner hangs with a renewed lease.
WaitersReturn ==
    \A p \in Processes : pc[p] = "polling" ~> pc[p] \notin {"polling", "acquiring"}
=============================================================================
