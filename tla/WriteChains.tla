----------------------------- MODULE WriteChains -----------------------------
(***************************************************************************)
(* runSerializedWrites (src/internal/CacheStackMaintenance.ts): a map from *)
(* each key to the tail promise of the last operation admitted on it, and  *)
(* counters that bound what the map may retain.  A tail is named by the    *)
(* operation it belongs to.                                                *)
(*                                                                         *)
(* The finally callback that gives the counters back is registered on the  *)
(* tail before any later operation can wait for it, and reactions of a     *)
(* promise run in the order of registration: an operation starts only      *)
(* after the callbacks of the tails it waits for.  Calls may still arrive  *)
(* between an operation's end and its callback.                            *)
(***************************************************************************)
EXTENDS Naturals, FiniteSets

CONSTANTS
    Keys,
    Ops,
    NoTail,                 \* no entry in writeChains
    MaxPendingWrites,       \* maxPendingWrites, key-write units
    MaxActiveWriteKeys,     \* maxActiveKeys
    MaxPendingWritesPerKey

ASSUME OpsAssumption == NoTail \notin Ops /\ IsFiniteSet(Ops) /\ IsFiniteSet(Keys)
ASSUME LimitsAssumption ==
    /\ MaxPendingWrites \in Nat \ {0}
    /\ MaxActiveWriteKeys \in Nat \ {0}
    /\ MaxPendingWritesPerKey \in Nat \ {0}

VARIABLES
    status,                 \* status[o], see Statuses
    keysOf,                 \* uniqueKeys of the call
    previousTails,          \* previousTails[o]: the tails o waits for
    writeChains,            \* key -> tail
    pendingWritesByKey,     \* key -> operations admitted and not released
    pendingWriteUnits,
    before                  \* history: admitted before o on one of its keys

vars == <<status, keysOf, previousTails, writeChains, pendingWritesByKey,
          pendingWriteUnits, before>>

\* "settled" is between the end of the operation and its finally callback.
Statuses == {"new", "waiting", "running", "settled", "released", "rejected"}

Admitted(o) == status[o] \in {"waiting", "running", "settled", "released"}
Pending(o) == status[o] \in {"waiting", "running", "settled"}

ChainTypeOK ==
    /\ status \in [Ops -> Statuses]
    /\ keysOf \in [Ops -> SUBSET Keys]
    /\ previousTails \in [Ops -> SUBSET Ops]
    /\ writeChains \in [Keys -> Ops \cup {NoTail}]
    /\ before \in [Ops -> SUBSET Ops]

TypeOK ==
    /\ ChainTypeOK
    /\ pendingWritesByKey \in [Keys -> Nat]
    /\ pendingWriteUnits \in Nat

Init ==
    /\ status = [o \in Ops |-> "new"]
    /\ keysOf = [o \in Ops |-> {}]
    /\ previousTails = [o \in Ops |-> {}]
    /\ writeChains = [k \in Keys |-> NoTail]
    /\ pendingWritesByKey = [k \in Keys |-> 0]
    /\ pendingWriteUnits = 0
    /\ before = [o \in Ops |-> {}]

-----------------------------------------------------------------------------
ActiveKeys == {k \in Keys : writeChains[k] # NoTail}

\* The three admission limits; nothing is taken unless all of them allow it.
WithinLimits(K) ==
    /\ pendingWriteUnits + Cardinality(K) <= MaxPendingWrites
    /\ Cardinality(ActiveKeys \cup K) <= MaxActiveWriteKeys
    /\ \A k \in K : pendingWritesByKey[k] + 1 <= MaxPendingWritesPerKey

\* CacheWriteSaturationError: the call throws and leaves no trace.
Reject(o, K) ==
    /\ status[o] = "new"
    /\ ~WithinLimits(K)
    /\ status' = [status EXCEPT ![o] = "rejected"]
    /\ UNCHANGED <<keysOf, previousTails, writeChains, pendingWritesByKey,
                   pendingWriteUnits, before>>

\* The synchronous part of the call: counters, the tails to wait for, and
\* this operation's tail as the new end of the chain of each of its keys.
EnqueueBehind(o, K, tails) ==
    /\ status[o] = "new"
    /\ WithinLimits(K)
    /\ status' = [status EXCEPT ![o] = "waiting"]
    /\ keysOf' = [keysOf EXCEPT ![o] = K]
    /\ previousTails' = [previousTails EXCEPT ![o] = tails]
    /\ writeChains' = [k \in Keys |-> IF k \in K THEN o ELSE writeChains[k]]
    /\ pendingWritesByKey' = [k \in Keys |-> IF k \in K
                                             THEN pendingWritesByKey[k] + 1
                                             ELSE pendingWritesByKey[k]]
    /\ pendingWriteUnits' = pendingWriteUnits + Cardinality(K)
    /\ before' = [before EXCEPT ![o] =
                    {p \in Ops : Admitted(p) /\ keysOf[p] \cap K # {}}]

\* Mutant: only the tail of one of the keys is waited for.
EnqueueOneTail(o, K) ==
    \E k \in K : EnqueueBehind(o, K, {writeChains[k]} \ {NoTail})

\* Mutant: an operation joins the chains of its keys one after the other, and
\* finds the first one of another ahead of it and the last one behind it.
EnqueueKeyByKey(o, K) ==
    LET Joining(p) == status[p] = "waiting" /\ Cardinality(keysOf[p] \cap K) > 1
    IN  /\ status[o] = "new" /\ WithinLimits(K)
        /\ status' = [status EXCEPT ![o] = "waiting"]
        /\ keysOf' = [keysOf EXCEPT ![o] = K]
        /\ previousTails' = [p \in Ops |->
                               IF p = o THEN {writeChains[k] : k \in K} \ {NoTail}
                               ELSE IF Joining(p) THEN previousTails[p] \cup {o} ELSE previousTails[p]]
        /\ writeChains' = [k \in Keys |-> IF k \in K THEN o ELSE writeChains[k]]
        /\ pendingWritesByKey' = [k \in Keys |-> pendingWritesByKey[k] + (IF k \in K THEN 1 ELSE 0)]
        /\ pendingWriteUnits' = pendingWriteUnits + Cardinality(K)
        /\ before' = [before EXCEPT ![o] = {p \in Ops : Admitted(p) /\ keysOf[p] \cap K # {}}]

\* It waits for the last operation on each of its keys.
Enqueue(o, K) == EnqueueBehind(o, K, {writeChains[k] : k \in K} \ {NoTail})

\* Promise.all(previousTails).then(operation)
Start(o) ==
    /\ status[o] = "waiting"
    /\ \A p \in previousTails[o] : status[p] = "released"
    /\ status' = [status EXCEPT ![o] = "running"]
    /\ UNCHANGED <<keysOf, previousTails, writeChains, pendingWritesByKey,
                   pendingWriteUnits, before>>

\* The operation resolves or rejects; its tail resolves in both cases.
End(o) ==
    /\ status[o] = "running"
    /\ status' = [status EXCEPT ![o] = "settled"]
    /\ UNCHANGED <<keysOf, previousTails, writeChains, pendingWritesByKey,
                   pendingWriteUnits, before>>

\* Mutant: a chain is dropped whoever its tail is.
ReleaseAnyTail(o) ==
    /\ status[o] = "settled"
    /\ status' = [status EXCEPT ![o] = "released"]
    /\ pendingWriteUnits' = pendingWriteUnits - Cardinality(keysOf[o])
    /\ pendingWritesByKey' = [k \in Keys |-> IF k \in keysOf[o]
                                             THEN pendingWritesByKey[k] - 1
                                             ELSE pendingWritesByKey[k]]
    /\ writeChains' = [k \in Keys |-> IF k \in keysOf[o] THEN NoTail ELSE writeChains[k]]
    /\ UNCHANGED <<keysOf, previousTails, before>>

\* tail.finally: a chain is dropped only by the operation that is its tail.
Release(o) ==
    /\ status[o] = "settled"
    /\ status' = [status EXCEPT ![o] = "released"]
    /\ pendingWriteUnits' = pendingWriteUnits - Cardinality(keysOf[o])
    /\ pendingWritesByKey' = [k \in Keys |-> IF k \in keysOf[o]
                                             THEN pendingWritesByKey[k] - 1
                                             ELSE pendingWritesByKey[k]]
    /\ writeChains' = [k \in Keys |->
                         IF k \in keysOf[o] /\ writeChains[k] = o
                         THEN NoTail ELSE writeChains[k]]
    /\ UNCHANGED <<keysOf, previousTails, before>>

\* All calls have been made; the process idles, also while some of them wait.
Idle ==
    /\ \A o \in Ops : status[o] # "new"
    /\ UNCHANGED vars

Next ==
    \/ \E o \in Ops :
          \/ \E K \in SUBSET Keys : Enqueue(o, K) \/ Reject(o, K)
          \/ Start(o) \/ End(o) \/ Release(o)
    \/ Idle

Spec == Init /\ [][Next]_vars

\* The event loop runs ready callbacks, and layer operations settle.
Fairness == \A o \in Ops : WF_vars(Start(o) \/ End(o) \/ Release(o))

FairSpec == Spec /\ Fairness

-----------------------------------------------------------------------------
OrderedPhase(o) ==
    CASE status[o] \in {"new", "rejected"} -> "idle"
      [] status[o] = "waiting"             -> "queued"
      [] status[o] = "running"             -> "running"
      [] OTHER                             -> "done"

Ordered == INSTANCE OrderedWrites WITH phase <- [o \in Ops |-> OrderedPhase(o)]

\* The chains keep the promise of OrderedWrites: an operation starts only
\* when everything admitted before it on any of its keys has ended, although
\* it waits for the last tail of each key only, and although a chain is
\* forgotten as soon as its last operation is released.
ImplementsOrderedWrites == Ordered!SpecOrder

\* The retained state is finite: no limit is ever exceeded.
LimitsHold ==
    /\ pendingWriteUnits <= MaxPendingWrites
    /\ Cardinality(ActiveKeys) <= MaxActiveWriteKeys
    /\ \A k \in Keys : pendingWritesByKey[k] <= MaxPendingWritesPerKey

\* The counters are exactly what the pending operations take, the chain of a
\* key is in the map exactly while an operation on it is pending, and so the
\* limits bound what is retained and nothing is retained at rest.
CountersMatch ==
    /\ \A k \in Keys : pendingWritesByKey[k] =
                         Cardinality({o \in Ops : Pending(o) /\ k \in keysOf[o]})
    /\ pendingWriteUnits =
         Cardinality({ok \in Ops \X Keys : Pending(ok[1]) /\ ok[2] \in keysOf[ok[1]]})
    /\ \A k \in Keys : writeChains[k] # NoTail <=> pendingWritesByKey[k] > 0
    /\ LimitsHold

\* Overlapping multi-key operations never wait for each other in a circle:
\* every admitted operation gets its turn and gives its units back.
AdmittedWritesFinish ==
    \A o \in Ops : status[o] = "waiting" ~> status[o] = "released"

-----------------------------------------------------------------------------
\* The inductive invariant behind ImplementsOrderedWrites.  What is before an
\* operation has been admitted ...
BeforeAdmitted ==
    \A o \in Ops : \A p \in before[o] : Admitted(o) /\ Admitted(p) /\ p # o

\* ... the tail of a key is the last operation admitted on it ...
TailIsLast ==
    \A k \in Keys : \A p \in Ops :
        Admitted(p) /\ k \in keysOf[p] =>
            IF writeChains[k] = NoTail THEN status[p] = "released"
            ELSE p = writeChains[k] \/ p \in before[writeChains[k]]

\* ... an operation runs only after everything before it was released ...
RunsAlone ==
    \A o \in Ops : status[o] \in {"running", "settled", "released"} =>
        \A p \in before[o] : status[p] = "released"

\* ... and waiting for the tails is waiting for everything before.
TailsCover ==
    \A o \in Ops : status[o] = "waiting" =>
        \A p \in before[o] :
            \/ status[p] = "released"
            \/ \E t \in previousTails[o] : p = t \/ p \in before[t]

\* And behind CountersMatch: a chain's tail has not been released.
TailIsPending ==
    \A k \in Keys : writeChains[k] # NoTail =>
        Pending(writeChains[k]) /\ k \in keysOf[writeChains[k]]
=============================================================================
