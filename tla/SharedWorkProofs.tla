-------------------------- MODULE SharedWorkProofs --------------------------
(***************************************************************************)
(* Of the components that make callers wait for the work of others:        *)
(* WriteChains, SingleFlight and RedisInvalidationBus, for any number of   *)
(* keys, operations, processes and stacks and any limits.  (StampedeGuard  *)
(* is in OneStackProofs.)                                                  *)
(***************************************************************************)
EXTENDS MCSharedWork, FiniteSetTheorems, TLAPS

(***************************************************************************)
(* The chains of tail promises implement OrderedWrites.                    *)
(*                                                                         *)
(* An operation waits for at most one tail per key.  That this is waiting  *)
(* for everything admitted before it rests on three facts that hold        *)
(* together: the tail of a key is the last operation admitted on it, what  *)
(* runs has only released operations before it, and therefore a released   *)
(* tail vouches for all that was before the tail.                          *)
(***************************************************************************)
Inv == ChainTypeOK /\ BeforeAdmitted /\ TailIsLast /\ RunsAlone /\ TailsCover

LEMMA InitInv == Init => Inv
  BY OpsAssumption
  DEF Init, Inv, ChainTypeOK, BeforeAdmitted, TailIsLast, RunsAlone, TailsCover,
      Statuses, Admitted

\* The synchronous part of a call keeps the invariant.
LEMMA EnqueueInv ==
    ASSUME Inv, NEW o \in Ops, NEW K \in SUBSET Keys, Enqueue(o, K)
    PROVE  Inv'
  <1> USE OpsAssumption DEF Statuses, Admitted
  <1>1. /\ status' = [status EXCEPT ![o] = "waiting"]
        /\ keysOf' = [keysOf EXCEPT ![o] = K]
        /\ previousTails' = [previousTails EXCEPT ![o] = {writeChains[k] : k \in K} \ {NoTail}]
        /\ writeChains' = [k \in Keys |-> IF k \in K THEN o ELSE writeChains[k]]
        /\ before' = [before EXCEPT ![o] =
                        {p \in Ops : Admitted(p) /\ keysOf[p] \cap K # {}}]
        /\ status[o] = "new"
    BY DEF Enqueue, EnqueueBehind
  <1>2. ChainTypeOK'
    BY <1>1 DEF Inv, ChainTypeOK
  <1>3. BeforeAdmitted'
    BY <1>1 DEF Inv, ChainTypeOK, BeforeAdmitted
  <1>4. ASSUME NEW k \in Keys, NEW p \in Ops, Admitted(p)', k \in keysOf'[p]
        PROVE  IF writeChains'[k] = NoTail THEN status'[p] = "released"
               ELSE p = writeChains'[k] \/ p \in before'[writeChains'[k]]
    <2>1. CASE k \in K
      BY <1>1, <1>4, <2>1 DEF Inv, ChainTypeOK
    <2>2. CASE k \notin K
      <3>1. p # o /\ Admitted(p) /\ k \in keysOf[p] /\ writeChains'[k] = writeChains[k]
        BY <1>1, <1>4, <2>2 DEF Inv, ChainTypeOK
      <3>2. CASE writeChains[k] = NoTail
        BY <1>1, <3>1, <3>2 DEF Inv, ChainTypeOK, TailIsLast
      <3>3. CASE writeChains[k] # NoTail
        <4>1. p = writeChains[k] \/ p \in before[writeChains[k]]
          BY <3>1, <3>3 DEF Inv, TailIsLast
        <4>2. writeChains[k] \in Ops
          BY <3>3 DEF Inv, ChainTypeOK
        <4>3. writeChains[k] # o
          BY <1>1, <3>1, <4>1, <4>2 DEF Inv, BeforeAdmitted
        <4> QED BY <1>1, <3>1, <3>3, <4>1, <4>2, <4>3 DEF Inv, ChainTypeOK
      <3> QED BY <3>2, <3>3
    <2> QED BY <2>1, <2>2
  <1>5. RunsAlone'
    BY <1>1 DEF Inv, ChainTypeOK, RunsAlone, BeforeAdmitted
  <1>6. ASSUME NEW q \in Ops, status'[q] = "waiting", NEW p \in before'[q]
        PROVE  \/ status'[p] = "released"
               \/ \E t \in previousTails'[q] : p = t \/ p \in before'[t]
    <2>1. CASE q = o
      <3>1. p \in Ops /\ Admitted(p) /\ p # o
        BY <1>1, <1>6, <2>1 DEF Inv, ChainTypeOK
      <3>2. PICK k \in K : k \in keysOf[p]
        BY <1>1, <1>6, <2>1 DEF Inv, ChainTypeOK
      <3>3. CASE writeChains[k] = NoTail
        BY <1>1, <3>1, <3>2, <3>3 DEF Inv, ChainTypeOK, TailIsLast
      <3>4. CASE writeChains[k] # NoTail
        <4>1. p = writeChains[k] \/ p \in before[writeChains[k]]
          BY <3>1, <3>2, <3>4 DEF Inv, TailIsLast
        <4>2. writeChains[k] \in Ops /\ writeChains[k] \in previousTails'[o]
          BY <1>1, <3>2, <3>4 DEF Inv, ChainTypeOK
        <4>3. writeChains[k] # o
          BY <1>1, <3>1, <4>1, <4>2 DEF Inv, BeforeAdmitted
        <4> QED BY <1>1, <2>1, <4>1, <4>2, <4>3 DEF Inv, ChainTypeOK
      <3> QED BY <3>3, <3>4
    <2>2. CASE q # o
      <3>1. status[q] = "waiting" /\ p \in before[q] /\ previousTails'[q] = previousTails[q]
        BY <1>1, <1>6, <2>2 DEF Inv, ChainTypeOK
      <3>2. p \in Ops /\ p # o
        BY <1>1, <3>1 DEF Inv, ChainTypeOK, BeforeAdmitted
      <3>3. CASE status[p] = "released"
        BY <1>1, <3>2, <3>3 DEF Inv, ChainTypeOK
      <3>4. CASE status[p] # "released"
        <4>1. PICK t \in previousTails[q] : p = t \/ p \in before[t]
          BY <3>1, <3>4 DEF Inv, TailsCover
        <4>2. t \in Ops /\ t # o
          BY <1>1, <3>2, <4>1 DEF Inv, ChainTypeOK, BeforeAdmitted
        <4> QED BY <1>1, <3>1, <4>1, <4>2 DEF Inv, ChainTypeOK
      <3> QED BY <3>3, <3>4
    <2> QED BY <2>1, <2>2
  <1> HIDE DEF Admitted
  <1>7. TailIsLast'
    BY <1>4 DEF TailIsLast
  <1>8. TailsCover'
    BY <1>6 DEF TailsCover
  <1> QED BY <1>2, <1>3, <1>5, <1>7, <1>8 DEF Inv

\* So does the end of the wait: the tails vouch for all that is before.
LEMMA StartInv ==
    ASSUME Inv, NEW o \in Ops, Start(o)
    PROVE  Inv' /\ \A p \in before[o] : status[p] = "released"
  <1> USE DEF Statuses, Admitted
  <1>1. /\ status[o] = "waiting" /\ status' = [status EXCEPT ![o] = "running"]
        /\ \A p \in previousTails[o] : status[p] = "released"
        /\ UNCHANGED <<keysOf, previousTails, writeChains, before>>
    BY DEF Start
  <1>2. ASSUME NEW p \in before[o] PROVE status[p] = "released"
    <2>1. CASE \E t \in previousTails[o] : p = t \/ p \in before[t]
      BY <1>1, <2>1 DEF Inv, ChainTypeOK, RunsAlone
    <2> QED BY <1>1, <2>1 DEF Inv, TailsCover
  <1>3. ChainTypeOK' /\ BeforeAdmitted'
    BY <1>1 DEF Inv, ChainTypeOK, BeforeAdmitted
  <1>4. \A p \in Ops : status[p] = "released" <=> status'[p] = "released"
    BY <1>1 DEF Inv, ChainTypeOK
  <1>5. TailIsLast'
    BY <1>1, <1>4 DEF Inv, ChainTypeOK, TailIsLast
  <1>6. RunsAlone'
    BY <1>1, <1>2, <1>4 DEF Inv, ChainTypeOK, RunsAlone
  <1>7. TailsCover'
    BY <1>1, <1>4 DEF Inv, ChainTypeOK, TailsCover
  <1> QED BY <1>2, <1>3, <1>5, <1>6, <1>7 DEF Inv

LEMMA EndInv == ASSUME Inv, NEW o \in Ops, End(o) PROVE Inv'
  <1> USE DEF Statuses, Admitted
  <1>1. /\ status[o] = "running" /\ status' = [status EXCEPT ![o] = "settled"]
        /\ UNCHANGED <<keysOf, previousTails, writeChains, before>>
    BY DEF End
  <1>2. \A p \in Ops : status[p] = "released" <=> status'[p] = "released"
    BY <1>1 DEF Inv, ChainTypeOK
  <1>3. ChainTypeOK' /\ BeforeAdmitted'
    BY <1>1 DEF Inv, ChainTypeOK, BeforeAdmitted
  <1>4. TailIsLast' /\ RunsAlone'
    BY <1>1, <1>2 DEF Inv, ChainTypeOK, TailIsLast, RunsAlone
  <1>5. TailsCover'
    BY <1>1, <1>2 DEF Inv, ChainTypeOK, TailsCover
  <1> QED BY <1>3, <1>4, <1>5 DEF Inv

\* A chain is forgotten by its last operation only, when all are released.
LEMMA ReleaseInv == ASSUME Inv, NEW o \in Ops, Release(o) PROVE Inv'
  <1> USE OpsAssumption DEF Statuses, Admitted
  <1>1. /\ status[o] = "settled" /\ status' = [status EXCEPT ![o] = "released"]
        /\ writeChains' = [k \in Keys |-> IF k \in keysOf[o] /\ writeChains[k] = o
                                          THEN NoTail ELSE writeChains[k]]
        /\ UNCHANGED <<keysOf, previousTails, before>>
    BY DEF Release
  <1>2. \A p \in Ops : /\ status[p] = "released" => status'[p] = "released"
                       /\ status'[p] = "released" => status[p] = "released" \/ p = o
                       /\ status'[p] # "released" => status'[p] = status[p]
    BY <1>1 DEF Inv, ChainTypeOK
  <1>3. ChainTypeOK' /\ BeforeAdmitted'
    BY <1>1 DEF Inv, ChainTypeOK, BeforeAdmitted
  <1>4. ASSUME NEW k \in Keys, NEW p \in Ops, Admitted(p)', k \in keysOf'[p]
        PROVE  IF writeChains'[k] = NoTail THEN status'[p] = "released"
               ELSE p = writeChains'[k] \/ p \in before'[writeChains'[k]]
    <2>1. Admitted(p) /\ k \in keysOf[p]
      BY <1>1, <1>4 DEF Inv, ChainTypeOK
    <2>2. CASE writeChains[k] = o /\ k \in keysOf[o]
      <3>1. p = o \/ p \in before[o]
        BY <2>1, <2>2 DEF Inv, TailIsLast
      <3> QED BY <1>1, <1>2, <2>2, <3>1 DEF Inv, RunsAlone, ChainTypeOK
    <2>3. CASE ~(writeChains[k] = o /\ k \in keysOf[o])
      <3>1. writeChains'[k] = writeChains[k]
        BY <1>1, <2>3
      <3> QED BY <1>1, <1>2, <2>1, <3>1 DEF Inv, TailIsLast
    <2> QED BY <2>2, <2>3
  <1>5. RunsAlone'
    BY <1>1, <1>2 DEF Inv, ChainTypeOK, RunsAlone
  <1>6. TailsCover'
    BY <1>1, <1>2 DEF Inv, ChainTypeOK, TailsCover
  <1>7. TailIsLast'
    <2> HIDE DEF Admitted
    <2> QED BY <1>4 DEF TailIsLast
  <1> QED BY <1>3, <1>5, <1>6, <1>7 DEF Inv

LEMMA RejectInv ==
    ASSUME Inv, NEW o \in Ops, NEW K \in SUBSET Keys, Reject(o, K)
    PROVE  Inv'
  <1> USE DEF Statuses, Admitted
  <1>1. /\ status[o] = "new" /\ status' = [status EXCEPT ![o] = "rejected"]
        /\ UNCHANGED <<keysOf, previousTails, writeChains, before>>
    BY DEF Reject
  <1>2. \A p \in Ops : /\ status[p] = "released" <=> status'[p] = "released"
                       /\ status'[p] # "rejected" => status'[p] = status[p]
    BY <1>1 DEF Inv, ChainTypeOK
  <1>3. ChainTypeOK' /\ BeforeAdmitted'
    BY <1>1 DEF Inv, ChainTypeOK, BeforeAdmitted
  <1>4. TailIsLast' /\ RunsAlone'
    BY <1>1, <1>2 DEF Inv, ChainTypeOK, TailIsLast, RunsAlone
  <1>5. TailsCover'
    BY <1>1, <1>2 DEF Inv, ChainTypeOK, TailsCover
  <1> QED BY <1>3, <1>4, <1>5 DEF Inv

LEMMA NextInv == Inv /\ [Next]_vars => Inv'
  <1> SUFFICES ASSUME Inv, [Next]_vars PROVE Inv'
    OBVIOUS
  <1>1. CASE UNCHANGED vars
    BY <1>1 DEF vars, Inv, ChainTypeOK, BeforeAdmitted, TailIsLast, RunsAlone, TailsCover, Admitted
  <1>2. CASE Idle
    BY <1>1, <1>2 DEF Idle
  <1> QED BY <1>1, <1>2, EnqueueInv, RejectInv, StartInv, EndInv, ReleaseInv DEF Next

-----------------------------------------------------------------------------
\* The chains of runSerializedWrites keep the promise of OrderedWrites.
THEOREM ChainsOrderWrites == Spec => ImplementsOrderedWrites
  <1> DEFINE ph == [o \in Ops |-> OrderedPhase(o)]
  <1>1. Init => Ordered!InitOrder
    BY DEF Init, Ordered!InitOrder, OrderedPhase
  <1>2. Inv /\ Inv' /\ [Next]_vars => [Ordered!NextOrder]_(Ordered!orderVars)
    <2> SUFFICES ASSUME Inv, Inv', [Next]_vars
                 PROVE  Ordered!NextOrder \/ UNCHANGED Ordered!orderVars
      OBVIOUS
    <2> USE DEF Statuses
    <2>t. status \in [Ops -> Statuses] /\ status' \in [Ops -> Statuses]
      BY DEF Inv, ChainTypeOK
    <2>1. ASSUME NEW o \in Ops, NEW K \in SUBSET Keys, Enqueue(o, K)
          PROVE  Ordered!Admit(o, K)
      <3>1. /\ status[o] = "new" /\ status' = [status EXCEPT ![o] = "waiting"]
            /\ keysOf' = [keysOf EXCEPT ![o] = K]
            /\ before' = [before EXCEPT ![o] =
                            {p \in Ops : Admitted(p) /\ keysOf[p] \cap K # {}}]
        BY <2>1 DEF Enqueue, EnqueueBehind
      <3>2. ph[o] = "idle" /\ ph' = [ph EXCEPT ![o] = "queued"]
        BY <2>t, <3>1 DEF OrderedPhase
      <3>3. \A p \in Ops : Admitted(p) <=> ph[p] # "idle"
        BY <2>t DEF OrderedPhase, Admitted
      <3> QED BY <3>1, <3>2, <3>3 DEF Ordered!Admit
    <2>2. ASSUME NEW o \in Ops, Start(o) PROVE Ordered!Begin(o)
      <3>1. /\ status[o] = "waiting" /\ status' = [status EXCEPT ![o] = "running"]
            /\ UNCHANGED <<keysOf, before>>
        BY <2>2 DEF Start
      <3>2. ph[o] = "queued" /\ ph' = [ph EXCEPT ![o] = "running"]
        BY <2>t, <3>1 DEF OrderedPhase
      <3>3. \A p \in before[o] : p \in Ops /\ ph[p] = "done"
        BY <2>2, StartInv DEF OrderedPhase, Inv, ChainTypeOK
      <3> QED BY <3>1, <3>2, <3>3 DEF Ordered!Begin, Ordered!MyTurn
    <2>3. ASSUME NEW o \in Ops, End(o) PROVE Ordered!Settle(o)
      <3>1. /\ status[o] = "running" /\ status' = [status EXCEPT ![o] = "settled"]
            /\ UNCHANGED <<keysOf, before>>
        BY <2>3 DEF End
      <3>2. ph[o] = "running" /\ ph' = [ph EXCEPT ![o] = "done"]
        BY <2>t, <3>1 DEF OrderedPhase
      <3> QED BY <3>1, <3>2 DEF Ordered!Settle
    <2>4. ASSUME NEW o \in Ops,
                 Release(o) \/ \E K \in SUBSET Keys : Reject(o, K)
          PROVE  UNCHANGED Ordered!orderVars
      <3>1. ph' = ph
        BY <2>t, <2>4 DEF Release, Reject, OrderedPhase
      <3> QED BY <2>4, <3>1 DEF Release, Reject, Ordered!orderVars
    <2>5. CASE UNCHANGED vars \/ Idle
      BY <2>5 DEF vars, Idle, Ordered!orderVars, OrderedPhase
    <2> QED BY <2>1, <2>2, <2>3, <2>4, <2>5 DEF Next, Ordered!NextOrder
  <1> QED BY <1>1, <1>2, InitInv, NextInv, PTL DEF Spec, ImplementsOrderedWrites, Ordered!SpecOrder

-----------------------------------------------------------------------------
(* The counters.                                                           *)

PendingOn(k) == {o \in Ops : Pending(o) /\ k \in keysOf[o]}
PendingPairs == {pair \in Ops \X Keys : Pending(pair[1]) /\ pair[2] \in keysOf[pair[1]]}

CountsAre ==
    /\ pendingWritesByKey \in [Keys -> Nat]
    /\ pendingWriteUnits \in Nat
    /\ \A k \in Keys : pendingWritesByKey[k] = Cardinality(PendingOn(k))
    /\ pendingWriteUnits = Cardinality(PendingPairs)

CountInv == Inv /\ CountsAre /\ TailIsPending /\ LimitsHold

LEMMA PendingFinite ==
    /\ \A k \in Keys : IsFiniteSet(PendingOn(k))
    /\ IsFiniteSet(PendingPairs)
  <1>1. ASSUME NEW k \in Keys PROVE IsFiniteSet(PendingOn(k))
    <2>1. PendingOn(k) \in SUBSET Ops
      BY DEF PendingOn
    <2> QED BY <2>1, OpsAssumption, FS_Subset
  <1>2. PendingPairs \in SUBSET (Ops \X Keys)
    BY DEF PendingPairs
  <1>3. IsFiniteSet(Ops \X Keys)
    BY OpsAssumption, FS_Product
  <1> QED BY <1>1, <1>2, <1>3, FS_Subset

\* The units of one call: as many as its keys.
LEMMA UnitsOfOne ==
    ASSUME NEW o \in Ops, NEW K \in SUBSET Keys
    PROVE  /\ IsFiniteSet({o} \X K)
           /\ Cardinality({o} \X K) = Cardinality(K) /\ Cardinality(K) \in Nat
  <1>1. IsFiniteSet(K) /\ Cardinality(K) \in Nat
    BY OpsAssumption, FS_Subset, FS_CardinalityType
  <1>2. IsFiniteSet({o}) /\ Cardinality({o}) = 1
    BY FS_Singleton
  <1>3. IsFiniteSet({o} \X K) /\ Cardinality({o} \X K) = Cardinality({o}) * Cardinality(K)
    BY <1>1, <1>2, FS_Product
  <1> QED BY <1>1, <1>2, <1>3

LEMMA EnqueueCounts ==
    ASSUME CountInv, NEW o \in Ops, NEW K \in SUBSET Keys, Enqueue(o, K)
    PROVE  CountsAre' /\ TailIsPending' /\ LimitsHold'
  <1>1. /\ status[o] = "new" /\ status' = [status EXCEPT ![o] = "waiting"]
        /\ WithinLimits(K)
        /\ keysOf' = [keysOf EXCEPT ![o] = K]
        /\ writeChains' = [k \in Keys |-> IF k \in K THEN o ELSE writeChains[k]]
        /\ pendingWritesByKey' = [k \in Keys |-> IF k \in K THEN pendingWritesByKey[k] + 1
                                                 ELSE pendingWritesByKey[k]]
        /\ pendingWriteUnits' = pendingWriteUnits + Cardinality(K)
    BY DEF Enqueue, EnqueueBehind
  <1>2. status \in [Ops -> Statuses] /\ keysOf \in [Ops -> SUBSET Keys]
    BY DEF CountInv, Inv, ChainTypeOK
  <1>3. /\ ~Pending(o) /\ Pending(o)' /\ keysOf'[o] = K
        /\ \A p \in Ops : p # o => keysOf'[p] = keysOf[p] /\ (Pending(p)' <=> Pending(p))
    BY <1>1, <1>2 DEF Pending
  <1> HIDE DEF Pending
  <1>4. ASSUME NEW k \in Keys PROVE pendingWritesByKey'[k] = Cardinality(PendingOn(k)')
    <2>1. CASE k \in K
      <3>1. PendingOn(k)' = PendingOn(k) \cup {o} /\ o \notin PendingOn(k)
        BY <1>3, <2>1 DEF PendingOn
      <3>2. Cardinality(PendingOn(k) \cup {o}) = Cardinality(PendingOn(k)) + 1
        BY <3>1, PendingFinite, FS_AddElement
      <3> QED BY <1>1, <2>1, <3>1, <3>2 DEF CountInv, CountsAre
    <2>2. CASE k \notin K
      <3>1. PendingOn(k)' = PendingOn(k)
        BY <1>3, <2>2 DEF PendingOn
      <3> QED BY <1>1, <2>2, <3>1 DEF CountInv, CountsAre
    <2> QED BY <2>1, <2>2
  <1>5. pendingWriteUnits' = Cardinality(PendingPairs')
    <2>1. PendingPairs' = PendingPairs \cup ({o} \X K) /\ PendingPairs \cap ({o} \X K) = {}
      BY <1>3 DEF PendingPairs
    <2>2. Cardinality(PendingPairs \cup ({o} \X K)) =
            Cardinality(PendingPairs) + Cardinality({o} \X K) - Cardinality(PendingPairs \cap ({o} \X K))
      BY PendingFinite, UnitsOfOne, FS_Union
    <2>3. Cardinality(PendingPairs \cap ({o} \X K)) = 0
      BY <2>1, FS_EmptySet
    <2>4. pendingWriteUnits = Cardinality(PendingPairs) /\ pendingWriteUnits \in Nat
      BY DEF CountInv, CountsAre
    <2>5. Cardinality({o} \X K) = Cardinality(K) /\ Cardinality(K) \in Nat
      BY UnitsOfOne
    <2>6. Cardinality(PendingPairs \cup ({o} \X K)) = pendingWriteUnits + Cardinality(K)
      BY <2>2, <2>3, <2>4, <2>5
    <2> QED BY <1>1, <2>1, <2>6
  <1>6. CountsAre'
    <2>1. /\ pendingWritesByKey \in [Keys -> Nat] /\ pendingWriteUnits \in Nat
          /\ Cardinality(K) \in Nat
      BY UnitsOfOne DEF CountInv, CountsAre
    <2>2. pendingWritesByKey' \in [Keys -> Nat] /\ pendingWriteUnits' \in Nat
      BY <1>1, <2>1
    <2> QED BY <1>4, <1>5, <2>2 DEF CountsAre
  <1>7. TailIsPending'
    BY <1>1, <1>3 DEF CountInv, Inv, ChainTypeOK, TailIsPending
  <1>8. ActiveKeys' = ActiveKeys \cup K
    BY <1>1, OpsAssumption DEF ActiveKeys
  <1>9. LimitsHold'
    BY <1>1, <1>8 DEF WithinLimits, LimitsHold, CountInv
  <1> QED BY <1>6, <1>7, <1>9

\* Start and End move an operation within the pending ones.
LEMMA SamePendingCounts ==
    ASSUME CountInv, \A p \in Ops : Pending(p)' <=> Pending(p),
           UNCHANGED <<keysOf, writeChains, pendingWritesByKey, pendingWriteUnits>>
    PROVE  CountsAre' /\ TailIsPending' /\ LimitsHold'
  <1> USE DEF CountInv, CountsAre
  <1>1. \A k \in Keys : PendingOn(k)' = PendingOn(k)
    BY DEF PendingOn
  <1>2. PendingPairs' = PendingPairs
    BY DEF PendingPairs
  <1>3. CountsAre'
    BY <1>1, <1>2
  <1>4. TailIsPending'
    BY DEF TailIsPending, Inv, ChainTypeOK
  <1>5. ActiveKeys' = ActiveKeys
    BY DEF ActiveKeys
  <1> QED BY <1>3, <1>4, <1>5 DEF LimitsHold

LEMMA ReleaseCounts ==
    ASSUME CountInv, NEW o \in Ops, Release(o)
    PROVE  CountsAre' /\ TailIsPending' /\ LimitsHold'
  <1>1. /\ status[o] = "settled" /\ status' = [status EXCEPT ![o] = "released"]
        /\ pendingWriteUnits' = pendingWriteUnits - Cardinality(keysOf[o])
        /\ pendingWritesByKey' = [k \in Keys |-> IF k \in keysOf[o]
                                                 THEN pendingWritesByKey[k] - 1
                                                 ELSE pendingWritesByKey[k]]
        /\ writeChains' = [k \in Keys |->
                             IF k \in keysOf[o] /\ writeChains[k] = o
                             THEN NoTail ELSE writeChains[k]]
        /\ keysOf' = keysOf
    BY DEF Release
  <1>2. status \in [Ops -> Statuses] /\ keysOf \in [Ops -> SUBSET Keys]
    BY DEF CountInv, Inv, ChainTypeOK
  <1>3. /\ Pending(o) /\ ~Pending(o)'
        /\ \A p \in Ops : p # o => (Pending(p)' <=> Pending(p))
    BY <1>1, <1>2 DEF Pending
  <1> HIDE DEF Pending
  <1>4. ASSUME NEW k \in Keys
        PROVE  /\ pendingWritesByKey'[k] = Cardinality(PendingOn(k)')
               /\ pendingWritesByKey'[k] \in Nat
               /\ pendingWritesByKey'[k] <= pendingWritesByKey[k]
    <2>0. pendingWritesByKey[k] = Cardinality(PendingOn(k)) /\ pendingWritesByKey[k] \in Nat
      BY DEF CountInv, CountsAre
    <2>1. PendingOn(k)' = PendingOn(k) \ {o} /\ (o \in PendingOn(k) <=> k \in keysOf[o])
      BY <1>1, <1>3 DEF PendingOn
    <2>2. /\ IsFiniteSet(PendingOn(k) \ {o})
          /\ Cardinality(PendingOn(k) \ {o}) =
               IF o \in PendingOn(k) THEN Cardinality(PendingOn(k)) - 1
               ELSE Cardinality(PendingOn(k))
      BY PendingFinite, FS_RemoveElement
    <2>3. Cardinality(PendingOn(k) \ {o}) \in Nat
      BY <2>2, FS_CardinalityType
    <2> QED BY <1>1, <2>0, <2>1, <2>2, <2>3
  <1>5. /\ pendingWriteUnits' = Cardinality(PendingPairs')
        /\ pendingWriteUnits' \in Nat /\ pendingWriteUnits' <= pendingWriteUnits
    <2> DEFINE units == {o} \X keysOf[o]
    <2>0. keysOf[o] \in SUBSET Keys
      BY <1>2
    <2>1. PendingPairs' = PendingPairs \ units /\ PendingPairs \cap units = units
      BY <1>1, <1>3, <2>0 DEF PendingPairs
    <2>2. IsFiniteSet(units) /\ Cardinality(units) = Cardinality(keysOf[o]) /\ Cardinality(keysOf[o]) \in Nat
      BY <2>0, UnitsOfOne
    <2>3. /\ IsFiniteSet(PendingPairs \ units)
          /\ Cardinality(PendingPairs \ units) =
               Cardinality(PendingPairs) - Cardinality(PendingPairs \cap units)
      BY PendingFinite, FS_Difference
    <2>4. Cardinality(PendingPairs \ units) \in Nat
      BY <2>3, FS_CardinalityType
    <2>5. pendingWriteUnits = Cardinality(PendingPairs) /\ pendingWriteUnits \in Nat
      BY DEF CountInv, CountsAre
    <2> HIDE DEF units
    <2>6. Cardinality(PendingPairs \ units) = pendingWriteUnits - Cardinality(keysOf[o])
      BY <2>1, <2>2, <2>3, <2>5
    <2>7. pendingWriteUnits' = Cardinality(PendingPairs \ units)
      BY <1>1, <2>6
    <2> QED BY <2>1, <2>2, <2>4, <2>5, <2>6, <2>7
  <1>6. CountsAre'
    BY <1>1, <1>4, <1>5 DEF CountsAre
  <1>7. TailIsPending'
    BY <1>1, <1>3 DEF CountInv, Inv, ChainTypeOK, TailIsPending
  <1>8. Cardinality(ActiveKeys') <= Cardinality(ActiveKeys)
    <2>1. ActiveKeys' \in SUBSET ActiveKeys
      BY <1>1 DEF ActiveKeys
    <2>2. IsFiniteSet(ActiveKeys)
      BY OpsAssumption, FS_Subset DEF ActiveKeys
    <2> QED BY <2>1, <2>2, FS_Subset
  <1>9. IsFiniteSet(ActiveKeys) /\ IsFiniteSet(ActiveKeys')
    BY OpsAssumption, FS_Subset DEF ActiveKeys
  <1>10. Cardinality(ActiveKeys) \in Nat /\ Cardinality(ActiveKeys') \in Nat
    BY <1>9, FS_CardinalityType
  <1>11. LimitsHold'
    <2>1. /\ pendingWriteUnits <= MaxPendingWrites /\ pendingWriteUnits \in Nat
          /\ Cardinality(ActiveKeys) <= MaxActiveWriteKeys
          /\ \A k \in Keys : /\ pendingWritesByKey[k] <= MaxPendingWritesPerKey
                              /\ pendingWritesByKey[k] \in Nat
      BY DEF CountInv, CountsAre, LimitsHold
    <2> QED BY <1>4, <1>5, <1>8, <1>10, <2>1, LimitsAssumption DEF LimitsHold
  <1> QED BY <1>6, <1>7, <1>11

LEMMA CountInvHolds == Spec => []CountInv
  <1>1. Init => CountInv
    <2> SUFFICES ASSUME Init PROVE CountInv
      OBVIOUS
    <2>1. /\ pendingWritesByKey = [k \in Keys |-> 0] /\ pendingWriteUnits = 0
          /\ writeChains = [k \in Keys |-> NoTail] /\ status = [o \in Ops |-> "new"]
      BY DEF Init
    <2>5. /\ \A k \in Keys : Cardinality(PendingOn(k)) = 0
          /\ Cardinality(PendingPairs) = 0 /\ Cardinality(ActiveKeys) = 0
      <3>1. (\A k \in Keys : PendingOn(k) = {}) /\ PendingPairs = {} /\ ActiveKeys = {}
        BY <2>1 DEF PendingOn, PendingPairs, Pending, ActiveKeys
      <3> QED BY <3>1, FS_EmptySet
    <2>2. CountsAre
      BY <2>1, <2>5 DEF CountsAre
    <2>3. TailIsPending
      BY <2>1 DEF TailIsPending
    <2>4. LimitsHold
      BY <2>1, <2>5, LimitsAssumption DEF LimitsHold
    <2> QED BY <2>2, <2>3, <2>4, InitInv DEF CountInv
  <1>2. CountInv /\ [Next]_vars => CountInv'
    <2> SUFFICES ASSUME CountInv, [Next]_vars PROVE CountInv'
      OBVIOUS
    <2>0. Inv'
      BY NextInv DEF CountInv
    <2>1. ASSUME NEW o \in Ops, Start(o) \/ End(o) \/ \E K \in SUBSET Keys : Reject(o, K)
          PROVE  CountsAre' /\ TailIsPending' /\ LimitsHold'
      <3>1. \A p \in Ops : Pending(p)' <=> Pending(p)
        BY <2>1 DEF Start, End, Reject, Pending, CountInv, Inv, ChainTypeOK
      <3> QED BY <2>1, <3>1, SamePendingCounts DEF Start, End, Reject
    <2>2. CASE UNCHANGED vars \/ Idle
      <3>1. \A p \in Ops : Pending(p)' <=> Pending(p)
        BY <2>2 DEF Idle, vars, Pending
      <3>2. CountsAre' /\ TailIsPending' /\ LimitsHold'
        BY <2>2, <3>1, SamePendingCounts DEF Idle, vars
      <3> QED BY <2>0, <3>2 DEF CountInv
    <2>3. ASSUME Next PROVE CountsAre' /\ TailIsPending' /\ LimitsHold'
      BY <2>1, <2>2, <2>3, EnqueueCounts, ReleaseCounts DEF Next, CountInv
    <2> QED BY <2>0, <2>2, <2>3 DEF CountInv
  <1> QED BY <1>1, <1>2, PTL DEF Spec

\* The counters of runSerializedWrites are what the pending operations take, a
\* key is in the map exactly while an operation on it is pending, and no limit
\* is exceeded: nothing is retained at rest.
THEOREM CountersExact == Spec => []CountersMatch
  <1>1. CountInv => CountersMatch
    <2> SUFFICES ASSUME CountInv PROVE CountersMatch
      OBVIOUS
    <2>1. ASSUME NEW k \in Keys PROVE writeChains[k] # NoTail <=> pendingWritesByKey[k] > 0
      <3>1. pendingWritesByKey[k] = Cardinality(PendingOn(k)) /\ pendingWritesByKey[k] \in Nat
        BY DEF CountInv, CountsAre
      <3>2. pendingWritesByKey[k] > 0 <=> PendingOn(k) # {}
        BY <3>1, PendingFinite, FS_EmptySet
      <3>3. writeChains[k] # NoTail => writeChains[k] \in PendingOn(k)
        BY DEF CountInv, Inv, ChainTypeOK, TailIsPending, PendingOn
      <3>4. ASSUME NEW p \in PendingOn(k) PROVE writeChains[k] # NoTail
        BY <3>4 DEF CountInv, Inv, TailIsLast, PendingOn, Pending, Admitted
      <3> QED BY <3>2, <3>3, <3>4
    <2> QED BY <2>1 DEF CountInv, CountsAre, CountersMatch, PendingOn, PendingPairs
  <1> QED BY <1>1, CountInvHolds, PTL

-----------------------------------------------------------------------------
(***************************************************************************)
(* SingleFlight.  That the locks are spared needs only the types, in which *)
(* a lock is the token of one attempt of one process.  That there is one   *)
(* worker needs a race won: between two renewals the lease cannot run out. *)
(***************************************************************************)
USE DEF Flight!Token

LEMMA FlightInit == Flight!Init => Flight!TypeOK
  <1> SUFFICES ASSUME Flight!Init PROVE Flight!TypeOK
    OBVIOUS
  <1>1. 0 \in 0..Lease /\ 0 \in 0..RenewInterval /\ 0 \in 0..Timeout
    BY LeaseAssumption, TimeoutAssumption
  <1> QED BY <1>1, GracefulAssumption DEF Flight!Init, Flight!TypeOK, Flight!Pcs

\* A command of an owner leaves a lock of some process and attempt, or none.
LEMMA FlightLocks ==
    ASSUME Flight!TypeOK, NEW p \in Processes,
           \/ lock' = lock /\ lease' = lease
           \/ lock' = Flight!Token(p) /\ lease' = Lease
           \/ lock' = NoToken /\ lease' = 0
    PROVE  lock' \in (Processes \X {1, 2}) \cup {NoToken} /\ lease' \in 0..Lease /\ (lease' = 0 <=> lock' = NoToken)
  BY LeaseAssumption, NoTokenAssumption DEF Flight!TypeOK

LEMMA FlightNext == Flight!TypeOK /\ [Flight!Next]_(Flight!vars) => Flight!TypeOK'
  <1> SUFFICES ASSUME Flight!TypeOK, [Flight!Next]_(Flight!vars) PROVE Flight!TypeOK'
    OBVIOUS
  <1>1. ASSUME NEW p \in Processes, Flight!Start(p) PROVE Flight!TypeOK'
    BY <1>1 DEF Flight!Start, Flight!TypeOK, Flight!Goto, Flight!Pcs
  <1>2. ASSUME NEW p \in Processes, Flight!Acquire(p) PROVE Flight!TypeOK'
    <2>1. lock' \in (Processes \X {1, 2}) \cup {NoToken} /\ lease' \in 0..Lease /\ (lease' = 0 <=> lock' = NoToken)
      BY <1>2, FlightLocks DEF Flight!Acquire
    <2> QED BY <1>2, <2>1, LeaseAssumption, TimeoutAssumption DEF Flight!Acquire, Flight!Rejected, Flight!TypeOK, Flight!Goto, Flight!Pcs
  <1>3. ASSUME NEW p \in Processes, Flight!AcquireFails(p) PROVE Flight!TypeOK'
    <2>1. lock' \in (Processes \X {1, 2}) \cup {NoToken} /\ lease' \in 0..Lease /\ (lease' = 0 <=> lock' = NoToken)
      BY <1>3, FlightLocks DEF Flight!AcquireFails
    <2> QED BY <1>3, <2>1 DEF Flight!AcquireFails, Flight!Rejected, Flight!TypeOK, Flight!Goto, Flight!Pcs
  <1>4. ASSUME NEW p \in Processes, NEW success \in BOOLEAN, Flight!Work(p, success) \/ Flight!Unlocked(p, success)
        PROVE Flight!TypeOK'
    BY <1>4 DEF Flight!Work, Flight!Unlocked, Flight!TypeOK, Flight!Goto, Flight!Pcs
  <1>5. ASSUME NEW p \in Processes, Flight!Release(p) \/ Flight!ReleaseFails(p) PROVE Flight!TypeOK'
    <2>1. lock' \in (Processes \X {1, 2}) \cup {NoToken} /\ lease' \in 0..Lease /\ (lease' = 0 <=> lock' = NoToken)
      BY <1>5, FlightLocks DEF Flight!Release, Flight!ReleaseFails, Flight!Drop
    <2> QED BY <1>5, <2>1 DEF Flight!Release, Flight!ReleaseFails, Flight!Rejected, Flight!TypeOK, Flight!Goto, Flight!Pcs
  <1>6. ASSUME NEW p \in Processes, Flight!Renew(p) \/ Flight!RenewFails(p) PROVE Flight!TypeOK'
    <2>1. lock' = lock /\ lease' \in {lease, Lease} /\ (lease' # lease => lock = Flight!Token(p))
      BY <1>6 DEF Flight!Renew, Flight!RenewFails
    <2>2. lock' \in (Processes \X {1, 2}) \cup {NoToken} /\ lease' \in 0..Lease /\ (lease' = 0 <=> lock' = NoToken)
      BY <2>1, LeaseAssumption, NoTokenAssumption DEF Flight!TypeOK
    <2> QED BY <1>6, <2>2, LeaseAssumption DEF Flight!Renew, Flight!RenewFails, Flight!TypeOK
  <1>7. ASSUME NEW p \in Processes, Flight!Poll(p) \/ Flight!Crash(p) PROVE Flight!TypeOK'
    BY <1>7 DEF Flight!Poll, Flight!Crash, Flight!TypeOK, Flight!Goto, Flight!Pcs
  <1>8. CASE Flight!Tick
    <2>1. lock' \in (Processes \X {1, 2}) \cup {NoToken} /\ lease' \in 0..Lease /\ (lease' = 0 <=> lock' = NoToken)
      BY <1>8, LeaseAssumption DEF Flight!Tick, Flight!TypeOK
    <2>2. renewIn' \in [Processes -> 0..RenewInterval]
      BY <1>8, LeaseAssumption DEF Flight!Tick, Flight!TypeOK
    <2>3. deadline' \in [Processes -> 0..Timeout]
      BY <1>8, TimeoutAssumption DEF Flight!Tick, Flight!TypeOK
    <2> QED BY <1>8, <2>1, <2>2, <2>3 DEF Flight!Tick, Flight!TypeOK
  <1>9. CASE Flight!ValueGone \/ Flight!Idle \/ UNCHANGED Flight!vars
    BY <1>9 DEF Flight!ValueGone, Flight!Idle, Flight!vars, Flight!TypeOK
  <1> QED BY <1>1, <1>2, <1>3, <1>4, <1>5, <1>6, <1>7, <1>8, <1>9 DEF Flight!Next, Flight!Step

LEMMA FlightStep ==
    ASSUME Flight!TypeOK, [Flight!Next]_(Flight!vars), lock # NoToken
    PROVE  /\ lock' # lock => lease = 1 \/ pc[lock[1]] = "releasing"
           /\ lease' > lease => \A q \in Processes \ {lock[1]} : renewIn'[q] = renewIn[q]
  <1>1. ASSUME NEW p \in Processes, Flight!Start(p) \/ Flight!Acquire(p) \/ Flight!AcquireFails(p) \/ Flight!RenewFails(p)
                 \/ Flight!Poll(p) \/ Flight!Crash(p) \/ \E success \in BOOLEAN : Flight!Work(p, success) \/ Flight!Unlocked(p, success)
        PROVE  lock' = lock /\ lease' = lease
    BY <1>1 DEF Flight!Start, Flight!Acquire, Flight!AcquireFails, Flight!RenewFails, Flight!Poll, Flight!Crash,
                Flight!Work, Flight!Unlocked
  <1>2. ASSUME NEW p \in Processes, Flight!Release(p) \/ Flight!ReleaseFails(p)
        PROVE  lock' # lock => pc[lock[1]] = "releasing" /\ lease' <= lease
    <2>1. /\ pc[p] = "releasing"
          /\ (lock' = lock /\ lease' = lease) \/ (lock = <<p, attempt[p]>> /\ lease' = 0)
      BY <1>2 DEF Flight!Release, Flight!ReleaseFails, Flight!Drop
    <2> QED BY <2>1, LeaseAssumption DEF Flight!TypeOK
  <1>3. ASSUME NEW p \in Processes, Flight!Release(p) \/ Flight!ReleaseFails(p)
        PROVE  lease' \in Nat /\ lease' <= lease
    BY <1>3, LeaseAssumption DEF Flight!Release, Flight!ReleaseFails, Flight!Drop, Flight!TypeOK
  <1>4. ASSUME NEW p \in Processes, Flight!Renew(p)
        PROVE  lock' = lock /\ (lease' > lease => \A q \in Processes \ {lock[1]} : renewIn'[q] = renewIn[q])
    <2>1. lock' = lock /\ (lease' # lease => lock = <<p, attempt[p]>>)
      BY <1>4 DEF Flight!Renew
    <2>2. \A q \in Processes \ {p} : renewIn'[q] = renewIn[q]
      BY <1>4 DEF Flight!Renew, Flight!TypeOK
    <2> QED BY <2>1, <2>2, LeaseAssumption DEF Flight!TypeOK
  <1>5. CASE Flight!Tick
    BY <1>5, LeaseAssumption DEF Flight!Tick, Flight!TypeOK
  <1>6. CASE Flight!ValueGone \/ Flight!Idle \/ UNCHANGED Flight!vars
    BY <1>6, LeaseAssumption DEF Flight!ValueGone, Flight!Idle, Flight!vars, Flight!TypeOK
  <1>7. lease \in Nat
    BY DEF Flight!TypeOK
  <1>8. ASSUME NEW p \in Processes, Flight!Step(p)
        PROVE  /\ lock' # lock => pc[lock[1]] = "releasing"
               /\ lease' > lease => \A q \in Processes \ {lock[1]} : renewIn'[q] = renewIn[q]
    <2>1. CASE Flight!Acquire(p) \/ Flight!Poll(p)
      BY <1>1, <1>7, <2>1
    <2>2. CASE Flight!Release(p)
      BY <1>2, <1>3, <1>7, <2>2
    <2> QED BY <1>4, <1>8, <2>1, <2>2 DEF Flight!Step
  <1>9. CASE \E p \in Processes :
               \/ Flight!Start(p) \/ Flight!AcquireFails(p) \/ Flight!RenewFails(p)
               \/ Flight!Crash(p) \/ \E success \in BOOLEAN : Flight!Work(p, success) \/ Flight!Unlocked(p, success)
    BY <1>1, <1>7, <1>9
  <1>10. CASE \E p \in Processes : Flight!ReleaseFails(p)
    BY <1>2, <1>3, <1>7, <1>10
  <1> QED BY <1>5, <1>6, <1>8, <1>9, <1>10 DEF Flight!Next

\* What a process whose lease ran out, or that has crashed, does later leaves
\* the lock of another alone: a lock changes hands only when its lease is over
\* or its own process releases it (the compare-and-delete and compare-and-expire
\* scripts), and no renewal prolongs the lock of someone else.
THEOREM LocksAreSpared == Flight!Spec => OthersSpareTheLock
  <1>1. Flight!TypeOK /\ [Flight!Next]_(Flight!vars) =>
          [lock # NoToken =>
             /\ lock' # lock => lease = 1 \/ pc[lock[1]] = "releasing"
             /\ lease' > lease => \A q \in Processes \ {lock[1]} : renewIn'[q] = renewIn[q]]_(Flight!vars)
    BY FlightStep
  <1> QED BY FlightInit, FlightNext, <1>1, PTL DEF Flight!Spec, OthersSpareTheLock, Flight!OthersSpareTheLock

\* Steps in which no renewal fails.
SteadyNext == Flight!Next /\ ~\E p \in Processes : Flight!RenewFails(p)

OneWorker == \A p, q \in Processes : pc[p] = "working" /\ pc[q] = "working" => p = q

SteadyInv ==
    /\ Flight!TypeOK
    /\ \A p \in Processes : pc[p] = "working" =>
         lock = Flight!Token(p) /\ renewIn[p] + Lease - RenewInterval <= lease

Renewed(p) == lock = Flight!Token(p) /\ renewIn[p] + Lease - RenewInterval <= lease

LEMMA SteadyStep ==
    ASSUME SteadyInv, SteadyNext, NEW p \in Processes, pc'[p] = "working"
    PROVE  Renewed(p)'
  <1>0. /\ Flight!TypeOK
        /\ lock # NoToken => lease # 0
        /\ pc[p] = "working" => lock = <<p, attempt[p]>> /\ lock # NoToken /\ Renewed(p)
    BY NoTokenAssumption DEF SteadyInv, Flight!TypeOK, Renewed
  <1>1. ASSUME NEW q \in Processes, Flight!Start(q) \/ Flight!Poll(q) \/ Flight!Crash(q)
                 \/ \E success \in BOOLEAN : Flight!Work(q, success) \/ Flight!Unlocked(q, success)
        PROVE  Renewed(p)'
    <2>1. pc[p] = "working"
      BY <1>0, <1>1 DEF Flight!Start, Flight!Poll, Flight!Crash, Flight!Work, Flight!Unlocked, Flight!TypeOK, Flight!Goto
    <2>2. /\ attempt'[p] = attempt[p] /\ lock' = lock /\ lease' = lease /\ renewIn' = renewIn
      <3>1. CASE Flight!Poll(q)
        BY <1>0, <2>1, <3>1 DEF Flight!Poll, Flight!TypeOK
      <3> QED BY <1>1, <3>1 DEF Flight!Start, Flight!Crash, Flight!Work, Flight!Unlocked
    <2> QED BY <1>0, <2>1, <2>2 DEF Renewed
  <1>2. ASSUME NEW q \in Processes, Flight!Acquire(q) PROVE Renewed(p)'
    <2>1. CASE lock = NoToken
      <3>1. p = q /\ lock' = <<p, attempt[p]>> /\ lease' = Lease /\ renewIn'[p] = RenewInterval /\ attempt' = attempt
        BY <1>0, <1>2, <2>1 DEF Flight!Acquire, Flight!TypeOK, Flight!Goto
      <3> QED BY <3>1, LeaseAssumption DEF Renewed
    <2>2. CASE lock # NoToken
      <3>1. pc[p] = "working" /\ UNCHANGED <<lock, lease, renewIn, attempt>>
        BY <1>0, <1>2, <2>2 DEF Flight!Acquire, Flight!Rejected, Flight!TypeOK, Flight!Goto
      <3> QED BY <1>0, <3>1 DEF Renewed
    <2> QED BY <2>1, <2>2
  <1>3. ASSUME NEW q \in Processes, Flight!AcquireFails(q) PROVE Renewed(p)'
    <2>1. pc[p] = "working"
      BY <1>0, <1>3 DEF Flight!AcquireFails, Flight!Rejected, Flight!TypeOK, Flight!Goto
    <2> QED BY <1>0, <1>3, <2>1 DEF Flight!AcquireFails, Renewed
  <1>4. ASSUME NEW q \in Processes, Flight!Release(q) \/ Flight!ReleaseFails(q) PROVE Renewed(p)'
    <2>1. pc[p] = "working" /\ p # q
      BY <1>0, <1>4 DEF Flight!Release, Flight!ReleaseFails, Flight!Rejected, Flight!TypeOK, Flight!Goto
    <2> QED BY <1>0, <1>4, <2>1 DEF Flight!Release, Flight!ReleaseFails, Flight!Drop, Renewed
  <1>5. ASSUME NEW q \in Processes, Flight!Renew(q) PROVE Renewed(p)'
    <2>1. pc[p] = "working" /\ UNCHANGED <<lock, attempt>>
      BY <1>0, <1>5 DEF Flight!Renew
    <2>2. CASE p = q
      <3>1. lease' = Lease /\ renewIn'[p] = RenewInterval
        BY <1>0, <1>5, <2>1, <2>2 DEF Flight!Renew, Flight!TypeOK
      <3> QED BY <1>0, <2>1, <3>1, LeaseAssumption DEF Renewed
    <2>3. CASE p # q
      <3>1. lease' = lease /\ renewIn'[p] = renewIn[p]
        BY <1>0, <1>5, <2>1, <2>3 DEF Flight!Renew, Flight!TypeOK
      <3> QED BY <1>0, <2>1, <3>1 DEF Renewed
    <2> QED BY <2>2, <2>3
  <1>6. CASE Flight!Tick
    <2>1. pc[p] = "working" /\ attempt' = attempt /\ renewIn[p] > 0 /\ renewIn'[p] = renewIn[p] - 1 /\ lease > 0 /\ lease' = lease - 1
      BY <1>0, <1>6 DEF Flight!Tick, Flight!TypeOK
    <2>2. renewIn[p] \in Nat /\ lease \in Nat
      BY <1>0, LeaseAssumption DEF Flight!TypeOK
    <2>3. lease' > 0 /\ renewIn'[p] + Lease - RenewInterval <= lease'
      BY <1>0, <2>1, <2>2, LeaseAssumption DEF Renewed
    <2>4. lock' = lock
      BY <1>6, <2>3 DEF Flight!Tick
    <2> QED BY <1>0, <2>1, <2>3, <2>4 DEF Renewed
  <1>7. CASE Flight!ValueGone \/ Flight!Idle
    BY <1>0, <1>7 DEF Flight!ValueGone, Flight!Idle, Flight!vars, Renewed
  <1> QED BY <1>1, <1>2, <1>3, <1>4, <1>5, <1>6, <1>7 DEF SteadyNext, Flight!Next, Flight!Step

\* As long as no renewal fails there is one worker at a time: execute renews
\* before the lease it counts on has run out.
THEOREM RenewedLocksExclude == Flight!Init /\ [][SteadyNext]_(Flight!vars) => []OneWorker
  <1>1. Flight!Init => SteadyInv
    BY FlightInit DEF SteadyInv, Flight!Init
  <1>2. SteadyInv /\ [SteadyNext]_(Flight!vars) => SteadyInv'
    <2> SUFFICES ASSUME SteadyInv, [SteadyNext]_(Flight!vars) PROVE SteadyInv'
      OBVIOUS
    <2>1. Flight!TypeOK'
      BY FlightNext DEF SteadyInv, SteadyNext
    <2>2. CASE SteadyNext
      BY <2>1, <2>2, SteadyStep DEF SteadyInv, Renewed
    <2>3. CASE UNCHANGED Flight!vars
      BY <2>1, <2>3 DEF SteadyInv, Flight!vars
    <2> QED BY <2>2, <2>3
  <1>3. SteadyInv => OneWorker
    BY DEF SteadyInv, OneWorker
  <1> QED BY <1>1, <1>2, <1>3, PTL

-----------------------------------------------------------------------------
(***************************************************************************)
(* RedisInvalidationBus.  A message reaches a handler once if one listener *)
(* is attached for the current subscription, also after earlier ones have  *)
(* failed (ListenersMatch), if the SUBSCRIBE under way is the last command *)
(* and its caller's the turn (TurnsMatch), and if whoever has a handler    *)
(* finds the channel subscribed and nothing in flight (HandlersListen).    *)
(***************************************************************************)
Command == [name : {"SUBSCRIBE", "UNSUBSCRIBE"}, by : Stacks]

BusTypeOK ==
    /\ state \in [Stacks -> {"new", "waiting", "subscribing", "subscribed", "gone"}]
    /\ turn \in Seq(Stacks)
    /\ commands \in Seq(Command)
    /\ channel \in BOOLEAN /\ failures \in Nat
    /\ received \in [Stacks -> Nat] /\ expected \in [Stacks -> Nat]

Subscribing == \E i \in DOMAIN commands : commands[i].name = "SUBSCRIBE"

\* One call of subscribe is ahead of the others until it is answered.
TurnsMatch ==
    /\ \A s \in Stacks : state[s] = "waiting" => \E i \in DOMAIN turn : turn[i] = s
    /\ \A i \in DOMAIN commands : commands[i].name = "SUBSCRIBE" =>
         /\ i = Len(commands) /\ handlers = {}
         /\ turn # << >> /\ Head(turn) = commands[i].by /\ state[commands[i].by] = "subscribing"

\* Who is subscribed has a handler, and whoever has one has the channel.
HandlersListen ==
    /\ \A s \in Stacks : state[s] = "subscribed" => s \in handlers
    /\ handlers # {} => channel /\ commands = << >>

\* A failed SUBSCRIBE leaves its listener attached, a successful one takes it along.
Current == IF handlers # {} \/ Subscribing THEN {2 * failures + 1} ELSE {}
ListenersMatch ==
    /\ \E old \in SUBSET (1..2 * failures - 1) :
         attached = old \cup Current /\ Cardinality(old) = failures
    /\ Current # {} => shared = 2 * failures + 1

BusInv ==
    /\ BusTypeOK /\ TurnsMatch /\ HandlersListen /\ ListenersMatch
    /\ Bus!MessagesReachHandlers

LEMMA LengthZero == \A S : \A s \in Seq(S) : Len(s) = 0 => s = << >>
  OBVIOUS

LEMMA BusCardinality == \A S : Bus!Cardinality(S) = Cardinality(S)
  BY DEF Bus!Cardinality, Cardinality

LEMMA CommandsTyped ==
    ASSUME BusTypeOK
    PROVE  /\ \A i \in DOMAIN commands : commands[i] \in Command /\ commands[i].by \in Stacks
           /\ commands # << >> => Head(commands) = commands[1] /\ 1 \in DOMAIN commands /\ Tail(commands) \in Seq(Command)
           /\ \A s \in Stacks : Append(commands, [name |-> "SUBSCRIBE", by |-> s]) \in Seq(Command)
           /\ \A s \in Stacks : <<[name |-> "UNSUBSCRIBE", by |-> s]>> \in Seq(Command)
  <1>1. commands \in Seq(Command)
    BY DEF BusTypeOK
  <1>2. \A c \in Command : c.by \in Stacks
    BY DEF Command
  <1>3. \A s \in Stacks : [name |-> "SUBSCRIBE", by |-> s] \in Command /\ [name |-> "UNSUBSCRIBE", by |-> s] \in Command
    BY DEF Command
  <1>4. \A i \in DOMAIN commands : commands[i] \in Command
    BY <1>1
  <1>5. commands # << >> => Head(commands) = commands[1] /\ 1 \in DOMAIN commands /\ Tail(commands) \in Seq(Command)
    BY <1>1
  <1>6. \A c \in Command : Append(commands, c) \in Seq(Command) /\ <<c>> \in Seq(Command)
    BY <1>1
  <1> QED BY <1>2, <1>3, <1>4, <1>5, <1>6

LEMMA ListenerCount ==
    ASSUME BusTypeOK, ListenersMatch
    PROVE  /\ IsFiniteSet(attached)
           /\ Current = {} => Cardinality(attached) = failures /\ attached \subseteq 1..2 * failures - 1
           /\ Current # {} => Cardinality(attached) = failures + 1
  <1>1. PICK old \in SUBSET (1..2 * failures - 1) : attached = old \cup Current /\ Cardinality(old) = failures
    BY DEF ListenersMatch
  <1>2. IsFiniteSet(old)
    <2>1. 2 * failures - 1 \in Int
      BY DEF BusTypeOK
    <2>2. IsFiniteSet(1..2 * failures - 1)
      BY <2>1, FS_Interval
    <2> QED BY <2>2, FS_Subset
  <1>3. CASE Current = {}
    BY <1>1, <1>2, <1>3
  <1>4. CASE Current # {}
    <2>1. Current = {2 * failures + 1} /\ 2 * failures + 1 \notin old
      BY <1>4 DEF Current, BusTypeOK
    <2> QED BY <1>1, <1>2, <1>4, <2>1, FS_AddElement
  <1> QED BY <1>3, <1>4

LEMMA BusInit == Bus!Init => BusInv
  <1> SUFFICES ASSUME Bus!Init PROVE BusInv
    OBVIOUS
  <1>1. BusTypeOK /\ TurnsMatch /\ HandlersListen /\ Bus!MessagesReachHandlers
    <2>1. BusTypeOK
      <3>1. commands \in Seq(Command) /\ turn \in Seq(Stacks)
        BY DEF Bus!Init
      <3>2. state \in [Stacks -> {"new", "waiting", "subscribing", "subscribed", "gone"}]
        BY DEF Bus!Init
      <3> QED BY <3>1, <3>2 DEF Bus!Init, BusTypeOK
    <2>2. DOMAIN commands = {}
      BY DEF Bus!Init
    <2>3. TurnsMatch
      BY <2>2 DEF Bus!Init, TurnsMatch
    <2> QED BY <2>1, <2>3 DEF Bus!Init, HandlersListen, Bus!MessagesReachHandlers
  <1>2. ~Subscribing /\ Current = {}
    BY DEF Bus!Init, Subscribing, Current
  <1>3. ListenersMatch
    BY <1>2, FS_EmptySet DEF Bus!Init, ListenersMatch
  <1> QED BY <1>1, <1>3 DEF BusInv

\* A step that leaves listeners and their names alone.
LEMMA ListenersKept ==
    ASSUME BusInv, UNCHANGED <<attached, shared, failures>>, Current' = Current
    PROVE  ListenersMatch'
  BY DEF BusInv, ListenersMatch

LEMMA MessagesKept ==
    ASSUME BusInv, UNCHANGED <<received, expected>>, failures' \in {failures, failures + 1}
    PROVE  Bus!MessagesReachHandlers'
  BY DEF BusInv, BusTypeOK, Bus!MessagesReachHandlers

LEMMA BusSubscribe == ASSUME BusInv, NEW s \in Stacks, Bus!Subscribe(s) PROVE BusInv'
  <1>1. /\ state[s] = "new" /\ state' = [state EXCEPT ![s] = "waiting"] /\ turn' = Append(turn, s)
        /\ UNCHANGED <<handlers, attached, shared, commands, channel, failures, sent, received, expected>>
    BY DEF Bus!Subscribe
  <1>2. BusTypeOK'
    BY <1>1 DEF BusInv, BusTypeOK
  <1>3. turn' # << >> /\ (turn # << >> => Head(turn') = Head(turn))
    BY <1>1 DEF BusInv, BusTypeOK
  <1>4. TurnsMatch'
    <2>1. \A i \in DOMAIN turn : i \in DOMAIN turn' /\ turn'[i] = turn[i]
      BY <1>1 DEF BusInv, BusTypeOK
    <2>2. \E i \in DOMAIN turn' : turn'[i] = s
      <3>1. Len(turn) + 1 \in DOMAIN turn' /\ turn'[Len(turn) + 1] = s
        BY <1>1 DEF BusInv, BusTypeOK
      <3> QED BY <3>1
    <2>3. \A t \in Stacks : state'[t] = "waiting" => \E i \in DOMAIN turn' : turn'[i] = t
      BY <1>1, <2>1, <2>2 DEF BusInv, BusTypeOK, TurnsMatch
    <2>4. \A t \in Stacks : state[t] = "subscribing" => state'[t] = "subscribing"
      BY <1>1 DEF BusInv, BusTypeOK
    <2>5. \A i \in DOMAIN commands : commands[i].by \in Stacks
      BY CommandsTyped DEF BusInv
    <2> QED BY <1>1, <1>3, <2>3, <2>4, <2>5 DEF BusInv, TurnsMatch
  <1>5. HandlersListen'
    BY <1>1 DEF BusInv, BusTypeOK, HandlersListen
  <1>6. Current' = Current
    BY <1>1 DEF Current, Subscribing
  <1> QED BY <1>1, <1>2, <1>4, <1>5, <1>6, ListenersKept, MessagesKept DEF BusInv

\* What holds of turn when its first call is over.
LEMMA TurnEnds ==
    ASSUME BusInv, NEW s \in Stacks, turn # << >>, s = Head(turn), turn' = Tail(turn),
           \A t \in Stacks : state'[t] = "waiting" => t # s /\ state[t] = "waiting"
    PROVE  /\ turn' \in Seq(Stacks)
           /\ \A t \in Stacks : state'[t] = "waiting" => \E i \in DOMAIN turn' : turn'[i] = t
  <1>1. turn \in Seq(Stacks) /\ turn' \in Seq(Stacks)
    BY DEF BusInv, BusTypeOK
  <1>2. ASSUME NEW t \in Stacks, state'[t] = "waiting" PROVE \E i \in DOMAIN turn' : turn'[i] = t
    <2>1. PICK i \in DOMAIN turn : turn[i] = t
      BY <1>2 DEF BusInv, TurnsMatch
    <2>2. i # 1
      BY <1>1, <1>2, <2>1
    <2>3. i - 1 \in DOMAIN turn' /\ turn'[i - 1] = t
      BY <1>1, <2>1, <2>2
    <2> QED BY <2>3
  <1> QED BY <1>1, <1>2

LEMMA BusAttach == ASSUME BusInv, NEW s \in Stacks, Bus!Attach(s) PROVE BusInv'
  <1>1. /\ state[s] = "waiting" /\ s = Head(turn)
        /\ UNCHANGED <<channel, failures, sent, received, expected>>
    BY DEF Bus!Attach, Bus!MyTurn
  <1>2. turn # << >> /\ ~Subscribing
    BY <1>1 DEF BusInv, TurnsMatch, Subscribing
  <1>3. CASE handlers = {}
    <2> DEFINE listener == Cardinality(attached) + failures + 1
               cmd == [name |-> "SUBSCRIBE", by |-> s]
    <2>1. /\ attached' = attached \cup {listener} /\ shared' = listener
          /\ commands' = Append(commands, cmd)
          /\ state' = [state EXCEPT ![s] = "subscribing"]
          /\ UNCHANGED <<turn, handlers>>
      BY <1>3, BusCardinality DEF Bus!Attach
    <2>2. BusTypeOK'
      <3>1. commands' \in Seq(Command)
        BY <2>1, CommandsTyped DEF BusInv
      <3> QED BY <1>1, <2>1, <3>1 DEF BusInv, BusTypeOK
    <2>3. commands'[Len(commands')] = cmd /\ Len(commands') \in DOMAIN commands' /\ cmd.name = "SUBSCRIBE" /\ cmd.by = s
          /\ \A i \in DOMAIN commands' : i # Len(commands') => i \in DOMAIN commands /\ commands'[i] = commands[i]
      BY <2>1 DEF BusInv, BusTypeOK
    <2>4. TurnsMatch'
      <3>1. \A t \in Stacks : state'[t] = "waiting" => state[t] = "waiting"
        BY <2>1 DEF BusInv, BusTypeOK
      <3>2. state'[s] = "subscribing"
        BY <2>1 DEF BusInv, BusTypeOK
      <3> QED BY <1>1, <1>2, <1>3, <2>1, <2>3, <3>1, <3>2 DEF BusInv, TurnsMatch, Subscribing
    <2>5. HandlersListen'
      BY <1>3, <2>1 DEF BusInv, BusTypeOK, HandlersListen
    <2>6. Current = {} /\ Current' = {2 * failures + 1}
      BY <1>1, <1>2, <1>3, <2>3 DEF Current, Subscribing
    <2>7. listener = 2 * failures + 1 /\ Cardinality(attached) = failures /\ attached \subseteq 1..2 * failures - 1
      BY <2>6, ListenerCount DEF BusInv, BusTypeOK
    <2>8. ListenersMatch'
      BY <1>1, <2>1, <2>6, <2>7 DEF ListenersMatch
    <2> QED BY <1>1, <2>2, <2>4, <2>5, <2>8, MessagesKept DEF BusInv
  <1>4. CASE handlers # {}
    <2>1. /\ handlers' = handlers \cup {s} /\ state' = [state EXCEPT ![s] = "subscribed"]
          /\ turn' = Tail(turn) /\ UNCHANGED <<attached, shared, commands>>
      BY <1>4 DEF Bus!Attach, Bus!EndTurn
    <2>2. \A t \in Stacks : state'[t] = "waiting" => t # s /\ state[t] = "waiting"
      BY <2>1 DEF BusInv, BusTypeOK
    <2>3. /\ turn' \in Seq(Stacks)
          /\ \A t \in Stacks : state'[t] = "waiting" => \E i \in DOMAIN turn' : turn'[i] = t
      BY <1>1, <1>2, <2>1, <2>2, TurnEnds
    <2>4. BusTypeOK'
      BY <1>1, <2>1, <2>3 DEF BusInv, BusTypeOK
    <2>5. channel /\ commands = << >> /\ HandlersListen'
      BY <1>1, <1>4, <2>1 DEF BusInv, BusTypeOK, HandlersListen
    <2>6. TurnsMatch'
      BY <2>1, <2>3, <2>5 DEF TurnsMatch
    <2>7. Current' = Current
      BY <1>1, <1>4, <2>1 DEF Current
    <2> QED BY <1>1, <2>1, <2>4, <2>5, <2>6, <2>7, ListenersKept, MessagesKept DEF BusInv
  <1> QED BY <1>3, <1>4

LEMMA BusUnsubscribe == ASSUME BusInv, NEW s \in Stacks, Bus!Unsubscribe(s) PROVE BusInv'
  <1>1. /\ state[s] = "subscribed" /\ state' = [state EXCEPT ![s] = "gone"] /\ handlers' = handlers \ {s}
        /\ UNCHANGED <<turn, channel, failures, sent, received, expected>>
    BY DEF Bus!Unsubscribe
  <1>2. handlers # {} /\ channel /\ commands = << >>
    BY <1>1 DEF BusInv, HandlersListen
  <1>3. Current = {2 * failures + 1} /\ shared = 2 * failures + 1 /\ shared # 0
    BY <1>2 DEF Current, BusInv, ListenersMatch, BusTypeOK
  <1>4. \A t \in Stacks : state'[t] = "waiting" => state[t] = "waiting"
    BY <1>1 DEF BusInv, BusTypeOK
  <1>5. \A t \in Stacks : state'[t] = "subscribed" => t \in handlers'
    BY <1>1 DEF BusInv, BusTypeOK, HandlersListen
  <1>6. CASE handlers' = {}
    <2> DEFINE cmd == [name |-> "UNSUBSCRIBE", by |-> s]
    <2>1. attached' = attached \ {shared} /\ commands' = <<cmd>>
      BY <1>2, <1>3, <1>6 DEF Bus!Unsubscribe
    <2>2. BusTypeOK' /\ ~Subscribing'
      <3>1. commands' \in Seq(Command) /\ \A i \in DOMAIN commands' : commands'[i] = cmd
        BY <2>1, CommandsTyped DEF BusInv
      <3>2. cmd.name = "UNSUBSCRIBE"
        OBVIOUS
      <3> QED BY <1>1, <3>1, <3>2 DEF BusInv, BusTypeOK, Subscribing
    <2>3. TurnsMatch' /\ HandlersListen'
      BY <1>1, <1>4, <1>5, <1>6, <2>2 DEF BusInv, TurnsMatch, HandlersListen, Subscribing
    <2>4. ListenersMatch'
      <3>1. Current' = {}
        BY <1>6, <2>2 DEF Current
      <3>2. PICK old \in SUBSET (1..2 * failures - 1) : attached = old \cup Current /\ Cardinality(old) = failures
        BY DEF BusInv, ListenersMatch
      <3>3. 2 * failures + 1 \notin old
        BY DEF BusInv, BusTypeOK
      <3>4. attached' = old
        BY <1>3, <2>1, <3>2, <3>3
      <3> QED BY <1>1, <3>1, <3>2, <3>4 DEF ListenersMatch
    <2> QED BY <1>1, <2>2, <2>3, <2>4, MessagesKept DEF BusInv
  <1>7. CASE handlers' # {}
    <2>1. UNCHANGED <<attached, shared, commands>>
      BY <1>7 DEF Bus!Unsubscribe
    <2>2. BusTypeOK'
      BY <1>1, <2>1 DEF BusInv, BusTypeOK
    <2>3. TurnsMatch' /\ HandlersListen'
      BY <1>1, <1>2, <1>4, <1>5, <2>1 DEF BusInv, TurnsMatch, HandlersListen
    <2>4. Current' = Current
      BY <1>1, <1>2, <1>7 DEF Current
    <2> QED BY <1>1, <2>1, <2>2, <2>3, <2>4, ListenersKept, MessagesKept DEF BusInv
  <1> QED BY <1>6, <1>7

\* The reply to the SUBSCRIBE under way comes last of all commands.
LEMMA SubscribeIsAlone ==
    ASSUME BusInv, commands # << >>, Head(commands).name = "SUBSCRIBE"
    PROVE  /\ Tail(commands) = << >> /\ Subscribing /\ handlers = {} /\ turn # << >>
           /\ Head(commands).by = Head(turn) /\ Head(commands).by \in Stacks
           /\ state[Head(commands).by] = "subscribing"
  <1>1. 1 \in DOMAIN commands /\ commands[1] = Head(commands) /\ Head(commands).by \in Stacks
    BY CommandsTyped DEF BusInv
  <1>2. Len(commands) = 1 /\ Tail(commands) = << >>
    <2>1. 1 = Len(commands) /\ commands \in Seq(Command)
      BY <1>1 DEF BusInv, BusTypeOK, TurnsMatch
    <2>2. Tail(commands) \in Seq(Command) /\ Len(Tail(commands)) = 0
      BY <2>1
    <2>3. Tail(commands) = << >>
      BY <2>2, LengthZero
    <2> QED BY <2>1, <2>3
  <1> QED BY <1>1, <1>2 DEF BusInv, TurnsMatch, Subscribing

LEMMA BusSubscribed == ASSUME BusInv, Bus!Subscribed PROVE BusInv'
  <1> DEFINE s == Head(commands).by
  <1>1. /\ commands # << >> /\ Head(commands).name = "SUBSCRIBE" /\ commands' = Tail(commands) /\ channel' = TRUE
        /\ handlers' = handlers \cup {s} /\ state' = [state EXCEPT ![s] = "subscribed"] /\ turn' = Tail(turn)
        /\ UNCHANGED <<attached, shared, failures, sent, received, expected>>
    BY DEF Bus!Subscribed, Bus!EndTurn
  <1>2. /\ commands' = << >> /\ Subscribing /\ handlers = {} /\ turn # << >>
        /\ s = Head(turn) /\ s \in Stacks /\ state[s] = "subscribing"
    BY <1>1, SubscribeIsAlone
  <1> HIDE DEF s
  <1>3. \A t \in Stacks : state'[t] = "waiting" => t # s /\ state[t] = "waiting"
    BY <1>1, <1>2 DEF BusInv, BusTypeOK
  <1>4. /\ turn' \in Seq(Stacks)
        /\ \A t \in Stacks : state'[t] = "waiting" => \E i \in DOMAIN turn' : turn'[i] = t
    BY <1>1, <1>2, <1>3, TurnEnds
  <1>5. BusTypeOK'
    BY <1>1, <1>2, <1>4 DEF BusInv, BusTypeOK
  <1>6. TurnsMatch' /\ HandlersListen'
    BY <1>1, <1>2, <1>4 DEF BusInv, BusTypeOK, TurnsMatch, HandlersListen
  <1>7. Current' = Current
    BY <1>1, <1>2 DEF Current
  <1> QED BY <1>1, <1>5, <1>6, <1>7, ListenersKept, MessagesKept DEF BusInv

LEMMA BusSubscribeFails == ASSUME BusInv, Bus!SubscribeFails PROVE BusInv'
  <1> DEFINE s == Head(commands).by
  <1>1. /\ commands # << >> /\ Head(commands).name = "SUBSCRIBE" /\ commands' = Tail(commands)
        /\ state' = [state EXCEPT ![s] = "gone"] /\ turn' = Tail(turn) /\ failures' = failures + 1
        /\ UNCHANGED <<handlers, attached, shared, channel, sent, received, expected>>
    BY DEF Bus!SubscribeFails, Bus!EndTurn
  <1>2. /\ commands' = << >> /\ Subscribing /\ handlers = {} /\ turn # << >>
        /\ s = Head(turn) /\ s \in Stacks /\ state[s] = "subscribing"
    BY <1>1, SubscribeIsAlone
  <1> HIDE DEF s
  <1>3. \A t \in Stacks : state'[t] = "waiting" => t # s /\ state[t] = "waiting"
    BY <1>1, <1>2 DEF BusInv, BusTypeOK
  <1>4. /\ turn' \in Seq(Stacks)
        /\ \A t \in Stacks : state'[t] = "waiting" => \E i \in DOMAIN turn' : turn'[i] = t
    BY <1>1, <1>2, <1>3, TurnEnds
  <1>5. BusTypeOK'
    BY <1>1, <1>2, <1>4 DEF BusInv, BusTypeOK
  <1>6. TurnsMatch' /\ HandlersListen'
    BY <1>1, <1>2, <1>4 DEF BusInv, BusTypeOK, TurnsMatch, HandlersListen
  <1>7. ListenersMatch'
    <2>1. Current = {2 * failures + 1} /\ Current' = {}
      BY <1>1, <1>2 DEF Current, Subscribing
    <2>2. Cardinality(attached) = failures + 1
      BY <2>1, ListenerCount DEF BusInv
    <2>3. attached \subseteq 1..2 * failures' - 1
      BY <1>1, <2>1 DEF BusInv, BusTypeOK, ListenersMatch
    <2> QED BY <1>1, <2>1, <2>2, <2>3 DEF ListenersMatch
  <1> QED BY <1>1, <1>5, <1>6, <1>7, MessagesKept DEF BusInv

LEMMA BusUnsubscribed == ASSUME BusInv, Bus!Unsubscribed PROVE BusInv'
  <1>1. /\ commands # << >> /\ Head(commands).name = "UNSUBSCRIBE" /\ commands' = Tail(commands) /\ channel' = FALSE
        /\ UNCHANGED <<state, turn, handlers, attached, shared, failures, sent, received, expected>>
    BY DEF Bus!Unsubscribed
  <1>2. /\ commands \in Seq(Command) /\ handlers = {}
    BY <1>1 DEF BusInv, BusTypeOK, HandlersListen
  <1>3. BusTypeOK'
    BY <1>1, CommandsTyped DEF BusInv, BusTypeOK
  <1>4. /\ Len(commands') = Len(commands) - 1
        /\ \A i \in DOMAIN commands' : i + 1 \in DOMAIN commands /\ commands'[i] = commands[i + 1]
        /\ \A i \in DOMAIN commands : commands[i].name = "SUBSCRIBE" => i - 1 \in DOMAIN commands' /\ commands'[i - 1] = commands[i]
    BY <1>1, <1>2
  <1>5. TurnsMatch' /\ HandlersListen'
    <2>1. ASSUME NEW i \in DOMAIN commands', commands'[i].name = "SUBSCRIBE"
          PROVE  /\ i = Len(commands') /\ handlers' = {}
                 /\ turn' # << >> /\ Head(turn') = commands'[i].by /\ state'[commands'[i].by] = "subscribing"
      <3>1. i \in Nat /\ i + 1 = Len(commands)
        <4>1. i \in Nat /\ i + 1 \in DOMAIN commands /\ commands[i + 1].name = "SUBSCRIBE"
          BY <1>3, <1>4, <2>1 DEF BusTypeOK
        <4> QED BY <4>1 DEF BusInv, TurnsMatch
      <3> QED BY <1>1, <1>2, <1>4, <2>1, <3>1 DEF BusInv, TurnsMatch
    <2> QED BY <1>1, <1>2, <2>1 DEF BusInv, TurnsMatch, HandlersListen
  <1>6. Current' = Current
    BY <1>1, <1>4 DEF Current, Subscribing
  <1> QED BY <1>1, <1>3, <1>5, <1>6, ListenersKept, MessagesKept DEF BusInv

LEMMA BusMessage == ASSUME BusInv, NEW valid \in BOOLEAN, Bus!Message(valid) PROVE BusInv'
  <1>1. UNCHANGED <<state, turn, handlers, attached, shared, commands, channel, failures>>
    BY DEF Bus!Message
  <1>2. TurnsMatch' /\ HandlersListen' /\ Current' = Current
    BY <1>1 DEF BusInv, TurnsMatch, HandlersListen, Current, Subscribing
  <1>3. CASE ~valid
    BY <1>1, <1>2, <1>3, ListenersKept, MessagesKept DEF BusInv, BusTypeOK, Bus!Message
  <1>4. CASE valid
    <2>1. /\ expected' = [s \in Stacks |-> IF s \in handlers THEN expected[s] + 1 ELSE expected[s]]
          /\ received' = [s \in Stacks |->
               IF channel /\ s \in handlers THEN received[s] + Cardinality(attached) ELSE received[s]]
      BY <1>4, BusCardinality DEF Bus!Message
    <2>2. Cardinality(attached) \in Nat /\ (handlers # {} => channel /\ Cardinality(attached) = failures + 1)
      <3>1. IsFiniteSet(attached) /\ (Current # {} => Cardinality(attached) = failures + 1)
        BY ListenerCount DEF BusInv
      <3>2. handlers # {} => Current # {} /\ channel
        BY DEF Current, BusInv, HandlersListen
      <3> QED BY <3>1, <3>2, FS_CardinalityType
    <2>3. BusTypeOK'
      BY <1>1, <2>1, <2>2 DEF BusInv, BusTypeOK
    <2>4. Bus!MessagesReachHandlers'
      <3>1. ASSUME NEW s \in Stacks PROVE IF failures = 0 THEN received'[s] = expected'[s] ELSE received'[s] >= expected'[s]
        <4>1. /\ received[s] \in Nat /\ expected[s] \in Nat /\ failures \in Nat
              /\ IF failures = 0 THEN received[s] = expected[s] ELSE received[s] >= expected[s]
          BY DEF BusInv, BusTypeOK, Bus!MessagesReachHandlers
        <4>2. CASE s \in handlers
          <5>1. received'[s] = received[s] + failures + 1 /\ expected'[s] = expected[s] + 1
            BY <2>1, <2>2, <4>1, <4>2
          <5> QED BY <4>1, <5>1
        <4>3. CASE s \notin handlers
          BY <2>1, <4>1, <4>3
        <4> QED BY <4>2, <4>3
      <3> QED BY <1>1, <3>1 DEF Bus!MessagesReachHandlers
    <2> QED BY <1>1, <1>2, <2>3, <2>4, ListenersKept DEF BusInv
  <1> QED BY <1>3, <1>4

LEMMA BusNext == BusInv /\ [Bus!Next]_(Bus!vars) => BusInv'
  <1> SUFFICES ASSUME BusInv, [Bus!Next]_(Bus!vars) PROVE BusInv'
    OBVIOUS
  <1>1. CASE UNCHANGED Bus!vars
    BY <1>1 DEF Bus!vars, BusInv, BusTypeOK, TurnsMatch, HandlersListen, ListenersMatch, Current, Subscribing,
       Bus!MessagesReachHandlers
  <1> QED BY <1>1, BusSubscribe, BusAttach, BusUnsubscribe, BusSubscribed, BusSubscribeFails, BusUnsubscribed, BusMessage
      DEF Bus!Next

\* Every stack whose subscribe has returned gets each valid message, and gets
\* it once unless a SUBSCRIBE has failed, however the subscribe and unsubscribe
\* calls of several stacks wait for one another and share the connection
\* (RedisInvalidationBus.subscribe, attachListener).
THEOREM MessagesArrive == Bus!Spec => []MessagesReachHandlers
  <1>1. BusInv => MessagesReachHandlers
    BY DEF BusInv, MessagesReachHandlers
  <1> QED BY BusInit, BusNext, <1>1, PTL DEF Bus!Spec
=============================================================================
