------------------------------ MODULE EpochFence -----------------------------
(***************************************************************************)
(* The promise of the epoch tokens: operations hold fences for as long as  *)
(* they like (a slow fetch, a queued write) while keys are invalidated and *)
(* the cache is cleared, and a fence taken before an invalidation of its   *)
(* key never becomes current again, whatever is pruned or rolls over in    *)
(* between.                                                                *)
(***************************************************************************)
EXTENDS KeyEpochs

CONSTANTS
    Holders,      \* operations that may hold a fence
    MaxList,      \* bound: keys invalidated by one call
    MaxClearEpoch \* bound: clear epochs explored

ASSUME MaxListAssumption == MaxList \in Nat /\ MaxList <= MaxSafeInteger

VARIABLES
    fence,        \* fence[h], or NoFence
    overtaken     \* overtaken[h]: h's key was invalidated after the capture

vars == <<epochs, fence, overtaken>>

NoFence == [held |-> FALSE]
HeldFences == [held : {TRUE}, on : Keys, f : Fences]

TypeOK ==
    /\ IsEpochTable(epochs)
    /\ fence \in [Holders -> HeldFences \cup {NoFence}]
    /\ overtaken \in [Holders -> BOOLEAN]
    /\ \A h \in Holders : overtaken[h] => fence[h].held

Init ==
    /\ InitEpochs
    /\ fence = [h \in Holders |-> NoFence]
    /\ overtaken = [h \in Holders |-> FALSE]

\* An operation on k starts and captures the current epochs.
Capture(h, k) ==
    /\ ~fence[h].held
    /\ fence' = [fence EXCEPT ![h] =
                   [held |-> TRUE, on |-> k, f |-> CurrentFence(k)]]
    /\ UNCHANGED <<epochs, overtaken>>

\* It ends.
Release(h) ==
    /\ fence[h].held
    /\ fence' = [fence EXCEPT ![h] = NoFence]
    /\ overtaken' = [overtaken EXCEPT ![h] = FALSE]
    /\ UNCHANGED epochs

Invalidate(ks) ==
    /\ epochs.clear < MaxClearEpoch
    /\ BumpKeyEpochs(ks)
    /\ overtaken' = [h \in Holders |->
                       \/ overtaken[h]
                       \/ fence[h].held /\ \E i \in DOMAIN ks : ks[i] = fence[h].on]
    /\ UNCHANGED fence

Clear ==
    /\ epochs.clear < MaxClearEpoch
    /\ BeginClearEpoch
    /\ overtaken' = [h \in Holders |-> overtaken[h] \/ fence[h].held]
    /\ UNCHANGED fence

Next ==
    \/ \E h \in Holders, k \in Keys : Capture(h, k)
    \/ \E h \in Holders : Release(h)
    \/ \E ks \in KeyLists(MaxList) : Invalidate(ks)
    \/ Clear

Spec == Init /\ [][Next]_vars

-----------------------------------------------------------------------------
\* No ABA: a fence whose key was invalidated, or that a clear overtook, is
\* outdated for as long as it is held (isWriteOutdated never says "current"
\* of it again), through pruning of the token table and the integer
\* roll-over.
OvertakenFenceIsOutdated ==
    \A h \in Holders :
        overtaken[h] => IsWriteOutdated(fence[h].on, fence[h].f)

\* Fences are not lost needlessly: an invalidation of other keys outdates a
\* fence only by pruning (the shared absent token was rotated) or by starting
\* a new clear epoch, so unrelated traffic does not throw away fetched values.
UnrelatedInvalidationKeepsFences ==
    [][\A h \in Holders :
          ( /\ fence[h].held
            /\ fence' = fence
            /\ overtaken'[h] = overtaken[h]
            /\ ~overtaken[h]
            /\ ~IsWriteOutdated(fence[h].on, fence[h].f)
            /\ IsWriteOutdated(fence[h].on, fence[h].f)' )
          => epochs'.absent # epochs.absent \/ epochs'.clear # epochs.clear]_vars

\* The fence of h is not ahead of the epochs; an overtaken one is behind them.
BehindEpochs(h) ==
    LET f == fence[h].f
        e == CurrentFence(fence[h].on)
    IN  /\ f.clear <= e.clear
        /\ f.clear = e.clear => f.key <= e.key
        /\ overtaken[h] /\ f.clear = e.clear => f.key < e.key

\* The part of the argument that is inductive: tokens and clear epochs only
\* grow, so isWriteOutdated's test for difference is a test for age.
FencesBehindEpochs == \A h \in Holders : fence[h].held => BehindEpochs(h)
=============================================================================
