-------------------------- MODULE EpochFenceProofs ---------------------------
(***************************************************************************)
(* The absence of ABA (EpochFence) for any number of keys, holders and     *)
(* integers: the fences held are never ahead of the table, and the one of  *)
(* an invalidated key is behind it for good.                               *)
(***************************************************************************)
EXTENDS EpochFence, KeyEpochsLemmas

\* What is inductive: the table is good and no held fence is ahead of it.
Inv == TypeOK /\ GoodTable(epochs) /\ FencesBehindEpochs

LEMMA InitInv == Init => Inv
  <1> SUFFICES ASSUME Init PROVE Inv
    OBVIOUS
  <1> DEFINE e == << >>
  <1>1. DOMAIN e = {} /\ e \in [DOMAIN e -> Nat]
    OBVIOUS
  <1>2. /\ DOMAIN epochs = {"clear", "keys", "next", "absent"}
        /\ epochs.clear = 0 /\ epochs.keys = e /\ epochs.next = 0 /\ epochs.absent = 0
    BY DEF Init, InitEpochs, InitialEpochs
  <1> HIDE DEF e
  <1>3. GoodTable(epochs)
    BY <1>1, <1>2, MaxSafeIntegerAssumption DEF GoodTable, IsEpochTable
  <1>4. \A h \in Holders : ~overtaken[h] /\ ~fence[h].held /\ fence[h] = NoFence
    BY DEF Init, NoFence
  <1>5. fence \in [Holders -> HeldFences \cup {NoFence}] /\ overtaken \in [Holders -> BOOLEAN]
    BY DEF Init
  <1> QED BY <1>3, <1>4, <1>5 DEF Inv, TypeOK, FencesBehindEpochs, GoodTable

\* A held fence is a fence on some key.
LEMMA HeldFenceType ==
    ASSUME TypeOK, NEW h \in Holders, fence[h].held
    PROVE  fence[h].on \in Keys /\ fence[h].f \in Fences
  <1>1. fence[h] \in HeldFences \cup {NoFence}
    BY DEF TypeOK
  <1>2. fence[h] \in HeldFences
    BY <1>1 DEF NoFence
  <1> QED BY <1>2 DEF HeldFences

\* A fence of a holder, unchanged by a step that moves the table on.
LEMMA FenceStaysBehind ==
    ASSUME Inv, GoodTable(epochs'), NEW h \in Holders, fence[h].held,
           LaterFor(fence[h].on, epochs, epochs'),
           \/ PastFor(fence[h].on, epochs, epochs')
           \/ overtaken'[h] => overtaken[h],
           fence' = fence
    PROVE  BehindEpochs(h)'
  <1> DEFINE f == fence[h].f
             k == fence[h].on
  <1>1. k \in Keys /\ f \in Fences
    BY HeldFenceType DEF Inv
  <1>2. /\ f.clear <= epochs.clear
        /\ f.clear = epochs.clear => f.key <= KeyEpochIn(epochs, k)
        /\ overtaken[h] /\ f.clear = epochs.clear => f.key < KeyEpochIn(epochs, k)
    BY DEF Inv, FencesBehindEpochs, BehindEpochs, CurrentFence, CurrentKeyEpoch
  <1>3. /\ KeyEpochIn(epochs, k) \in Nat /\ KeyEpochIn(epochs', k) \in Nat
        /\ epochs.clear \in Nat /\ epochs'.clear \in Nat /\ f.clear \in Nat /\ f.key \in Nat
    BY <1>1, KeyEpochType DEF Inv, GoodTable, IsEpochTable, Fences
  <1>4. /\ f.clear <= epochs'.clear
        /\ f.clear = epochs'.clear => f.key <= KeyEpochIn(epochs', k)
        /\ overtaken'[h] /\ f.clear = epochs'.clear => f.key < KeyEpochIn(epochs', k)
    <2>1. /\ LaterFor(k, epochs, epochs')
          /\ PastFor(k, epochs, epochs') \/ (overtaken'[h] => overtaken[h])
      OBVIOUS
    <2> HIDE DEF f, k
    <2> QED BY <1>2, <1>3, <2>1 DEF LaterFor, PastFor
  <1> QED BY <1>4 DEF BehindEpochs, CurrentFence, CurrentKeyEpoch

\* Every step keeps the invariant.
LEMMA NextInv == Inv /\ [Next]_vars => Inv'
  <1> SUFFICES ASSUME Inv, [Next]_vars PROVE Inv'
    OBVIOUS
  <1>0. GoodTable(epochs) /\ TypeOK /\ FencesBehindEpochs
    BY DEF Inv
  <1>1. ASSUME NEW h \in Holders, NEW k \in Keys, Capture(h, k) PROVE Inv'
    <2>1. CurrentFence(k) \in Fences
      BY <1>0, KeyEpochType DEF CurrentFence, CurrentKeyEpoch, Fences, GoodTable, IsEpochTable
    <2>2. epochs' = epochs /\ overtaken' = overtaken /\ ~overtaken[h]
      BY <1>0, <1>1 DEF Capture, TypeOK
    <2> DEFINE new == [held |-> TRUE, on |-> k, f |-> CurrentFence(k)]
    <2>3. new \in HeldFences /\ new.held /\ new.on = k /\ new.f = CurrentFence(k)
      BY <2>1 DEF HeldFences
    <2> HIDE DEF new
    <2>4. fence' = [fence EXCEPT ![h] = new]
      BY <1>1 DEF Capture, new
    <2>5. TypeOK'
      BY <1>0, <2>2, <2>3, <2>4 DEF TypeOK, IsEpochTable
    <2>6. BehindEpochs(h)'
      <3>1. fence'[h] = new
        BY <1>0, <2>4 DEF TypeOK
      <3>2. CurrentFence(k).clear \in Nat /\ CurrentFence(k).key \in Nat
        BY <2>1 DEF Fences
      <3>3. CurrentFence(k)' = CurrentFence(k)
        BY <2>2 DEF CurrentFence, CurrentKeyEpoch
      <3> QED BY <2>2, <2>3, <3>1, <3>2, <3>3 DEF BehindEpochs, CurrentFence, CurrentKeyEpoch
    <2>7. ASSUME NEW g \in Holders, g # h, fence'[g].held PROVE BehindEpochs(g)'
      BY <1>0, <2>2, <2>4, <2>7 DEF FencesBehindEpochs, BehindEpochs, CurrentFence, CurrentKeyEpoch, TypeOK
    <2> QED BY <1>0, <2>2, <2>5, <2>6, <2>7 DEF Inv, FencesBehindEpochs
  <1>2. ASSUME NEW h \in Holders, Release(h) PROVE Inv'
    <2>1. epochs' = epochs /\ TypeOK'
      BY <1>0, <1>2 DEF Release, TypeOK, IsEpochTable, NoFence
    <2>2. ~fence'[h].held
      BY <1>0, <1>2 DEF Release, TypeOK, NoFence
    <2>3. ASSUME NEW g \in Holders, fence'[g].held PROVE BehindEpochs(g)'
      BY <1>0, <1>2, <2>1, <2>2, <2>3
      DEF Release, FencesBehindEpochs, BehindEpochs, CurrentFence, CurrentKeyEpoch, TypeOK
    <2> QED BY <1>0, <2>1, <2>3 DEF Inv, FencesBehindEpochs
  <1>3. ASSUME NEW ks \in KeyLists(MaxList), Invalidate(ks) PROVE Inv'
    <2>1. /\ GoodTable(epochs')
          /\ \A k \in Keys : LaterFor(k, epochs, epochs')
          /\ \A k \in Keys : (\E i \in DOMAIN ks : ks[i] = k) => PastFor(k, epochs, epochs')
      BY <1>0, <1>3, MaxListAssumption, BumpStep DEF Invalidate
    <2>2. TypeOK'
      BY <1>0, <1>3, <2>1 DEF Invalidate, TypeOK, GoodTable
    <2>3. ASSUME NEW h \in Holders, fence'[h].held PROVE BehindEpochs(h)'
      <3>1. fence' = fence /\ fence[h].held /\ fence[h].on \in Keys
        BY <1>0, <1>3, <2>3, HeldFenceType DEF Invalidate
      <3>2. overtaken'[h] => overtaken[h] \/ \E i \in DOMAIN ks : ks[i] = fence[h].on
        BY <1>3 DEF Invalidate
      <3> QED BY <2>1, <3>1, <3>2, FenceStaysBehind
    <2> QED BY <2>1, <2>2, <2>3 DEF Inv, FencesBehindEpochs
  <1>4. ASSUME Clear PROVE Inv'
    <2>1. GoodTable(epochs') /\ \A k \in Keys : PastFor(k, epochs, epochs')
      BY <1>0, <1>4, ClearStep DEF Clear
    <2>2. TypeOK'
      BY <1>0, <1>4, <2>1 DEF Clear, TypeOK, GoodTable
    <2>3. ASSUME NEW h \in Holders, fence'[h].held PROVE BehindEpochs(h)'
      <3>1. fence' = fence /\ fence[h].held /\ fence[h].on \in Keys
        BY <1>0, <1>4, <2>3, HeldFenceType DEF Clear
      <3>2. PastFor(fence[h].on, epochs, epochs') /\ LaterFor(fence[h].on, epochs, epochs')
        BY <1>0, <2>1, <3>1, KeyEpochType DEF PastFor, LaterFor
      <3> QED BY <2>1, <3>1, <3>2, FenceStaysBehind
    <2> QED BY <2>1, <2>2, <2>3 DEF Inv, FencesBehindEpochs
  <1>5. CASE UNCHANGED vars
    BY <1>0, <1>5 DEF vars, Inv, TypeOK, FencesBehindEpochs, BehindEpochs, CurrentFence, CurrentKeyEpoch
  <1> QED BY <1>1, <1>2, <1>3, <1>4, <1>5 DEF Next

\* The epoch table and the held fences are well-typed in every behaviour.
THEOREM TypeCorrect == Spec => []TypeOK
  <1>1. Inv => TypeOK
    BY DEF Inv
  <1> QED BY <1>1, InitInv, NextInv, PTL DEF Spec

\* No ABA, for any number of keys, holders, table sizes and integers: once a
\* key is invalidated, isWriteOutdated rejects every fence taken before.
THEOREM NoABA == Spec => []OvertakenFenceIsOutdated
  <1>1. Inv => OvertakenFenceIsOutdated
    <2> SUFFICES ASSUME Inv, NEW h \in Holders, overtaken[h]
                 PROVE  IsWriteOutdated(fence[h].on, fence[h].f)
      BY DEF OvertakenFenceIsOutdated
    <2>1. fence[h].held /\ BehindEpochs(h) /\ fence[h].on \in Keys
      BY HeldFenceType DEF Inv, TypeOK, FencesBehindEpochs
    <2>2. CurrentKeyEpoch(fence[h].on) \in Nat
      BY <2>1, KeyEpochType DEF Inv, CurrentKeyEpoch
    <2> QED BY <2>1, <2>2 DEF BehindEpochs, CurrentFence, IsWriteOutdated
  <1> QED BY <1>1, InitInv, NextInv, PTL DEF Spec

\* An invalidation of other keys outdates a fence only by pruning, which rotates
\* the token of absent keys, or by starting a new clear epoch.
THEOREM NothingLostNeedlessly == Spec => UnrelatedInvalidationKeepsFences
  <1>1. Spec => []Inv
    BY InitInv, NextInv, PTL DEF Spec
  <1>2. Inv /\ [Next]_vars =>
          [\A h \in Holders :
             ( /\ fence[h].held
               /\ fence' = fence
               /\ overtaken'[h] = overtaken[h]
               /\ ~overtaken[h]
               /\ ~IsWriteOutdated(fence[h].on, fence[h].f)
               /\ IsWriteOutdated(fence[h].on, fence[h].f)' )
             => epochs'.absent # epochs.absent \/ epochs'.clear # epochs.clear]_vars
    <2> SUFFICES ASSUME Inv, Next, NEW h \in Holders, fence[h].held, fence' = fence,
                        overtaken'[h] = overtaken[h], ~overtaken[h],
                        ~IsWriteOutdated(fence[h].on, fence[h].f),
                        IsWriteOutdated(fence[h].on, fence[h].f)',
                        epochs'.absent = epochs.absent, epochs'.clear = epochs.clear
                 PROVE  FALSE
      OBVIOUS
    <2>1. PICK k \in Keys : k = fence[h].on
      BY HeldFenceType DEF Inv
    <2>2. KeyEpochIn(epochs', k) # KeyEpochIn(epochs, k)
      BY <2>1 DEF IsWriteOutdated, CurrentKeyEpoch
    <2>3. ASSUME NEW ks \in KeyLists(MaxList), Invalidate(ks)
          PROVE  FALSE
      <3>1. BumpKeyEpochs(ks) /\ \A i \in DOMAIN ks : ks[i] # k
        BY <2>1, <2>3 DEF Invalidate
      <3> QED BY <2>2, <3>1, BumpKeepsOthers, MaxListAssumption DEF Inv
    <2>4. CASE Clear
      BY <2>4 DEF Clear
    <2>5. CASE \E g \in Holders : Release(g) \/ \E j \in Keys : Capture(g, j)
      BY <2>2, <2>5 DEF Release, Capture
    <2> QED BY <2>3, <2>4, <2>5 DEF Next
  <1> QED BY <1>1, <1>2, PTL DEF Spec, UnrelatedInvalidationKeepsFences
=============================================================================
