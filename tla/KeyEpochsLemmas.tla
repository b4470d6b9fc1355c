--------------------------- MODULE KeyEpochsLemmas ---------------------------
(***************************************************************************)
(* Facts about the epoch tokens that every module using them rests on.     *)
(* Tables are ordered, as far as the fences on one key can tell: a bump, a *)
(* prune and a clear each lead to a later table, strictly later for the    *)
(* keys they touch, and a fence that is not ahead of a table is not ahead  *)
(* of a later one.                                                         *)
(***************************************************************************)
EXTENDS KeyEpochs, TLAPS

\* A table whose tokens have all been allocated.
GoodTable(s) ==
    /\ IsEpochTable(s)
    /\ s.next <= MaxSafeInteger
    /\ s.absent <= s.next
    /\ \A k \in DOMAIN s.keys : s.keys[k] <= s.next

\* t is a table that may follow s, as far as the fences on k can tell ...
LaterFor(k, s, t) ==
    \/ s.clear < t.clear
    \/ s.clear = t.clear /\ KeyEpochIn(s, k) <= KeyEpochIn(t, k)

\* ... and one that follows an invalidation of k.
PastFor(k, s, t) ==
    \/ s.clear < t.clear
    \/ s.clear = t.clear /\ KeyEpochIn(s, k) < KeyEpochIn(t, k)

\* The tokens of a good table are numbers that have been allocated.
LEMMA KeyEpochType ==
    ASSUME NEW s, GoodTable(s), NEW k \in Keys
    PROVE  KeyEpochIn(s, k) \in Nat /\ KeyEpochIn(s, k) <= s.next
  BY DEF GoodTable, IsEpochTable, KeyEpochIn

\* The loop of bumpKeyEpochs gives every listed key a token above all others.
LEMMA BumpAllLater ==
    ASSUME NEW s, GoodTable(s),
           NEW n \in Nat, n <= MaxSafeInteger,
           NEW ks \in KeyLists(n)
    PROVE  /\ GoodTable(BumpAll(s, ks))
           /\ \A k \in Keys : LaterFor(k, s, BumpAll(s, ks))
           /\ \A i \in DOMAIN ks : PastFor(ks[i], s, BumpAll(s, ks))
  <1> DEFINE room    == MaxSafeInteger - s.next
             rolls   == s.next + Len(ks) > MaxSafeInteger
             skipped == IF rolls THEN room ELSE 0
             bumped  == {ks[i] : i \in {j \in DOMAIN ks : j > skipped}}
             kept    == IF rolls THEN {} ELSE DOMAIN s.keys \ bumped
             base    == IF rolls THEN 0 ELSE s.next
             at(k)   == CHOOSE i \in DOMAIN ks : ks[i] = k
             t       == BumpAll(s, ks)
  <1>1. PICK m \in 1..n : ks \in [1..m -> Keys]
    BY DEF KeyLists
  <1>2. /\ Len(ks) = m /\ DOMAIN ks = 1..m /\ m \in Nat
        /\ \A i \in 1..m : ks[i] \in Keys
        /\ \A i, j \in 1..m : ks[i] = ks[j] => i = j
    <2>1. \A i, j \in 1..m : ks[i] = ks[j] => i = j
      <3>1. PICK p \in 1..n : /\ ks \in [1..p -> Keys]
                              /\ \A i, j \in 1..p : ks[i] = ks[j] => i = j
        BY DEF KeyLists
      <3> QED BY <1>1, <3>1
    <2>2. ks \in Seq(Keys)
      BY <1>1
    <2> QED BY <1>1, <2>1, <2>2
  <1>3. \A i \in 1..m : at(ks[i]) = i
    BY <1>2
  <1>4. MaxSafeInteger \in Nat /\ s.next \in Nat /\ s.clear \in Nat /\ s.absent \in Nat
        /\ s.next <= MaxSafeInteger
    BY MaxSafeIntegerAssumption DEF GoodTable, IsEpochTable
  <1>5. /\ t.clear = (IF rolls THEN s.clear + 1 ELSE s.clear)
        /\ t.keys = [k \in kept \cup bumped |->
                       IF k \in bumped THEN base + (at(k) - skipped) ELSE s.keys[k]]
        /\ t.next = base + (Len(ks) - skipped)
        /\ t.absent = (IF rolls THEN 0 ELSE s.absent)
        /\ DOMAIN t = {"clear", "keys", "next", "absent"}
    BY DEF BumpAll
  <1> HIDE DEF t
  <1>6. \A k \in bumped : \E i \in 1..m : k = ks[i] /\ i > skipped
    BY <1>2
  <1>7. bumped \subseteq Keys /\ kept \subseteq DOMAIN s.keys /\ kept \cup bumped \subseteq Keys
    BY <1>2, <1>6 DEF GoodTable, IsEpochTable
  <1>8. skipped \in Nat /\ base \in Nat /\ skipped < m + 1
        /\ base + (m - skipped) \in Nat /\ base + (m - skipped) <= MaxSafeInteger
    BY <1>1, <1>2, <1>4
  <1>9. \A k \in bumped : /\ t.keys[k] \in Nat
                          /\ t.keys[k] > base
                          /\ t.keys[k] <= t.next
    <2> SUFFICES ASSUME NEW k \in bumped
                 PROVE  t.keys[k] \in Nat /\ t.keys[k] > base /\ t.keys[k] <= t.next
      OBVIOUS
    <2>1. PICK i \in 1..m : k = ks[i] /\ i > skipped
      BY <1>6
    <2>2. at(k) = i
      BY <1>3, <2>1
    <2>3. t.keys[k] = base + (i - skipped)
      BY <1>5, <2>2
    <2> HIDE DEF skipped, base, bumped, at
    <2> QED BY <1>2, <1>5, <1>8, <2>1, <2>3
  <1>10. \A k \in kept : ~rolls /\ k \notin bumped /\ k \in DOMAIN s.keys /\ t.keys[k] = s.keys[k]
    BY <1>5
  <1>11. \A k \in DOMAIN s.keys : s.keys[k] \in Nat /\ s.keys[k] <= s.next
    BY DEF GoodTable, IsEpochTable
  <1>12. GoodTable(t)
    <2>1. t.clear \in Nat /\ t.absent \in Nat /\ t.next \in Nat
      BY <1>2, <1>4, <1>5, <1>8
    <2>2. t.next <= MaxSafeInteger /\ t.absent <= t.next
      BY <1>2, <1>4, <1>5, <1>8 DEF GoodTable
    <2>3. DOMAIN t.keys = kept \cup bumped
      BY <1>5
    <2>4. \A k \in DOMAIN t.keys : t.keys[k] \in Nat /\ t.keys[k] <= t.next
      <3> SUFFICES ASSUME NEW k \in kept PROVE t.keys[k] \in Nat /\ t.keys[k] <= t.next
        BY <1>9, <2>3
      <3>1. t.keys[k] = s.keys[k] /\ k \in DOMAIN s.keys /\ ~rolls
        BY <1>10
      <3> QED BY <3>1, <1>11, <1>5, <1>2, <1>4
    <2>5. t.keys \in [DOMAIN t.keys -> Nat]
      <3> HIDE DEF kept, bumped, base, at, skipped
      <3> QED BY <1>5, <2>4
    <2> QED BY <1>5, <1>7, <2>1, <2>2, <2>3, <2>4, <2>5 DEF GoodTable, IsEpochTable
  <1>13. ASSUME NEW k \in Keys PROVE LaterFor(k, s, t)
    <2>1. CASE rolls
      BY <2>1, <1>4, <1>5 DEF LaterFor
    <2>2. CASE ~rolls
      <3>1. t.clear = s.clear /\ t.absent = s.absent /\ base = s.next
        BY <2>2, <1>5
      <3>2. DOMAIN t.keys = DOMAIN s.keys \cup bumped
        BY <2>2, <1>5
      <3>3. KeyEpochIn(s, k) \in Nat /\ KeyEpochIn(s, k) <= s.next
        BY KeyEpochType
      <3>4. CASE k \in bumped
        BY <3>1, <3>2, <3>3, <3>4, <1>4, <1>9 DEF LaterFor, KeyEpochIn
      <3>5. CASE k \notin bumped /\ k \in DOMAIN s.keys
        <4>1. k \in kept
          BY <2>2, <3>5
        <4> QED BY <4>1, <1>10, <3>1, <3>2, <3>3 DEF LaterFor, KeyEpochIn
      <3>6. CASE k \notin bumped /\ k \notin DOMAIN s.keys
        BY <3>6, <3>1, <3>2, <3>3 DEF LaterFor, KeyEpochIn
      <3> QED BY <3>4, <3>5, <3>6
    <2> QED BY <2>1, <2>2
  <1>14. ASSUME NEW i \in DOMAIN ks PROVE PastFor(ks[i], s, t)
    <2>1. CASE rolls
      BY <2>1, <1>4, <1>5 DEF PastFor
    <2>2. CASE ~rolls
      <3>1. ks[i] \in bumped /\ t.clear = s.clear /\ base = s.next /\ ks[i] \in Keys
        BY <1>2, <2>2, <1>5
      <3>2. ks[i] \in DOMAIN t.keys
        BY <3>1, <1>5
      <3>3. KeyEpochIn(s, ks[i]) \in Nat /\ KeyEpochIn(s, ks[i]) <= s.next
        BY <3>1, KeyEpochType
      <3> QED BY <3>1, <3>2, <3>3, <1>4, <1>9 DEF PastFor, KeyEpochIn
    <2> QED BY <2>1, <2>2
  <1> QED BY <1>12, <1>13, <1>14 DEF t

\* Pruning never brings a token back: a pruned key gets the rotated one.
LEMMA PruneLater ==
    ASSUME NEW s, GoodTable(s)
    PROVE  /\ GoodTable(Prune(s))
           /\ \A k \in Keys : LaterFor(k, s, Prune(s))
  <1> DEFINE size   == Cardinality(DOMAIN s.keys)
             victim == OldestKeys(s, (size + 9) \div 10)
             kept   == [k \in DOMAIN s.keys \ victim |-> s.keys[k]]
             t      == [s EXCEPT !.keys = kept]
             a      == AllocateKeyEpoch(t)
             p      == [a EXCEPT !.absent = a.next]
  <1>1. CASE size <= MaxKeyEpochs
    <2>1. Prune(s) = s
      BY <1>1 DEF Prune
    <2>2. \A k \in Keys : KeyEpochIn(s, k) \in Nat
      BY KeyEpochType
    <2> QED BY <2>1, <2>2 DEF LaterFor
  <1>2. CASE ~(size <= MaxKeyEpochs)
    <2>1. Prune(s) = p
      BY <1>2 DEF Prune
    <2>2. /\ DOMAIN s = {"clear", "keys", "next", "absent"}
          /\ s.clear \in Nat /\ s.next \in Nat /\ s.absent \in Nat
          /\ s.next <= MaxSafeInteger /\ MaxSafeInteger \in Nat /\ MaxSafeInteger > 0
          /\ DOMAIN s.keys \subseteq Keys
          /\ \A k \in DOMAIN s.keys : s.keys[k] \in Nat /\ s.keys[k] <= s.next
      BY MaxSafeIntegerAssumption DEF GoodTable, IsEpochTable
    <2>3. DOMAIN t = DOMAIN s /\ t.keys = kept /\ t.clear = s.clear /\ t.next = s.next
      <3> HIDE DEF kept
      <3> QED BY <2>2
    <2>4. DOMAIN kept \subseteq DOMAIN s.keys /\ \A k \in DOMAIN kept : kept[k] = s.keys[k]
      <3> HIDE DEF victim
      <3> QED OBVIOUS
    <2> HIDE DEF kept, t
    <2>5. CASE s.next >= MaxSafeInteger
      <3>1. a = [clear |-> s.clear + 1, keys |-> << >>, next |-> 1, absent |-> 0]
        BY <2>3, <2>5 DEF AllocateKeyEpoch
      <3>2. p = [clear |-> s.clear + 1, keys |-> << >>, next |-> 1, absent |-> 1]
        BY <3>1
      <3> DEFINE e == << >>
      <3>a. DOMAIN e = {} /\ e \in [DOMAIN e -> Nat]
        OBVIOUS
      <3>b. /\ DOMAIN p = {"clear", "keys", "next", "absent"} /\ p.clear = s.clear + 1
            /\ p.keys = e /\ p.next = 1 /\ p.absent = 1
        BY <3>2
      <3> HIDE DEF e, p
      <3>3. GoodTable(p)
        BY <3>a, <3>b, <2>2 DEF GoodTable, IsEpochTable
      <3> QED BY <3>b, <3>3, <2>1, <2>2 DEF LaterFor
    <2>6. CASE ~(s.next >= MaxSafeInteger)
      <3>1. a = [t EXCEPT !.next = @ + 1]
        BY <2>3, <2>6 DEF AllocateKeyEpoch
      <3>2. /\ DOMAIN a = DOMAIN s /\ a.clear = s.clear /\ a.keys = kept
            /\ a.next = s.next + 1
        BY <3>1, <2>2, <2>3
      <3> HIDE DEF a
      <3>3. /\ DOMAIN p = DOMAIN s /\ p.clear = s.clear /\ p.keys = kept
            /\ p.next = s.next + 1 /\ p.absent = s.next + 1
        BY <3>2, <2>2
      <3> HIDE DEF p
      <3>4. kept \in [DOMAIN kept -> Nat]
        BY <2>2, <2>4 DEF kept
      <3>5. GoodTable(p)
        BY <3>3, <3>4, <2>2, <2>4, <2>6 DEF GoodTable, IsEpochTable
      <3>6. ASSUME NEW k \in Keys PROVE LaterFor(k, s, p)
        <4>1. KeyEpochIn(s, k) \in Nat /\ KeyEpochIn(s, k) <= s.next
          BY KeyEpochType
        <4>2. CASE k \in DOMAIN kept
          BY <4>1, <4>2, <3>3, <2>2, <2>4 DEF LaterFor, KeyEpochIn
        <4>3. CASE k \notin DOMAIN kept
          BY <4>1, <4>3, <3>3, <2>2 DEF LaterFor, KeyEpochIn
        <4> QED BY <4>2, <4>3
      <3> QED BY <3>5, <3>6, <2>1
    <2> QED BY <2>5, <2>6
  <1> QED BY <1>1, <1>2

\* The loop leaves a key that is not listed its token, unless it rolls over.
LEMMA BumpAllKeepsOthers ==
    ASSUME NEW s, GoodTable(s), NEW ks, NEW k \in Keys, \A i \in DOMAIN ks : ks[i] # k
    PROVE  LET t == BumpAll(s, ks)
           IN  \/ t.clear = s.clear + 1
               \/ /\ t.clear = s.clear /\ t.absent = s.absent
                  /\ KeyEpochIn(t, k) = KeyEpochIn(s, k)
  <1> DEFINE rolls   == s.next + Len(ks) > MaxSafeInteger
             skipped == IF rolls THEN MaxSafeInteger - s.next ELSE 0
             bumped  == {ks[i] : i \in {j \in DOMAIN ks : j > skipped}}
             kept    == IF rolls THEN {} ELSE DOMAIN s.keys \ bumped
             base    == IF rolls THEN 0 ELSE s.next
             at(j)   == CHOOSE i \in DOMAIN ks : ks[i] = j
             t       == BumpAll(s, ks)
  <1>1. /\ t.clear = (IF rolls THEN s.clear + 1 ELSE s.clear)
        /\ t.keys = [j \in kept \cup bumped |->
                       IF j \in bumped THEN base + (at(j) - skipped) ELSE s.keys[j]]
        /\ t.absent = (IF rolls THEN 0 ELSE s.absent)
    BY DEF BumpAll
  <1> HIDE DEF t
  <1>2. k \notin bumped
    OBVIOUS
  <1>3. CASE rolls
    BY <1>1, <1>3 DEF t
  <1>4. CASE ~rolls
    <2>1. k \in DOMAIN t.keys <=> k \in DOMAIN s.keys
      BY <1>1, <1>2, <1>4
    <2>2. k \in DOMAIN s.keys => t.keys[k] = s.keys[k]
      BY <1>1, <1>2, <1>4
    <2> QED BY <1>1, <1>4, <2>1, <2>2 DEF KeyEpochIn, t
  <1> QED BY <1>3, <1>4

\* Pruning changes the table only together with the token of absent keys.
LEMMA PruneRotates ==
    ASSUME NEW s, GoodTable(s)
    PROVE  \/ Prune(s) = s
           \/ Prune(s).clear = s.clear + 1
           \/ Prune(s).clear = s.clear /\ Prune(s).absent = s.next + 1
  <1> DEFINE size   == Cardinality(DOMAIN s.keys)
             victim == OldestKeys(s, (size + 9) \div 10)
             kept   == [k \in DOMAIN s.keys \ victim |-> s.keys[k]]
             t      == [s EXCEPT !.keys = kept]
             a      == AllocateKeyEpoch(t)
  <1>1. CASE size <= MaxKeyEpochs
    BY <1>1 DEF Prune
  <1>2. CASE ~(size <= MaxKeyEpochs)
    <2>1. Prune(s) = [a EXCEPT !.absent = a.next]
      BY <1>2 DEF Prune
    <2>2. DOMAIN t = {"clear", "keys", "next", "absent"} /\ t.clear = s.clear /\ t.next = s.next
      <3> HIDE DEF kept
      <3> QED BY DEF GoodTable, IsEpochTable
    <2> HIDE DEF t
    <2>3. \/ a.clear = s.clear + 1
          \/ a.clear = s.clear /\ a.next = s.next + 1
      BY <2>2 DEF AllocateKeyEpoch
    <2>4. DOMAIN a = {"clear", "keys", "next", "absent"}
      BY <2>2 DEF AllocateKeyEpoch
    <2> HIDE DEF a
    <2> QED BY <2>1, <2>3, <2>4
  <1> QED BY <1>1, <1>2
-----------------------------------------------------------------------------
\* Later tables compose.
LEMMA LaterComposes ==
    ASSUME NEW s, NEW t, NEW u, NEW k \in Keys,
           GoodTable(s), GoodTable(t), GoodTable(u), LaterFor(k, t, u)
    PROVE  /\ LaterFor(k, s, t) => LaterFor(k, s, u)
           /\ PastFor(k, s, t) => PastFor(k, s, u)
  <1>1. /\ KeyEpochIn(s, k) \in Nat /\ KeyEpochIn(t, k) \in Nat /\ KeyEpochIn(u, k) \in Nat
        /\ s.clear \in Nat /\ t.clear \in Nat /\ u.clear \in Nat
    BY KeyEpochType DEF GoodTable, IsEpochTable
  <1> QED BY <1>1 DEF LaterFor, PastFor

\* bumpKeyEpochs as a step: later for every key, past it for the listed ones.
LEMMA BumpStep ==
    ASSUME GoodTable(epochs), NEW n \in Nat, n <= MaxSafeInteger,
           NEW ks \in KeyLists(n), BumpKeyEpochs(ks)
    PROVE  /\ GoodTable(epochs')
           /\ \A k \in Keys : LaterFor(k, epochs, epochs')
           /\ \A k \in Keys : (\E i \in DOMAIN ks : ks[i] = k) => PastFor(k, epochs, epochs')
  <1> DEFINE t == BumpAll(epochs, ks)
  <1>1. /\ GoodTable(t)
        /\ \A k \in Keys : LaterFor(k, epochs, t)
        /\ \A i \in DOMAIN ks : PastFor(ks[i], epochs, t)
    BY BumpAllLater
  <1>2. epochs' = Prune(t)
    BY DEF BumpKeyEpochs
  <1> HIDE DEF t
  <1>3. GoodTable(epochs') /\ \A k \in Keys : LaterFor(k, t, epochs')
    BY <1>1, <1>2, PruneLater
  <1> QED BY <1>1, <1>3, LaterComposes

\* bumpKeyEpochs outdates no fence on another key while the token of absent keys
\* and the clear epoch stay.
LEMMA BumpKeepsOthers ==
    ASSUME GoodTable(epochs), NEW n \in Nat, n <= MaxSafeInteger,
           NEW ks \in KeyLists(n), BumpKeyEpochs(ks),
           NEW k \in Keys, \A i \in DOMAIN ks : ks[i] # k,
           epochs'.clear = epochs.clear, epochs'.absent = epochs.absent
    PROVE  KeyEpochIn(epochs', k) = KeyEpochIn(epochs, k)
  <1> DEFINE t == BumpAll(epochs, ks)
  <1>1. GoodTable(t)
    BY BumpAllLater
  <1>2. \/ t.clear = epochs.clear + 1
        \/ /\ t.clear = epochs.clear /\ t.absent = epochs.absent
           /\ KeyEpochIn(t, k) = KeyEpochIn(epochs, k)
    BY BumpAllKeepsOthers
  <1>3. epochs' = Prune(t)
    BY DEF BumpKeyEpochs
  <1> HIDE DEF t
  <1>4. \/ epochs' = t
        \/ epochs'.clear = t.clear + 1
        \/ epochs'.clear = t.clear /\ epochs'.absent = t.next + 1
    BY <1>1, <1>3, PruneRotates
  <1>5. /\ epochs.clear \in Nat /\ t.clear \in Nat /\ t.next \in Nat /\ t.absent \in Nat
        /\ t.absent <= t.next
    BY <1>1 DEF GoodTable, IsEpochTable
  <1> QED BY <1>2, <1>4, <1>5

\* beginClearEpoch as a step: past every key's tokens.
LEMMA ClearStep ==
    ASSUME GoodTable(epochs), BeginClearEpoch
    PROVE  GoodTable(epochs') /\ \A k \in Keys : PastFor(k, epochs, epochs')
  <1> DEFINE e == << >>
  <1>1. DOMAIN e = {} /\ e \in [DOMAIN e -> Nat]
    OBVIOUS
  <1>2. epochs' = [epochs EXCEPT !.clear = @ + 1, !.keys = e]
    BY DEF BeginClearEpoch
  <1> HIDE DEF e
  <1>3. /\ DOMAIN epochs' = {"clear", "keys", "next", "absent"}
        /\ epochs'.clear = epochs.clear + 1 /\ epochs'.keys = e
        /\ epochs'.next = epochs.next /\ epochs'.absent = epochs.absent
    BY <1>2 DEF GoodTable, IsEpochTable
  <1> QED BY <1>1, <1>3 DEF GoodTable, IsEpochTable, PastFor

-----------------------------------------------------------------------------
(* The order of fences.                                                    *)

\* The epochs of a key make a fence, and not one from before itself.
LEMMA CurrentFenceType ==
    ASSUME GoodTable(epochs), NEW k \in Keys
    PROVE  CurrentFence(k) \in Fences /\ ~Precedes(CurrentFence(k), CurrentFence(k))
  <1>1. CurrentKeyEpoch(k) \in Nat /\ epochs.clear \in Nat
    BY KeyEpochType DEF CurrentKeyEpoch, GoodTable, IsEpochTable
  <1> QED BY <1>1 DEF CurrentFence, Fences, Precedes

\* A fence that is not ahead of the epochs does not get ahead of later ones.
LEMMA NotAheadStays ==
    ASSUME GoodTable(epochs), GoodTable(epochs'), NEW k \in Keys,
           LaterFor(k, epochs, epochs'), NEW f \in Fences, NotAhead(f, k)
    PROVE  /\ NotAhead(f, k)'
           /\ IsWriteOutdated(k, f) => IsWriteOutdated(k, f)'
  <1>1. /\ KeyEpochIn(epochs, k) \in Nat /\ KeyEpochIn(epochs', k) \in Nat
        /\ epochs.clear \in Nat /\ epochs'.clear \in Nat
    BY KeyEpochType DEF GoodTable, IsEpochTable
  <1>2. f.clear \in Nat /\ f.key \in Nat
    BY DEF Fences
  <1> QED BY <1>1, <1>2 DEF NotAhead, Precedes, CurrentFence, CurrentKeyEpoch, LaterFor, IsWriteOutdated

\* A fence that precedes another that is not ahead is outdated.
LEMMA PrecededIsOutdated ==
    ASSUME GoodTable(epochs), NEW k \in Keys, NEW f \in Fences, NEW g \in Fences, NotAhead(g, k)
    PROVE  /\ Precedes(f, g) => IsWriteOutdated(k, f)
           /\ IsWriteOutdated(k, g) /\ ~Precedes(g, f) => IsWriteOutdated(k, f)
           /\ ~IsWriteOutdated(k, f) => ~Precedes(f, g)
  <1>1. CurrentKeyEpoch(k) \in Nat /\ epochs.clear \in Nat
    BY KeyEpochType DEF CurrentKeyEpoch, GoodTable, IsEpochTable
  <1>2. f.clear \in Nat /\ f.key \in Nat /\ g.clear \in Nat /\ g.key \in Nat
    BY DEF Fences
  <1> QED BY <1>1, <1>2 DEF NotAhead, Precedes, CurrentFence, IsWriteOutdated
=============================================================================
