------------------------------ MODULE KeyEpochs ------------------------------
(***************************************************************************)
(* The epoch tokens of CacheStackMaintenance (src/internal).  A fence is   *)
(* the pair of the clear epoch and a key's token, captured when an         *)
(* operation starts; the operation's writes are outdated as soon as either *)
(* has moved on.  The table of tokens is bounded: pruning drops the oldest *)
(* tenth and gives every key without an entry a new, shared token.         *)
(*                                                                         *)
(* keyEpochs is a JavaScript Map, iterated in insertion order.  An entry   *)
(* is deleted and re-inserted whenever it gets a token, tokens only grow   *)
(* while the table lives, and the roll-over empties the table, so the      *)
(* insertion order is the order of the tokens and needs no state of its    *)
(* own.                                                                    *)
(***************************************************************************)
EXTENDS CacheKeys, Naturals, FiniteSets, Sequences

CONSTANTS
    MaxKeyEpochs,     \* MAX_KEY_EPOCHS, entries kept before pruning
    MaxSafeInteger    \* Number.MAX_SAFE_INTEGER, the last token

ASSUME MaxKeyEpochsAssumption == MaxKeyEpochs \in Nat
ASSUME MaxSafeIntegerAssumption == MaxSafeInteger \in Nat \ {0}

VARIABLE epochs       \* the epoch fields of the one maintenance object

\* The four fields: clearEpoch, keyEpochs, nextKeyEpoch, absentKeyEpoch.
IsEpochTable(s) ==
    /\ DOMAIN s = {"clear", "keys", "next", "absent"}
    /\ s.clear \in Nat
    /\ s.next \in Nat
    /\ s.absent \in Nat
    /\ DOMAIN s.keys \subseteq Keys
    /\ s.keys \in [DOMAIN s.keys -> Nat]

InitialEpochs == [clear |-> 0, keys |-> << >>, next |-> 0, absent |-> 0]

Fences == [clear : Nat, key : Nat]

\* A list of keys as the invalidation paths pass it, without repetitions: a
\* key listed twice would only take one more token.
KeyLists(n) ==
    UNION {{ks \in [1..m -> Keys] :
              \A i, j \in 1..m : ks[i] = ks[j] => i = j} : m \in 1..n}

-----------------------------------------------------------------------------
\* Mutant: a key without an entry reads the allocator instead of absentKeyEpoch.
NextForAbsent(s, k) == IF k \in DOMAIN s.keys THEN s.keys[k] ELSE s.next

\* currentKeyEpoch(key)
KeyEpochIn(s, k) == IF k \in DOMAIN s.keys THEN s.keys[k] ELSE s.absent

CurrentKeyEpoch(k) == KeyEpochIn(epochs, k)

\* The fence an operation on k takes along when it starts.
CurrentFence(k) == [clear |-> epochs.clear, key |-> CurrentKeyEpoch(k)]

IsWriteOutdated(k, f) ==
    \/ f.clear # epochs.clear
    \/ f.key # CurrentKeyEpoch(k)

-----------------------------------------------------------------------------
\* Mutant: the last integer is passed before the roll-over.
AllocatePastLimit(s) ==
    IF s.next > MaxSafeInteger
    THEN [clear |-> s.clear + 1, keys |-> << >>, next |-> 1, absent |-> 0]
    ELSE [s EXCEPT !.next = @ + 1]

\* One token; running out of integers starts a new clear epoch and an empty
\* table, so that no fence from before can be met again.
AllocateKeyEpoch(s) ==
    IF s.next >= MaxSafeInteger
    THEN [clear |-> s.clear + 1, keys |-> << >>, next |-> 1, absent |-> 0]
    ELSE [s EXCEPT !.next = @ + 1]

\* One turn of bumpKeyEpochs' loop.
SetKeyEpoch(s, k) ==
    LET a == AllocateKeyEpoch(s)
    IN  [a EXCEPT !.keys = [j \in DOMAIN a.keys \cup {k} |->
                              IF j = k THEN a.next ELSE a.keys[j]]]

\* The loop of bumpKeyEpochs over the list ks, in closed form: position i
\* gets the i-th new token, and when the integers run out on the way only
\* the positions after the roll-over are left in the table.
BumpAll(s, ks) ==
    LET room    == MaxSafeInteger - s.next
        rolls   == s.next + Len(ks) > MaxSafeInteger
        skipped == IF rolls THEN room ELSE 0
        bumped  == {ks[i] : i \in {j \in DOMAIN ks : j > skipped}}
        kept    == IF rolls THEN {} ELSE DOMAIN s.keys \ bumped
        base    == IF rolls THEN 0 ELSE s.next
        at(k)   == CHOOSE i \in DOMAIN ks : ks[i] = k
    IN  [clear  |-> IF rolls THEN s.clear + 1 ELSE s.clear,
         keys   |-> [k \in kept \cup bumped |->
                       IF k \in bumped THEN base + (at(k) - skipped)
                                       ELSE s.keys[k]],
         next   |-> base + (Len(ks) - skipped),
         absent |-> IF rolls THEN 0 ELSE s.absent]

\* The n entries that were inserted first.
OldestKeys(s, n) ==
    {k \in DOMAIN s.keys :
       Cardinality({j \in DOMAIN s.keys : s.keys[j] < s.keys[k]}) < n}

\* Mutant: the token of absent keys stays when entries are pruned.
PruneKeepsAbsent(s) ==
    LET size   == Cardinality(DOMAIN s.keys)
        victim == OldestKeys(s, (size + 9) \div 10)
    IN  IF size <= MaxKeyEpochs THEN s
        ELSE [s EXCEPT !.keys = [k \in DOMAIN s.keys \ victim |-> s.keys[k]]]

\* pruneKeyEpochsIfNeeded: ceil(size / 10) entries go and, since a pruned key
\* looks like one never seen, the token of absent keys is rotated.
Prune(s) ==
    LET size   == Cardinality(DOMAIN s.keys)
        victim == OldestKeys(s, (size + 9) \div 10)
        t      == [s EXCEPT !.keys = [k \in DOMAIN s.keys \ victim |->
                                        s.keys[k]]]
        a      == AllocateKeyEpoch(t)
    IN  IF size <= MaxKeyEpochs THEN s ELSE [a EXCEPT !.absent = a.next]

-----------------------------------------------------------------------------
InitEpochs == epochs = InitialEpochs

\* bumpKeyEpochs(keys)
BumpKeyEpochs(ks) == epochs' = Prune(BumpAll(epochs, ks))

\* beginClearEpoch(): the token of absent keys is left as it is.
BeginClearEpoch == epochs' = [epochs EXCEPT !.clear = @ + 1, !.keys = << >>]

-----------------------------------------------------------------------------
(* The order of fences, of which the code only tests equality.             *)

\* A fence from before g, on the same key.
Precedes(f, g) == f.clear < g.clear \/ (f.clear = g.clear /\ f.key < g.key)

NotAhead(f, k) == ~Precedes(CurrentFence(k), f)
=============================================================================
