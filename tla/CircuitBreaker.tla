--------------------------- MODULE CircuitBreaker ----------------------------
(***************************************************************************)
(* CircuitBreakerManager: a breaker counts the failures of its key and is  *)
(* open for a cooldown once they reach the threshold.  The table of        *)
(* breakers is bounded.                                                    *)
(*                                                                         *)
(* left is the ticks until openUntil; order is the insertion order of the  *)
(* Map, which is also the order of createdAt: set() keeps the place of an  *)
(* entry and a deleted one is created anew.                                *)
(***************************************************************************)
EXTENDS Naturals, SequencesExt

CONSTANTS
    Breakers,           \* the breaker keys, see resolveCircuitBreakerKey
    FailureThreshold,   \* failureThreshold
    Cooldown,           \* cooldownMs, in ticks
    MaxEntries          \* maxEntries

ASSUME BreakerAssumption ==
    /\ FailureThreshold \in Nat \ {0} /\ Cooldown \in Nat \ {0} /\ MaxEntries \in Nat \ {0}

VARIABLE breakers   \* a sequence of [key, failures, open, left]

BreakerStates ==
    [key : Breakers, failures : Nat, open : BOOLEAN, left : 0..Cooldown]

BreakerTypeOK ==
    /\ breakers \in Seq(BreakerStates)
    /\ \A i, j \in DOMAIN breakers : breakers[i].key = breakers[j].key => i = j
    /\ Len(breakers) <= MaxEntries

InitBreakers == breakers = << >>

-----------------------------------------------------------------------------
\* bs without the entries at the positions gone.
DropAt(bs, gone) ==
    [i \in 1..(Len(bs) - Cardinality(gone)) |->
       bs[CHOOSE j \in DOMAIN bs \ gone : Cardinality({h \in DOMAIN bs \ gone : h < j}) = i - 1]]

Forget(bs, b) == DropAt(bs, {i \in DOMAIN bs : bs[i].key = b})
Holds(bs, b) == \E i \in DOMAIN bs : bs[i].key = b
At(bs, b) == CHOOSE i \in DOMAIN bs : bs[i].key = b

\* Open, and the cooldown has not elapsed.
IsOpenIn(bs, b) == \E i \in DOMAIN bs : bs[i].key = b /\ bs[i].open /\ bs[i].left > 0

\* Open with an elapsed cooldown: whoever looks deletes it.
Elapsed(bs, b) == \E i \in DOMAIN bs : bs[i].key = b /\ bs[i].open /\ bs[i].left = 0

\* assertClosed(), which lets the caller pass unless the breaker is open.
AssertClosed(b) ==
    breakers' = IF Elapsed(breakers, b) THEN Forget(breakers, b) ELSE breakers

\* The first n of some positions.
FirstOf(hits, n) == {i \in hits : Cardinality({j \in hits : j < i}) < n}

Excess(bs) == IF Len(bs) > MaxEntries THEN Len(bs) - MaxEntries ELSE 0

\* Mutant: the oldest entries go first, open or not.
PruneOldest(bs) == DropAt(bs, FirstOf(DOMAIN bs, Excess(bs)))

\* pruneIfNeeded(): entries that are not open go first, then the oldest.
PruneBreakers(bs) ==
    LET calm == DropAt(bs, FirstOf({i \in DOMAIN bs : ~bs[i].open \/ bs[i].left = 0}, Excess(bs)))
    IN  DropAt(calm, FirstOf(DOMAIN calm, Excess(calm)))

\* One more failure; every one from the threshold on restarts the cooldown.
Failed(s) ==
    LET n == s.failures + 1
    IN  IF n >= FailureThreshold THEN [s EXCEPT !.failures = n, !.open = TRUE, !.left = Cooldown]
        ELSE [s EXCEPT !.failures = n]

\* recordFailure()
RecordFailure(b) ==
    LET new  == [key |-> b, failures |-> 0, open |-> FALSE, left |-> 0]
        with == IF Holds(breakers, b) THEN breakers ELSE Append(breakers, new)
        i    == At(with, b)
    IN  breakers' = PruneBreakers([with EXCEPT ![i] = Failed(@)])

\* recordSuccess() and delete(), also called when a key is invalidated.
RecordSuccess(b) == breakers' = Forget(breakers, b)

\* clear()
ClearBreakers == breakers' = << >>

BreakerTick ==
    breakers' = [i \in DOMAIN breakers |->
                   [breakers[i] EXCEPT !.left = IF @ > 0 THEN @ - 1 ELSE 0]]
=============================================================================
