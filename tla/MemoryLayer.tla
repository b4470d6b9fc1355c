----------------------------- MODULE MemoryLayer -----------------------------
(* MemoryLayer: a map in insertion order with a size limit. An LRU layer     *)
(* re-inserts what it returns, an LFU layer counts it; both evict inside     *)
(* set and importState. Expired entries go when they are met or pruned, and  *)
(* count towards the size until then.                                        *)
EXTENDS Naturals, SequencesExt

CONSTANTS Keys, MaxSize,
          MaxTime,    \* the bound on the clock
          MaxCount    \* the bound on the access counts

VARIABLES policy,    \* "lru", "lfu" or "fifo"
          entries,   \* the map, oldest first: [key, until, count, at]
          now,
          recent     \* history: the keys by their last use, except deleted ones

vars == <<policy, entries, now, recent>>

Init ==
    /\ policy \in {"lru", "lfu", "fifo"}
    /\ entries = << >> /\ now = 1 /\ recent = << >>

Has(m, k) == \E i \in DOMAIN m : m[i].key = k
At(m, k) == CHOOSE i \in DOMAIN m : m[i].key = k
Without(m, k) == SelectSeq(m, LAMBDA e : e.key # k)

(* expiresAt 0 is null.                                                      *)
IsExpired(e) == e.until # 0 /\ e.until <= now

Use(k) == recent' = Append(SelectSeq(recent, LAMBDA r : r # k), k)
Forget(K) == recent' = SelectSeq(recent, LAMBDA r : r \notin K)

(* LFU: the least used entry, then the one inserted first.                   *)
LfuVictim(m) ==
    CHOOSE i \in DOMAIN m : \A j \in DOMAIN m :
        \/ m[i].count < m[j].count
        \/ /\ m[i].count = m[j].count
           /\ m[i].at < m[j].at \/ (m[i].at = m[j].at /\ i <= j)

(* evict, while there are too many; a set or an import of one adds one.      *)
Evicted(m) ==
    IF Len(m) <= MaxSize THEN m
    ELSE RemoveAt(m, IF policy = "lfu" THEN LfuVictim(m) ELSE 1)

(* A read leaves the entry in its place.                                     *)
Returned(m, k) == [m EXCEPT ![At(m, k)].count = @ + 1]

(* getEntry found the entry.                                                 *)
Accessed(m, k) ==
    LET e == [m[At(m, k)] EXCEPT !.count = @ + 1]
    IN  CASE policy = "lru"  -> Append(Without(m, k), e)
          [] policy = "lfu"  -> [m EXCEPT ![At(m, k)] = e]
          [] policy = "fifo" -> m

(* getEntry, get, getMany.                                                   *)
Get(k) ==
    /\ Has(entries, k)
    /\ IF IsExpired(entries[At(entries, k)])
       THEN entries' = Without(entries, k) /\ Forget({k})
       ELSE /\ entries[At(entries, k)].count < MaxCount
            /\ entries' = Accessed(entries, k) /\ Use(k)
    /\ UNCHANGED <<policy, now>>

(* has, ttl: an expired entry goes, a live one is not accessed.              *)
Look(k) ==
    /\ Has(entries, k) /\ IsExpired(entries[At(entries, k)])
    /\ entries' = Without(entries, k) /\ Forget({k})
    /\ UNCHANGED <<policy, now>>

(* set, setMany.                                                             *)
Set(k, ttl) ==
    /\ entries' = Evicted(Append(Without(entries, k),
                    [key |-> k, until |-> IF ttl = 0 THEN 0 ELSE now + ttl, count |-> 0, at |-> now]))
    /\ Use(k)
    /\ UNCHANGED <<policy, now>>

(* delete, deleteMany, clear.                                                *)
Delete(K) ==
    /\ entries' = SelectSeq(entries, LAMBDA e : e.key \notin K)
    /\ Forget(K)
    /\ UNCHANGED <<policy, now>>

(* pruneExpired: the cleanup timer, size, keys, forEachKey, exportState.     *)
Prune ==
    /\ entries' = SelectSeq(entries, LAMBDA e : ~IsExpired(e))
    /\ Forget({entries[i].key : i \in {j \in DOMAIN entries : IsExpired(entries[j])}})
    /\ UNCHANGED <<policy, now>>

(* importState of one entry: an entry that is over is left out, one for a    *)
(* key of the map takes its place there.                                     *)
Import(k, until) ==
    LET e == [key |-> k, until |-> until, count |-> 0, at |-> now]
    IN  /\ ~IsExpired(e)
        /\ IF Has(entries, k)
           THEN entries' = [entries EXCEPT ![At(entries, k)] = e] /\ UNCHANGED recent
           ELSE entries' = Evicted(Append(entries, e)) /\ Use(k)
        /\ UNCHANGED <<policy, now>>

Tick == now < MaxTime /\ now' = now + 1 /\ UNCHANGED <<policy, entries, recent>>

Next ==
    \/ \E k \in Keys : Get(k) \/ Look(k) \/ \E t \in 0..2 : Set(k, t) \/ Import(k, t)
    \/ \E K \in SUBSET Keys \ {{}} : Delete(K)
    \/ Prune \/ Tick

Spec == Init /\ [][Next]_vars

----------------------------------------------------------------------------
UsedBefore(uses, k, other) ==
    \E m, n \in DOMAIN uses : m < n /\ uses[m] = k /\ uses[n] = other

(* A live entry leaves the layer only by a delete, or when as many entries   *)
(* as the layer may hold stay, of an LRU layer those that were used after    *)
(* it: no policy evicts early, pruning and lookups take expired entries      *)
(* only, and neither looking (has, ttl) nor re-importing counts as use       *)
(* (evict, pruneExpired, getEntry). Which entry an LFU or FIFO layer picks is*)
(* not said here.                                                            *)
LiveEntriesStay ==
    [][\A i \in DOMAIN entries :
        LET k == entries[i].key
        IN  \/ IsExpired(entries[i]) \/ Has(entries', k)
            \/ \E K \in SUBSET Keys \ {{}} : k \in K /\ Delete(K)
            \/ /\ Len(entries') = MaxSize
               /\ policy = "lru" =>
                    \A j \in DOMAIN entries' : UsedBefore(recent', k, entries'[j].key)]_vars
=============================================================================
