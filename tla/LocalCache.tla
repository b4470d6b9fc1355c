----------------------------- MODULE LocalCache -----------------------------
(* One cache stack, called one call at a time: which entries are in its two  *)
(* layers, how old they are, and what its tag index knows of them. Layer 1   *)
(* is a MemoryLayer of bounded size, layer 2 a shared one that may fail and  *)
(* is then skipped for a while (graceful degradation). An entry carries the  *)
(* tags it was stored with, which the code keeps in the index alone.         *)
(* Ages stand for the envelope's deadlines (see StoredValues): "fresh",      *)
(* "stale" (within a stale window) and "dead" (past all of them).            *)
EXTENDS Naturals, FiniteSets, Sequences, SequencesExt, TagIndex

CONSTANTS TagChoices,     \* the tags a set may pass
          SearchPrefixes, SearchPatterns,
          MaxSize,        \* maxSize of layer 1
          MaxKeys,        \* invalidationMaxKeys
          Scannable       \* the layers that can list their keys

VARIABLES layer,     \* layer[l]: the entries of layer l, a function of their keys
          index,     \* the TagIndex
          skipped,   \* layer 2 is degraded
          shadowed   \* history: keys some call worked on while layer 2 was skipped

vars == <<layer, index, skipped, shadowed>>

Layers == {1, 2}
Ages == {"fresh", "stale", "dead"}
Entry == [age : Ages, tags : SUBSET Tags]

Init ==
    /\ layer = [l \in Layers |-> <<>>]
    /\ index = EmptyIndex
    /\ skipped = FALSE
    /\ shadowed = {}

----------------------------------------------------------------------------
(* Layer operations on the entries m of one layer.                           *)

Without(m, keys) == [k \in DOMAIN m \ keys |-> m[k]]
With(m, key, entry) == [k \in DOMAIN m \cup {key} |-> IF k = key THEN entry ELSE m[k]]

(* What layer 1 may hold after it stored the entry: some policy's victims    *)
(* have left.                                                                *)
Evicted(m) ==
    IF Cardinality(DOMAIN m) <= MaxSize THEN {m}
    ELSE {Without(m, victims) : victims \in
            {v \in SUBSET DOMAIN m : Cardinality(DOMAIN m \ v) = MaxSize}}

(* The layers after an entry was stored in those of ls.                      *)
Stored(layers, ls, key, entry) ==
    LET Put(l) == IF l \in ls THEN With(layers[l], key, entry) ELSE layers[l]
    IN  {<<m, Put(2)>> : m \in Evicted(Put(1))}

(* The layers a call uses: layer 2 not while it is skipped, nor when it fails *)
(* the call, which makes the calls that follow skip it. A call that does not *)
(* need layer 2 cannot see it fail.                                          *)
Answering(ls, needsLayer2) ==
    /\ ls \in {{1}, Layers}
    /\ ls = {1} => skipped \/ needsLayer2
    /\ skipped => ls = {1}
    /\ skipped' = (ls = {1})

(* A call wrote or deleted the keys in the layers of ls only.                *)
Shadow(ls, keys) == shadowed' = IF 2 \in ls THEN shadowed \ keys ELSE shadowed \cup keys

(* Reading -----------------------------------------------------------------*)
(* readFromLayers: the first layer whose entry the mode accepts wins, a dead *)
(* entry met on the way is deleted.                                          *)

Accepted(mode) == IF mode = "fresh-only" THEN {"fresh"} ELSE {"fresh", "stale"}

Hits(ls, key, mode) ==
    {l \in ls : key \in DOMAIN layer[l] /\ layer[l][key].age \in Accepted(mode)}

First(ls) == CHOOSE l \in ls : \A i \in ls : l <= i

DropDead(m, keys) == Without(m, {k \in keys \cap DOMAIN m : m[k].age = "dead"})

(* The layers a read may leave: those above a hit receive its entry          *)
(* (backfill).                                                               *)
AfterRead(ls, key, mode) ==
    LET hits == Hits(ls, key, mode)
        seen == {l \in ls : hits # {} => l <= First(hits)}
        kept == [l \in Layers |-> IF l \in seen THEN DropDead(layer[l], {key}) ELSE layer[l]]
    IN  IF hits = {} THEN {kept}
        ELSE Stored(kept, 1..(First(hits) - 1), key, layer[First(hits)][key])

Retained(ls, key) == Hits(ls, key, "allow-stale") # {}

(* Forgetting the key after every read that returns nothing.                 *)
IndexAfterEveryMiss(ls, key, mode) ==
    IF Hits(ls, key, mode) # {} THEN Touch(index, key) ELSE RemoveKey(index, key)

(* The index forgets the key only if no layer that answered holds a live     *)
(* entry (sawRetainableValue).                                               *)
IndexAfterRead(ls, key, mode) ==
    IF Hits(ls, key, mode) # {} THEN Touch(index, key)
    ELSE IF Retained(ls, key) THEN index ELSE RemoveKey(index, key)

(* get and getEntry ("allow-stale"), and the read of a fetch task that       *)
(* stores nothing because its fetcher failed or its value must not be cached *)
(* ("fresh-only").                                                           *)
Read(key, mode, ls) ==
    /\ Answering(ls, Hits({1}, key, mode) = {})
    /\ layer' \in AfterRead(ls, key, mode)
    /\ index' = IndexAfterRead(ls, key, mode)
    /\ shadowed' = IF 2 \in ls \/ Retained(ls, key) THEN shadowed ELSE shadowed \cup {key}

(* mget of several keys without options: layer by layer, the keys found are  *)
(* touched and backfilled, and the keys no layer had are forgotten. A        *)
(* getMany that fails rejects the call, graceful degradation or not.         *)
MGet(keys, rejected) ==
    LET wanted == ToSet(keys)
        Live(l) == {k \in wanted : l \in Hits(Layers, k, "allow-stale")}
        pending == wanted \ Live(1)
        reads2 == pending # {} /\ ~skipped
        late == IF reads2 /\ ~rejected THEN pending \cap Live(2) ELSE {}
        lost == IF rejected THEN {} ELSE pending \ late
        kept == <<DropDead(layer[1], wanted),
                  IF reads2 /\ ~rejected THEN DropDead(layer[2], pending) ELSE layer[2]>>
        Backfill(states, k) == UNION {Stored(m, {1}, k, layer[2][k]) : m \in states}
        Only(S) == SelectSeq(keys, LAMBDA k : k \in S)
    IN  /\ rejected => reads2
        /\ layer' \in FoldLeft(Backfill, {kept}, Only(late))
        /\ index' = FoldLeft(RemoveKey, FoldLeft(Touch, index, Only(Live(1)) \o Only(late)), Only(lost))
        /\ shadowed' = IF skipped THEN shadowed \cup lost ELSE shadowed
        /\ UNCHANGED skipped

(* Writing -----------------------------------------------------------------*)

(* set, and a fetch that missed and stores what it fetched: storeEntry       *)
(* writes the layers, then tracks the tags. (Strict writes and their         *)
(* failures are the subject of CacheStack.)                                  *)
Set(key, tags, ls) ==
    /\ Answering(ls, TRUE)
    /\ layer' \in Stored(layer, ls, key, [age |-> "fresh", tags |-> tags])
    /\ index' = Track(index, key, tags)
    /\ Shadow(ls, {key})

(* importState: entries come back without their tags, as does a set without  *)
(* any.                                                                      *)
Import(key, ls) ==
    /\ Answering(ls, TRUE)
    /\ layer' \in Stored(layer, ls, key, [age |-> "fresh", tags |-> {}])
    /\ index' = Touch(index, key)
    /\ Shadow(ls, {key})

(* clear empties the layers whether skipped or not; if layer 2 fails, the    *)
(* call rejects before it clears the index.                                  *)
Clear ==
    /\ layer' = [l \in Layers |-> <<>>]
    /\ index' = EmptyIndex
    /\ shadowed' = {}
    /\ UNCHANGED skipped

ClearFails ==
    /\ layer' = [layer EXCEPT ![1] = <<>>]
    /\ UNCHANGED <<index, skipped, shadowed>>

(* Invalidating ------------------------------------------------------------*)

(* deleteKeys: the layers that answer, then the index.                       *)
DeleteKeys(keys, ls) ==
    /\ layer' = [l \in Layers |-> IF l \in ls THEN Without(layer[l], keys) ELSE layer[l]]
    /\ index' = FoldLeft(RemoveKey, index, SetToSeq(keys))
    /\ Shadow(ls, keys)

(* expireKeys: a fresh entry becomes stale, or dead when it has no stale     *)
(* window; keys no layer had are forgotten.                                  *)
Expired(m, keys, windowed) ==
    [k \in DOMAIN m |->
        IF k \in keys /\ m[k].age = "fresh"
        THEN [m[k] EXCEPT !.age = IF k \in windowed THEN "stale" ELSE "dead"] ELSE m[k]]

ExpireKeys(keys, ls) ==
    LET lost == {k \in keys : ~Retained(ls, k)}
    IN  /\ \E windowed \in SUBSET (keys \ lost) :
            layer' = [l \in Layers |-> IF l \in ls THEN Expired(layer[l], keys, windowed)
                                       ELSE layer[l]]
        /\ index' = FoldLeft(RemoveKey, index, SetToSeq(lost))
        /\ Shadow(ls, lost)

Invalidate(op, keys, ls) ==
    IF op = "expire" THEN ExpireKeys(keys, ls) ELSE DeleteKeys(keys, ls)

(* delete, mdelete, expireByKey and expireByKeys, which have no limit.       *)
ByKeys(op, keys, ls) ==
    /\ Answering(ls, TRUE)
    /\ Invalidate(op, keys, ls)

(* The keys a search found are worked on unless there are too many; layer 2  *)
(* may fail after it answered the search.                                    *)
Apply(op, keys, scanned, ls) ==
    IF keys = {} \/ Cardinality(keys) > MaxKeys
    THEN /\ ls = scanned
         /\ skipped' = (scanned = {1})
         /\ UNCHANGED <<layer, index, shadowed>>
    ELSE /\ ls \in {{1}, scanned}
         /\ skipped' = (ls = {1})
         /\ Invalidate(op, keys, ls)

(* invalidateByTags and expireByTags; one tag is invalidateByTag. The limit  *)
(* holds for the keys of each tag too, before mode "all" intersects them.    *)
ByTags(op, tags, mode, ls) ==
    LET keys == IF mode = "all" THEN {k \in Keys : \A t \in tags : k \in KeysForTag(index, t)}
                ELSE UNION {KeysForTag(index, t) : t \in tags}
    IN  /\ \A t \in tags : Cardinality(KeysForTag(index, t)) <= MaxKeys
        /\ Apply(op, keys, IF skipped THEN {1} ELSE Layers, ls)

(* The keys the layers of ls list; a MemoryLayer lists no dead entry.        *)
Listed(ls) ==
    UNION {DOMAIN (IF l = 1 THEN DropDead(layer[1], Keys) ELSE layer[l]) : l \in ls \cap Scannable}

(* A search of the layers: layer 2 is skipped, fails or answers.             *)
Searched(ls) ==
    /\ ls \in {{1}, Layers}
    /\ skipped => ls = {1}
    /\ ls = {1} => skipped \/ 2 \in Scannable

(* invalidateByPrefix and expireByPrefix: the matches of the index and of    *)
(* the layers that can be listed.                                            *)
ByPrefix(op, prefix, scanned, ls) ==
    /\ Searched(scanned)
    /\ Apply(op, KeysForPrefix(index, prefix) \cup {k \in Listed(scanned) : IsPrefix(prefix, k)},
             scanned, ls)

(* invalidateByPattern and expireByPattern, likewise.                        *)
ByPattern(op, pattern, scanned, ls) ==
    /\ Searched(scanned)
    /\ Apply(op, MatchPattern(index, pattern) \cup {k \in Listed(scanned) : Matches(pattern, k)},
             scanned, ls)

(* Time --------------------------------------------------------------------*)

(* An entry passes a deadline, or leaves its layer with the last one.        *)
Age(l, key) ==
    /\ key \in DOMAIN layer[l]
    /\ \/ layer' = [layer EXCEPT ![l] = Without(@, {k \in {key} : @[k].age = "dead"})]
       \/ \E age \in Ages \ {"fresh", layer[l][key].age} :
            /\ layer[l][key].age # "dead"
            /\ layer' = [layer EXCEPT ![l][key].age = age]
    /\ UNCHANGED <<index, skipped, shadowed>>

(* The degraded layer's retryAfterMs has passed.                             *)
Recover == skipped /\ skipped' = FALSE /\ UNCHANGED <<layer, index, shadowed>>

Next ==
    \/ \E key \in Keys, ls \in SUBSET Layers :
        \/ \E mode \in {"allow-stale", "fresh-only"} : Read(key, mode, ls)
        \/ \E tags \in TagChoices : Set(key, tags, ls)
        \/ Import(key, ls)
    \/ \E keys \in SetToSeqs(Keys), rejected \in BOOLEAN : MGet(keys, rejected)
    \/ Clear \/ ClearFails
    \/ \E op \in {"invalidate", "expire"}, ls \in SUBSET Layers :
        \/ \E keys \in SUBSET Keys \ {{}} : ByKeys(op, keys, ls)
        \/ \E t \in Tags : ByTags(op, {t}, "any", ls)
        \/ \E mode \in {"any", "all"} : ByTags(op, Tags, mode, ls)
        \/ \E prefix \in SearchPrefixes, scanned \in SUBSET Layers : ByPrefix(op, prefix, scanned, ls)
        \/ \E pattern \in SearchPatterns, scanned \in SUBSET Layers : ByPattern(op, pattern, scanned, ls)
    \/ \E l \in Layers, key \in Keys : Age(l, key)
    \/ Recover

Spec == Init /\ [][Next]_vars

----------------------------------------------------------------------------
(* Layer 1 stays within its size; the index and the history hold known keys. *)
TypeOK ==
    /\ layer \in [Layers -> UNION {[K -> Entry] : K \in SUBSET Keys}]
    /\ Cardinality(DOMAIN layer[1]) <= MaxSize
    /\ index.keyToTags \in [Keys -> SUBSET Tags] /\ index.tagToKeys \in [Tags -> SUBSET Keys]
    /\ Known(index) \subseteq Keys
    /\ skipped \in BOOLEAN /\ shadowed \subseteq Keys

(* An entry that can still be read is found by every tag it was stored with, *)
(* whatever was evicted, expired, pruned from the known keys or read in      *)
(* between, unless a call worked on its key while layer 2 was skipped        *)
(* (Reader.readFromLayers, CacheStack.storeEntry, deleteKeys, expireKeys).   *)
TagsFindEntries ==
    \A l \in Layers : \A k \in DOMAIN layer[l] \ shadowed :
        layer[l][k].age # "dead" =>
            \A t \in layer[l][k].tags : k \in KeysForTag(index, t)

(* The maps from keys to tags and from tags to keys are each other's         *)
(* inverse, and the trie ends exactly the known keys, keeps no path of a     *)
(* forgotten one, loses no key that another one is a prefix of and is        *)
(* bounded: what a search finds is what was touched, whatever was pruned     *)
(* (TagIndex.track, removeKey, insertKnownKey, removeKnownKey).              *)
IndexIsExact == MapsAgree(index) /\ TrieIsExact(index)
=============================================================================
