------------------------------ MODULE TagIndex ------------------------------
(* The in-process tag index (invalidation/TagIndex.ts) as operators on an    *)
(* index record. A key is a sequence of characters:                          *)
(*   keyToTags, tagToKeys  the two maps; an empty set stands for no entry    *)
(*   knownKeys             the known keys, oldest touch first (the refresh   *)
(*                         interval, which only spares moves to the end of   *)
(*                         this order, is taken as elapsed)                  *)
(*   nodes, terminal       the trie: the paths of its nodes, and of those    *)
(*                         that end a known key                              *)
EXTENDS Naturals, Sequences, SequencesExt, PatternMatcher

CONSTANTS Keys, Tags, MaxKnownKeys

EmptyIndex ==
    [keyToTags |-> [k \in Keys |-> {}], tagToKeys |-> [t \in Tags |-> {}],
     knownKeys |-> <<>>, nodes |-> {<<>>}, terminal |-> {}]

Known(index) == ToSet(index.knownKeys)

PathTo(key) == {SubSeq(key, 1, n) : n \in 1..Len(key)}

(* The nodes left when a path is cut back from its end to the last node that *)
(* ends another key or leads to one.                                         *)
NodesWithout(index, key) ==
    {n \in index.nodes :
        n \notin PathTo(key) \/ \E m \in index.nodes :
            /\ IsPrefix(n, m)
            /\ m \notin PathTo(key) \/ m \in index.terminal \ {key}}

RemoveKnownKey(index, key) ==
    IF key \notin Known(index) THEN index
    ELSE [index EXCEPT !.knownKeys = SelectSeq(@, LAMBDA k : k # key),
                       !.terminal = @ \ {key},
                       !.nodes = NodesWithout(index, key)]

(* Forgetting the oldest tenth of the keys once there are too many.          *)
PruneKnownKeysIfNeeded(index) ==
    IF Len(index.knownKeys) <= MaxKnownKeys THEN index
    ELSE FoldLeft(RemoveKnownKey, index,
                  SubSeq(index.knownKeys, 1, (MaxKnownKeys + 9) \div 10))

Touch(index, key) ==
    PruneKnownKeysIfNeeded(
        [index EXCEPT !.knownKeys = Append(SelectSeq(@, LAMBDA k : k # key), key),
                      !.terminal = @ \cup {key},
                      !.nodes = @ \cup PathTo(key)])

(* Tracking that leaves the key among the keys of its old tags.              *)
TrackWithoutUnlinking(index, key, tags) ==
    LET touched == Touch(index, key)
    IN  IF tags = {} THEN touched
        ELSE [touched EXCEPT
                !.keyToTags[key] = tags,
                !.tagToKeys = [t \in Tags |-> IF t \in tags THEN @[t] \cup {key} ELSE @[t]]]

(* The tags replace the old ones, unless there are none.                     *)
Track(index, key, tags) ==
    LET touched == Touch(index, key)
    IN  IF tags = {} THEN touched
        ELSE [touched EXCEPT
                !.keyToTags[key] = tags,
                !.tagToKeys = [t \in Tags |->
                    IF t \in tags THEN @[t] \cup {key}
                    ELSE IF t \in index.keyToTags[key] THEN @[t] \ {key} ELSE @[t]]]

RemoveKey(index, key) ==
    [RemoveKnownKey(index, key) EXCEPT
        !.keyToTags[key] = {},
        !.tagToKeys = [t \in Tags |->
            IF t \in index.keyToTags[key] THEN @[t] \ {key} ELSE @[t]]]

KeysForTag(index, tag) == index.tagToKeys[tag]

(* findNode and the walk below it: the known keys that start with a prefix.  *)
KeysForPrefix(index, prefix) ==
    {n \in index.terminal : prefix \in index.nodes /\ IsPrefix(prefix, n)}

MatchPattern(index, pattern) ==
    {k \in KeysForPrefix(index, LiteralPrefix(pattern)) : Matches(pattern, k)}

(* The two maps are each other's inverse.                                    *)
MapsAgree(index) ==
    \A k \in Keys, t \in Tags : t \in index.keyToTags[k] <=> k \in index.tagToKeys[t]

(* The trie holds the known keys and no other path, and there are not more   *)
(* than allowed.                                                             *)
TrieIsExact(index) ==
    /\ index.terminal = Known(index)
    /\ index.nodes = {<<>>} \cup UNION {PathTo(k) : k \in Known(index)}
    /\ Len(index.knownKeys) <= MaxKnownKeys
=============================================================================
