---------------------------- MODULE MCWriteBehind ----------------------------
(* WriteBehind for TLC: a queue with room for one operation only, and one    *)
(* with room for a batch of two and one more, with a timer and without.  As  *)
(* no token is kept each invalidation of a key prunes, and fences off the    *)
(* writes of the other.                                                      *)
EXTENDS WriteBehind

CONSTANTS o1, o2, o3,
    Written     \* the keys that calls write; others are only invalidated

MCOps == {o1, o2, o3}

MCQueueOptions == {[batchSize |-> 1, maxQueueSize |-> 1, timer |-> FALSE],
                   [batchSize |-> 2, maxQueueSize |-> 3, timer |-> FALSE],
                   [batchSize |-> 2, maxQueueSize |-> 3, timer |-> TRUE]}

\* Calls differ in nothing but their names, so they are made in this order.
InOrder ==
    /\ stage'[o2] # "idle" => stage'[o1] # "idle"
    /\ stage'[o3] # "idle" => stage'[o2] # "idle"

MCNext == Next /\ InOrder /\ \A o \in Ops : keysOf'[Now(o)] \subseteq Written

MCSpec == Init /\ [][MCNext]_vars /\ Fairness
=============================================================================
