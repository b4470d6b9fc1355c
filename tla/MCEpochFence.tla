----------------------------- MODULE MCEpochFence ----------------------------
(* EpochFence on a table of two entries and six integers, so that pruning  *)
(* and the roll-over both happen while fences are held.                     *)
EXTENDS EpochFence, SequencesExt

\* The closed form of the loop gives what running the loop key by key gives,
\* from every reachable table (bumpKeyEpochs, CacheStackMaintenance.ts).
BumpAllIsTheLoop ==
    \A ks \in KeyLists(MaxList) :
        BumpAll(epochs, ks) = FoldLeft(SetKeyEpoch, epochs, ks)
=============================================================================
