----------------------------- MODULE CacheStack ------------------------------
(***************************************************************************)
(* Concurrent calls of one CacheStack: set, mset, get with and without a   *)
(* fetcher, delete / mdelete and clear, over layers whose commands take    *)
(* effect at any later time and in any order (CacheLayer is an interface;  *)
(* only what it promises is assumed: a command that resolved has taken     *)
(* effect).                                                                *)
(*                                                                         *)
(* Three mechanisms keep the layers right: fences (KeyEpochs), per-key     *)
(* write ordering (OrderedWrites, which WriteChains implements) and the    *)
(* check after the write, with its compensating cleanup.                   *)
(*                                                                         *)
(* A value is named by the call that produced it.  A layer maps a key to   *)
(* the call that stored the entry; op[o].val is the value that call        *)
(* stored, its own or, for a backfill, one read from a lower layer.        *)
(*                                                                         *)
(* Entries do not expire, and writes are write-through.                    *)
(***************************************************************************)
EXTENDS KeyEpochs

CONSTANTS
    Ops,            \* the calls, each made at most once
    None,           \* no entry, no value
    NumLayers,      \* layer 1 is read first
    Calls,          \* the API used: "set", "mset", "get", "fetch", "delete", "clear"
    MaxList,        \* bound: keys of one mset or mdelete
    WritePolicy,    \* writePolicy: "strict" or "best-effort"
    Graceful,       \* gracefulDegradation is configured
    MayFail         \* layers whose commands may fail

Layers == 1..NumLayers

ASSUME LayersAssumption == NumLayers \in Nat \ {0} /\ MayFail \subseteq Layers
ASSUME NoneAssumption == None \notin Ops
ASSUME MaxListAssumption == MaxList \in Nat /\ MaxList <= MaxSafeInteger
ASSUME PolicyAssumption == WritePolicy \in {"strict", "best-effort"} /\ Graceful \in BOOLEAN

VARIABLES
    phase, keysOf, before,  \* the ordering boundary, see OrderedWrites
    op,                     \* op[o]: the locals of call o
    pend,                   \* commands sent to layers that have no answer yet
    store,                  \* store[l][k]: the call that stored the entry, or None
    tracked,                \* keys known to the tag index
    degraded,               \* layers with a layerDegradedUntil in the future
    failed,                 \* history: layers that failed a command
    barrier                 \* history: k's fence after its latest invalidation

INSTANCE OrderedWrites

chainVars == <<phase, keysOf, before>>

vars == <<epochs, phase, keysOf, before, op, pend, store, tracked, degraded, failed,
          barrier>>

-----------------------------------------------------------------------------
NoFence == [clear |-> 0, key |-> 0]

Pcs == {"idle", "reading", "hit", "missed", "fetching", "writing",
        "cleaning", "settling", "indexing", "erasing", "done"}

OpRecords ==
    [call : {"none", "set", "mset", "get", "fetch", "delete", "clear"},
     pc : Pcs,
     keys : SUBSET Keys,
     fence : [Keys -> Fences],      \* the epochs the write depends on
     readFence : [Keys -> Fences],  \* readFence of the latest readFromLayers
     val : Ops \cup {None},
     again : BOOLEAN,               \* in fetchTask's second look at the layers
     at : Layers,                   \* the layer being read
     targets : SUBSET Layers,       \* layers the write was built for
     cleans : SUBSET Layers,        \* layers its cleanup deletes from
     open : SUBSET Layers,          \* layer operations that go on
     rejected : SUBSET Layers,      \* layer operations that rejected
     gaveUp : SUBSET Layers,        \* degraded while this batch wrote to them
     active : SUBSET Keys,          \* entries found current when it ran
     todo : SUBSET Keys]            \* keys left to update in the tag index

NewOp == [call |-> "none", pc |-> "idle", keys |-> {},
          fence |-> [k \in Keys |-> NoFence], readFence |-> [k \in Keys |-> NoFence],
          val |-> None, again |-> FALSE, at |-> 1, targets |-> {}, cleans |-> {}, open |-> {},
          rejected |-> {}, gaveUp |-> {}, active |-> {}, todo |-> {}]

Commands == [by : Ops, layer : Layers, key : Keys, kind : {"set", "delete"}]

TypeOK ==
    /\ IsEpochTable(epochs)
    /\ OrderTypeOK
    /\ op \in [Ops -> OpRecords]
    /\ pend \subseteq Commands
    /\ store \in [Layers -> [Keys -> Ops \cup {None}]]
    /\ tracked \subseteq Keys
    /\ degraded \subseteq Layers
    /\ failed \subseteq Layers
    /\ barrier \in [Keys -> Fences]

Init ==
    /\ InitEpochs
    /\ InitOrder
    /\ op = [o \in Ops |-> NewOp]
    /\ pend = {}
    /\ store = [l \in Layers |-> [k \in Keys |-> None]]
    /\ tracked = {}
    /\ degraded = {}
    /\ failed = {}
    /\ barrier = [k \in Keys |-> NoFence]

-----------------------------------------------------------------------------
\* The fences a call captures on its keys.
FencesOn(K) == [k \in Keys |-> IF k \in K THEN CurrentFence(k) ELSE NoFence]

Outdated(o, k) == IsWriteOutdated(k, op[o].fence[k])

SetCommands(o, L, K) == [by : {o}, layer : L, key : K, kind : {"set"}]
DeleteCommands(o, L, K) == [by : {o}, layer : L, key : K, kind : {"delete"}]

\* The answers o waits for.  Nothing is awaited of a rejected layer operation,
\* nor are the other sets of a batch once one of them degraded the layer.
Awaited(o) ==
    {c \in pend : /\ c.by = o
                  /\ c.layer \notin op[o].rejected
                  /\ c.kind = "set" => c.layer \notin op[o].gaveUp}

\* Running a backfill rather than writing a value of its own.
IsBackfill(o) == op[o].val # o

\* Layers that shouldSkipLayer lets through.
Usable == Layers \ degraded

-----------------------------------------------------------------------------
(* Writes: set, mset and the store at the end of a fetch.                  *)

\* set: storeEntry -> writeAcrossLayers -> runFencedWrite -> the chain.
StartSet(o, k) ==
    /\ "set" \in Calls
    /\ op[o].pc = "idle"
    /\ Admit(o, {k})
    /\ op' = [op EXCEPT ![o] = [@ EXCEPT !.call = "set", !.pc = "writing", !.keys = {k},
                                         !.fence = FencesOn({k}), !.val = o,
                                         !.targets = Layers, !.cleans = Usable]]
    /\ UNCHANGED <<epochs, pend, store, tracked, degraded, failed, barrier>>

\* mset: writeBatch builds one operation per usable layer.
StartMset(o, K) ==
    /\ "mset" \in Calls
    /\ op[o].pc = "idle"
    /\ Admit(o, K)
    /\ op' = [op EXCEPT ![o] = [@ EXCEPT !.call = "mset", !.pc = "writing", !.keys = K,
                                         !.fence = FencesOn(K), !.val = o,
                                         !.targets = Usable]]
    /\ UNCHANGED <<epochs, pend, store, tracked, degraded, failed, barrier>>

\* Layers the operation sends its sets to: writeAcrossLayers looks at the
\* degraded layers again when it runs, writeBatch and backfill do not.
RunLayers(o) ==
    IF op[o].call \in {"set", "fetch"} /\ ~IsBackfill(o)
    THEN op[o].targets \cap Usable ELSE op[o].targets

\* The operation's turn: outdated entries are dropped, the others are sent to
\* every layer at once.
Run(o) ==
    LET current == {k \in keysOf[o] : ~Outdated(o, k)}
    IN  /\ op[o].pc = "writing"
        /\ Begin(o)
        /\ IF current = {}
           THEN /\ op' = [op EXCEPT ![o] = [@ EXCEPT !.pc = "settling",
                                                     !.todo = IF op[o].call = "mset"
                                                              THEN keysOf[o] ELSE {}]]
                /\ pend' = pend
           ELSE /\ op' = [op EXCEPT ![o] = [@ EXCEPT !.open = RunLayers(o), !.active = current]]
                /\ pend' = pend \cup SetCommands(o, RunLayers(o), current)
        /\ UNCHANGED <<epochs, store, tracked, degraded, failed, barrier>>

\* Mutant: the fence is not checked again after the write.
CommitUnchecked(o) ==
    /\ op[o].call # "mset" /\ op[o].pc = "writing" /\ phase[o] = "running"
    /\ Awaited(o) = {}
    /\ op' = [op EXCEPT ![o] = [@ EXCEPT !.pc = "settling", !.open = {},
                                         !.todo = IF IsBackfill(o) THEN {} ELSE op[o].active]]
    /\ UNCHANGED <<epochs, chainVars, pend, store, tracked, degraded, failed, barrier>>

\* runFencedWrite after its operation: commit, or clean up what was written.
\* executeLayerOperations throws when every layer operation rejected.
CheckSingle(o) ==
    /\ op[o].call # "mset" /\ op[o].pc = "writing" /\ phase[o] = "running"
    /\ Awaited(o) = {}
    /\ IF op[o].rejected # Layers /\ \E k \in op[o].active : Outdated(o, k)
       THEN /\ op' = [op EXCEPT ![o] = [@ EXCEPT !.pc = "cleaning", !.open = {}]]
            /\ pend' = pend \cup DeleteCommands(o, op[o].cleans, op[o].active)
       ELSE /\ op' = [op EXCEPT ![o] = [@ EXCEPT !.pc = "settling", !.open = {},
                                                 !.todo = IF IsBackfill(o) \/ op[o].rejected = Layers
                                                          THEN {} ELSE op[o].active]]
            /\ pend' = pend
    /\ UNCHANGED <<epochs, chainVars, store, tracked, degraded, failed, barrier>>

\* Mutant: the cleanup is not awaited.
CleanedEarly(o) ==
    /\ op[o].pc = "cleaning"
    /\ op' = [op EXCEPT ![o].pc = "settling"]
    /\ UNCHANGED <<epochs, chainVars, pend, store, tracked, degraded, failed, barrier>>

\* The cleanup's deletes have been answered: the write did not commit.
Cleaned(o) ==
    /\ op[o].pc = "cleaning"
    /\ \A c \in pend : c.by # o
    /\ op' = [op EXCEPT ![o].pc = "settling"]
    /\ UNCHANGED <<epochs, chainVars, pend, store, tracked, degraded, failed, barrier>>

\* writeBatch after one layer's writes: the keys K are removed from this layer.
CheckLayerOf(o, l, K) ==
    /\ op[o].call = "mset" /\ op[o].pc = "writing" /\ phase[o] = "running"
    /\ l \in op[o].open
    /\ \A c \in Awaited(o) : c.layer # l
    /\ op' = [op EXCEPT ![o].open = @ \ {l}]
    /\ pend' = pend \cup DeleteCommands(o, {l}, K)
    /\ UNCHANGED <<epochs, chainVars, store, tracked, degraded, failed, barrier>>

\* Mutant: the batch is never cleaned up.
CheckLayerKeepsAll(o, l) == CheckLayerOf(o, l, {})

\* Entries that became outdated meanwhile are removed.
CheckLayer(o, l) == CheckLayerOf(o, l, {k \in op[o].active : Outdated(o, k)})

BatchDone(o) ==
    /\ op[o].call = "mset" /\ op[o].pc = "writing" /\ phase[o] = "running"
    /\ op[o].open = {} /\ Awaited(o) = {}
    /\ op' = [op EXCEPT ![o] = [@ EXCEPT !.pc = "settling",
                                         !.todo = IF op[o].rejected # {} /\ op[o].rejected = op[o].targets
                                                  THEN {} ELSE keysOf[o]]]
    /\ UNCHANGED <<epochs, chainVars, pend, store, tracked, degraded, failed, barrier>>

\* The serialised operation ends and the next one on its keys may run.
Finish(o) ==
    /\ op[o].pc = "settling"
    /\ Settle(o)
    /\ op' = [op EXCEPT ![o].pc = IF op[o].todo = {} THEN "done" ELSE "indexing"]
    /\ UNCHANGED <<epochs, pend, store, tracked, degraded, failed, barrier>>

\* tagIndex.track or touch, one key at a time, unless outdated by now.
Index(o, k) ==
    /\ op[o].pc = "indexing"
    /\ k \in op[o].todo
    /\ tracked' = IF Outdated(o, k) THEN tracked ELSE tracked \cup {k}
    /\ op' = [op EXCEPT ![o] = [@ EXCEPT !.todo = op[o].todo \ {k},
                                         !.pc = IF op[o].todo = {k} THEN "done" ELSE op[o].pc]]
    /\ UNCHANGED <<epochs, chainVars, pend, store, degraded, failed, barrier>>

-----------------------------------------------------------------------------
(* Reads: getPrepared, readFromLayers, backfill, fetchAndPopulate.         *)

StartGet(o, k, call) ==
    /\ call \in Calls \cap {"get", "fetch"}
    /\ op[o].pc = "idle"
    /\ op' = [op EXCEPT ![o] = [@ EXCEPT !.call = call, !.pc = "reading", !.keys = {k},
                                         !.fence = FencesOn({k}), !.readFence = FencesOn({k})]]
    /\ UNCHANGED <<epochs, chainVars, pend, store, tracked, degraded, failed, barrier>>

\* One layer answers.  A degraded layer answers null.
ReadLayer(o, k) ==
    LET l == op[o].at
        e == IF l \in degraded THEN None ELSE store[l][k]
    IN  /\ op[o].pc = "reading"
        /\ k \in op[o].keys
        /\ op' = [op EXCEPT ![o] =
                    IF e # None    THEN [@ EXCEPT !.pc = "hit", !.val = op[e].val]
                    ELSE IF l < NumLayers THEN [@ EXCEPT !.at = l + 1]
                    ELSE [@ EXCEPT !.pc = "missed"]]
        /\ UNCHANGED <<epochs, chainVars, pend, store, tracked, degraded, failed, barrier>>

\* readLayerEntry's error path: the layer is degraded, or the call throws.
ReadFails(o) ==
    LET l == op[o].at
    IN  /\ op[o].pc = "reading"
        /\ l \in MayFail \ degraded
        /\ failed' = failed \cup {l}
        /\ degraded' = IF Graceful THEN degraded \cup {l} ELSE degraded
        /\ op' = [op EXCEPT ![o].pc = IF Graceful THEN @ ELSE "done"]
        /\ UNCHANGED <<epochs, chainVars, pend, store, tracked, barrier>>

\* A hit is touched in the tag index and copied to the layers above it.
Backfill(o) ==
    LET above == {l \in Layers : l < op[o].at}
    IN  /\ op[o].pc = "hit"
        /\ tracked' = tracked \cup op[o].keys
        /\ IF above = {}
           THEN /\ op' = [op EXCEPT ![o].pc = "done"]
                /\ UNCHANGED chainVars
           ELSE /\ op' = [op EXCEPT ![o] = [@ EXCEPT !.pc = "writing", !.fence = op[o].readFence,
                                                     !.targets = above \cap Usable,
                                                     !.cleans = above]]
                /\ Admit(o, op[o].keys)
        /\ UNCHANGED <<epochs, pend, store, degraded, failed, barrier>>

\* Mutant: the layers are looked at again after every miss.
MissForEver(o) ==
    /\ op[o].pc = "missed"
    /\ tracked' = tracked \ op[o].keys
    /\ op' = [op EXCEPT ![o] =
                IF op[o].call = "get" THEN [@ EXCEPT !.pc = "done"]
                ELSE [@ EXCEPT !.pc = "reading", !.at = 1,
                               !.readFence = FencesOn(op[o].keys)]]
    /\ UNCHANGED <<epochs, chainVars, pend, store, degraded, failed, barrier>>

\* A miss is forgotten by the tag index.  A get ends; a fetch looks once more,
\* with a new readFence, and then calls its fetcher.
Miss(o) ==
    /\ op[o].pc = "missed"
    /\ tracked' = tracked \ op[o].keys
    /\ op' = [op EXCEPT ![o] =
                IF op[o].call = "get" THEN [@ EXCEPT !.pc = "done"]
                ELSE IF op[o].again THEN [@ EXCEPT !.pc = "fetching"]
                ELSE [@ EXCEPT !.pc = "reading", !.again = TRUE, !.at = 1,
                               !.readFence = FencesOn(op[o].keys)]]
    /\ UNCHANGED <<epochs, chainVars, pend, store, degraded, failed, barrier>>

\* The fetcher answers: the value is stored under the fence taken when the
\* call started, or dropped when that is outdated.
Fetched(o) ==
    /\ op[o].pc = "fetching"
    /\ IF \E k \in op[o].keys : Outdated(o, k)
       THEN /\ op' = [op EXCEPT ![o].pc = "done"]
            /\ UNCHANGED chainVars
       ELSE /\ op' = [op EXCEPT ![o] = [@ EXCEPT !.pc = "writing", !.val = o,
                                                 !.targets = Layers, !.cleans = Usable]]
            /\ Admit(o, op[o].keys)
    /\ UNCHANGED <<epochs, pend, store, tracked, degraded, failed, barrier>>

\* It fails, or there is nothing to store.
FetchedNothing(o) ==
    /\ op[o].pc = "fetching"
    /\ op' = [op EXCEPT ![o].pc = "done"]
    /\ UNCHANGED <<epochs, chainVars, pend, store, tracked, degraded, failed, barrier>>

-----------------------------------------------------------------------------
(* Invalidation: it bumps the epochs and does not wait for the chain.      *)

\* delete, mdelete, invalidateBy*: deleteKeys.
StartDelete(o, ks) ==
    LET K == {ks[i] : i \in DOMAIN ks}
    IN  /\ "delete" \in Calls
        /\ op[o].pc = "idle"
        /\ BumpKeyEpochs(ks)
        /\ op' = [op EXCEPT ![o] = [@ EXCEPT !.call = "delete", !.pc = "erasing",
                                             !.keys = K, !.todo = K]]
        /\ pend' = pend \cup DeleteCommands(o, Usable, K)
        /\ barrier' = [k \in Keys |-> IF k \in K THEN CurrentFence(k)' ELSE barrier[k]]
        /\ UNCHANGED <<chainVars, store, tracked, degraded, failed>>

\* Once every layer has answered, the keys leave the tag index one by one.
Unindex(o, k) ==
    /\ op[o].call = "delete" /\ op[o].pc = "erasing"
    /\ Awaited(o) = {}
    /\ k \in op[o].todo
    /\ tracked' = tracked \ {k}
    /\ op' = [op EXCEPT ![o] = [@ EXCEPT !.todo = op[o].todo \ {k},
                                         !.pc = IF op[o].todo = {k} THEN "done" ELSE op[o].pc]]
    /\ UNCHANGED <<epochs, chainVars, pend, store, degraded, failed, barrier>>

\* clear asks every layer, degraded or not.
StartClear(o) ==
    /\ "clear" \in Calls
    /\ op[o].pc = "idle"
    /\ BeginClearEpoch
    /\ op' = [op EXCEPT ![o] = [@ EXCEPT !.call = "clear", !.pc = "erasing"]]
    /\ pend' = pend \cup DeleteCommands(o, Layers, Keys)
    /\ barrier' = [k \in Keys |-> CurrentFence(k)']
    /\ UNCHANGED <<chainVars, store, tracked, degraded, failed>>

Cleared(o) ==
    /\ op[o].call = "clear" /\ op[o].pc = "erasing"
    /\ Awaited(o) = {}
    /\ tracked' = {}
    /\ op' = [op EXCEPT ![o].pc = "done"]
    /\ UNCHANGED <<epochs, chainVars, pend, store, degraded, failed, barrier>>

-----------------------------------------------------------------------------
(* The layers.                                                             *)

After(c) == [store EXCEPT ![c.layer][c.key] = IF c.kind = "set" THEN c.by ELSE None]

\* A command takes effect and is answered.
Land(c) ==
    /\ pend' = pend \ {c}
    /\ store' = After(c)
    /\ UNCHANGED <<epochs, chainVars, op, tracked, degraded, failed, barrier>>

\* handleLayerFailure stands between the command and the call.
Guarded(c) ==
    /\ op[c.by].call # "clear"
    /\ ~(op[c.by].pc = "cleaning" /\ IsBackfill(c.by))

\* Mutant: a best-effort write gives up at its first failure.
RejectsAtOnce(o, c) ==
    IF op[o].pc \in {"idle", "done", "settling", "indexing"} THEN op[o]
    ELSE IF op[o].pc = "erasing" THEN [op[o] EXCEPT !.pc = "done", !.todo = {}]
    ELSE [op[o] EXCEPT !.pc = "settling", !.open = {}, !.todo = {}]

\* What a rejected layer operation does to its call, if that still waits:
\* Promise.allSettled records it, Promise.all gives up at once.
Rejects(o, c) ==
    IF op[o].pc \in {"idle", "done", "settling", "indexing"} THEN op[o]
    ELSE IF op[o].pc = "erasing" THEN [op[o] EXCEPT !.pc = "done", !.todo = {}]
    ELSE IF /\ WritePolicy = "best-effort" /\ ~IsBackfill(o)
            /\ op[o].pc = "writing"
         THEN [op[o] EXCEPT !.rejected = @ \cup {c.layer}, !.open = @ \ {c.layer}]
    ELSE [op[o] EXCEPT !.pc = "settling", !.open = {}, !.todo = {}]

\* A command fails, with or without having taken effect.
Fail(c) ==
    /\ c.layer \in MayFail
    /\ pend' = pend \ {c}
    /\ store' \in {store, After(c)}
    /\ failed' = failed \cup {c.layer}
    /\ IF Graceful /\ Guarded(c)
       THEN /\ degraded' = degraded \cup {c.layer}
            /\ op' = IF op[c.by].call = "mset" /\ op[c.by].pc = "writing" /\ c.kind = "set"
                     THEN [op EXCEPT ![c.by].gaveUp = @ \cup {c.layer}] ELSE op
       ELSE degraded' = degraded /\ op' = [op EXCEPT ![c.by] = Rejects(c.by, c)]
    /\ UNCHANGED <<epochs, chainVars, tracked, barrier>>

\* The degradation period of a layer ends.
Recover(l) ==
    /\ l \in degraded
    /\ degraded' = degraded \ {l}
    /\ UNCHANGED <<epochs, chainVars, op, pend, store, tracked, failed, barrier>>

-----------------------------------------------------------------------------
\* Every call has returned and every layer has answered.
Quiet == pend = {} /\ \A o \in Ops : op[o].pc \in {"idle", "done"}

\* The process may idle then.
Idle == Quiet /\ (\A o \in Ops : op[o].pc = "done") /\ UNCHANGED vars

Start(o) ==
    \/ \E k \in Keys : \/ StartSet(o, k)
                       \/ \E call \in {"get", "fetch"} : StartGet(o, k, call)
    \/ \E ks \in KeyLists(MaxList) : StartMset(o, {ks[i] : i \in DOMAIN ks})
    \/ \E ks \in KeyLists(MaxList) : StartDelete(o, ks)
    \/ StartClear(o)

Step(o) ==
    \/ Run(o) \/ CheckSingle(o) \/ Cleaned(o) \/ BatchDone(o) \/ Finish(o)
    \/ \E l \in Layers : CheckLayer(o, l)
    \/ \E k \in Keys : Index(o, k) \/ ReadLayer(o, k) \/ Unindex(o, k)
    \/ Backfill(o) \/ Miss(o) \/ Fetched(o) \/ FetchedNothing(o) \/ Cleared(o)

Next ==
    \/ \E o \in Ops : Start(o) \/ Step(o) \/ ReadFails(o)
    \/ \E c \in pend : Land(c) \/ Fail(c)
    \/ \E l \in Layers : Recover(l)
    \/ Idle

Spec == Init /\ [][Next]_vars

\* The event loop runs what is ready, fetchers settle and layers answer.
Fairness ==
    \A o \in Ops : /\ WF_vars(Step(o))
                   /\ WF_vars(\E c \in pend : c.by = o /\ Land(c))

FairSpec == Spec /\ Fairness

-----------------------------------------------------------------------------
(* Properties.                                                             *)

\* k was invalidated after call o captured its fence.
Overtaken(o, k) == Precedes(op[o].fence[k], barrier[k])

\* A delete of k is on its way to layer l.
DeletePending(l, k) ==
    \E c \in pend : c.kind = "delete" /\ c.layer = l /\ c.key = k

\* The entry's own write has not been checked yet in layer l.
CheckPending(l, o) == phase[o] = "running" /\ l \in op[o].open

\* Stale writes do not stay: an entry of a call that an invalidation of its
\* key has overtaken is about to be removed, by the check after its own write
\* or by a delete already sent, in every layer that did not fail
\* (runFencedWrite, writeBatch, deleteKeys).  At rest there is none.
NoOvertakenEntryAtRest ==
    \A l \in Layers \ failed, k \in Keys :
        LET o == store[l][k]
        IN  o # None /\ Overtaken(o, k) => CheckPending(l, o) \/ DeletePending(l, k)

\* Cleanup spares newer values: the compensating delete of a stale write only
\* ever finds its own entry or another outdated one (deleteFromLayers inside
\* the ordered operation).
CleanupSparesNewer ==
    \A c \in pend :
        LET e == store[c.layer][c.key]
        IN  c.kind = "delete" /\ op[c.by].call \notin {"delete", "clear"} /\ e # None
              => Outdated(e, c.key)

\* Writes land in the order of their calls: no entry is replaced by one of a
\* call that joined the key's chain before it, in a layer that did not fail
\* (runSerializedWrites).
NewerNeverOverwritten ==
    [][\A l \in Layers \ failed', k \in Keys :
          LET old == store[l][k]
              new == store'[l][k]
          IN  new \notin {None, old} /\ old # None => new \notin before[old]]_vars

\* Every call returns: no call waits for ever for its turn on a key, for a
\* layer or for its cleanup.
EveryCallReturns == \A o \in Ops : op[o].pc # "idle" ~> op[o].pc = "done"

-----------------------------------------------------------------------------
(* What the documentation says of the values, beyond the fences.           *)

\* No value written before an invalidation of its key is served again once
\* the invalidation and everything before it is over.
NoInvalidatedValueAtRest ==
    Quiet => \A l \in Layers \ failed, k \in Keys :
                LET o == store[l][k]
                IN  o # None => ~Overtaken(op[o].val, k)

-----------------------------------------------------------------------------
(* The parts of the inductive invariant.                                   *)

\* Where a call is in its own code and in the chain.
PcMatches(r, p) ==
    /\ r.pc \in {"idle", "reading", "hit", "missed", "fetching", "erasing"} => p = "idle"
    /\ r.pc = "writing" => p \in {"queued", "running"}
    /\ r.pc \in {"cleaning", "settling"} => p = "running"
    /\ r.pc = "indexing" => p = "done"
    /\ r.pc = "done" => p \in {"idle", "done"}
    /\ r.pc \in {"reading", "hit", "missed", "fetching"} => r.call \in {"get", "fetch"}
    /\ r.call = "clear" => r.pc \in {"erasing", "done"}

PcMatchesPhase == \A o \in Ops : PcMatches(op[o], phase[o])

\* A call with a command on its way has begun its write or its invalidation.
HasSent(r, p) ==
    /\ r.pc \in {"writing", "cleaning", "settling", "indexing", "erasing", "done"}
    /\ r.pc = "writing" => p = "running"

CommandsHaveSenders ==
    \A c \in pend :
        /\ HasSent(op[c.by], phase[c.by])
        /\ c.kind = "delete" /\ op[c.by].pc = "writing" => op[c.by].call = "mset"

\* The cleanup of a write reaches every sound layer the write reaches.
CleanupReaches ==
    \A o \in Ops :
        /\ op[o].open \subseteq op[o].targets
        /\ op[o].open # {} => op[o].pc = "writing" /\ phase[o] = "running"
        /\ op[o].pc = "writing" /\ op[o].call # "mset" =>
             op[o].targets \ failed \subseteq op[o].cleans

\* Only failed layers are skipped or not waited for.
OnlyFailedSkipped ==
    /\ degraded \subseteq failed
    /\ \A o \in Ops : op[o].rejected \cup op[o].gaveUp \subseteq failed

\* A backfill writes, and cleans up, above the layer that had the value.
BackfillsGoUp ==
    \A o \in Ops : op[o].pc \in {"writing", "cleaning"} =>
        /\ op[o].call = "mset" => op[o].val = o
        /\ IsBackfill(o) => \A l \in op[o].targets \cup op[o].cleans : l < NumLayers

\* Entries, and sets on their way, come from writes that found them current.
EntriesFromRuns ==
    /\ \A l \in Layers, k \in Keys :
          store[l][k] # None =>
             /\ phase[store[l][k]] \in {"running", "done"}
             /\ k \in op[store[l][k]].active
    /\ \A c \in pend : c.kind = "set" =>
          /\ phase[c.by] \in {"running", "done"}
          /\ c.key \in op[c.by].active
          /\ c.layer \in op[c.by].targets
          /\ c.layer \notin failed => c.layer \in op[c.by].open

\* Fences and barriers are never ahead of the epochs.
FencesBehind ==
    \A k \in Keys :
        /\ NotAhead(barrier[k], k)
        /\ \A o \in Ops : NotAhead(op[o].fence[k], k) /\ NotAhead(op[o].readFence[k], k)

\* A write that runs has the newest fence of all that have run on its keys,
\* so that whatever outdates it outdates the entries in its way as well.
RunningIsNewest ==
    \A o, p \in Ops :
        /\ op[o].active \subseteq keysOf[o]
        /\ op[o].active # {} => phase[o] \in {"running", "done"}
        /\ phase[o] = "running" /\ phase[p] \in {"running", "done"} =>
             \A k \in op[o].active \cap op[p].active :
                ~Precedes(op[o].fence[k], op[p].fence[k])

\* All calls but mset write one key.
WritesOneKey ==
    \A o \in Ops :
        /\ phase[o] = "idle" => keysOf[o] = {}
        /\ op[o].call \in {"get", "fetch"} => \A j, k \in op[o].keys : j = k
        /\ op[o].call # "mset" => \A j, k \in keysOf[o] : j = k

IsCleanup(c) == c.kind = "delete" /\ op[c.by].call \notin {"delete", "clear"}

\* A cleanup is sent after the write's own commands, inside its ordered
\* operation and for an outdated key.
CleanupInOrder(c) ==
    /\ op[c.by].pc = "cleaning" => c.kind = "delete"
    /\ IsCleanup(c) =>
         /\ op[c.by].pc \in {"writing", "cleaning"}
         /\ c.key \in op[c.by].active
         /\ Outdated(c.by, c.key)
         /\ IsBackfill(c.by) => c.layer < NumLayers

CleanupIsOrdered ==
    /\ \A c \in pend : CleanupInOrder(c)
    /\ \A o \in Ops :
          /\ op[o].rejected = {}
          /\ op[o].gaveUp # {} => op[o].call = "mset" /\ phase[o] # "idle"
=============================================================================
