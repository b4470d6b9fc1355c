----------------------------- MODULE WriteBehind -----------------------------
(***************************************************************************)
(* The write-behind strategy of one CacheStack: set, mset, delete, clear   *)
(* and disconnect over a local layer, written at once, and a remote layer, *)
(* written later from writeBehindQueue.  Every call owns two writes, "now" *)
(* and "later", and both go through the ordering boundary (OrderedWrites)  *)
(* and its fences (KeyEpochs).                                             *)
(*                                                                         *)
(* The local layer is a Map in the process: its commands take effect when  *)
(* they are called.  Those of the remote layer take effect at any time     *)
(* until they are answered.                                                *)
(***************************************************************************)
EXTENDS KeyEpochs, SequencesExt

CONSTANTS
    Ops,            \* the calls, each made at most once
    None,           \* no entry
    QueueOptions,   \* writeBehind: batchSize, maxQueueSize, timer (flushIntervalMs is set)
    MaxList,        \* bound: keys of one mset
    MayFail         \* the remote layer may fail a command

ASSUME QueueAssumption ==
    QueueOptions \subseteq [batchSize : Nat \ {0}, maxQueueSize : Nat \ {0}, timer : BOOLEAN]
ASSUME RemoteAssumption == None \notin Ops \cup {"timer", "stack"} /\ MayFail \in BOOLEAN

ASSUME ListAssumption == MaxList \in Nat /\ MaxList <= MaxSafeInteger

Writes == Ops \X {"now", "later"}
Now(o) == <<o, "now">>
Later(o) == <<o, "later">>

VARIABLES
    phase, keysOf, before,  \* the ordering boundary over Writes
    stage,      \* stage[o]: how far call o is
    fence,      \* fence[o][k]: what o's writes depend on
    active,     \* active[w]: entries found current when write w ran
    queue,      \* writeBehindQueue: the calls whose "later" write waits
    batch,      \* the rest of the batch being flushed, its first write running
    flusher,    \* who awaits the flush: a call, "timer", "stack", or None
    local,      \* local[k]: the call that stored the entry, or None
    remote,
    pend,       \* commands on their way to the remote layer
    options,    \* the writeBehind options of this stack
    running,    \* "up", "flushing" (disconnect has started), "down"
    failed,     \* history: a remote command failed
    refused,    \* history: calls whose deferred write was refused
    barrier     \* history: k's fence after its latest invalidation

order == INSTANCE OrderedWrites WITH Ops <- Writes

epochVars == <<epochs, barrier>>
chainVars == <<phase, keysOf, before>>
flushVars == <<queue, batch, flusher>>
vars == <<epochVars, chainVars, stage, fence, active, flushVars, local, remote, pend,
          options, running, failed, refused>>

BatchSize == options.batchSize
MaxQueueSize == options.maxQueueSize

Stages == {"idle", "writing", "checking", "flushing", "erasing", "done"}

NoFence == [clear |-> 0, key |-> 0]

\* The queue is bounded and, like the batch, never holds a call twice.
TypeOK ==
    /\ IsEpochTable(epochs)
    /\ order!OrderTypeOK
    /\ stage \in [Ops -> Stages]
    /\ fence \in [Ops -> [Keys -> Fences]]
    /\ active \in [Writes -> SUBSET Keys]
    /\ queue \in Seq(Ops) /\ Len(queue) <= MaxQueueSize
    /\ batch \in Seq(Ops) /\ Len(batch) <= BatchSize
    /\ IsInjective(batch \o queue)
    /\ flusher \in Ops \cup {"timer", "stack", None}
    /\ local \in [Keys -> Ops \cup {None}]
    /\ remote \in [Keys -> Ops \cup {None}]
    /\ pend \subseteq [by : Ops, key : Keys, kind : {"set", "clean", "delete"}]
    /\ options \in QueueOptions
    /\ running \in {"up", "flushing", "down"}
    /\ failed \in BOOLEAN /\ refused \subseteq Ops
    /\ barrier \in [Keys -> Fences]

Init ==
    /\ InitEpochs
    /\ order!InitOrder
    /\ stage = [o \in Ops |-> "idle"]
    /\ fence = [o \in Ops |-> [k \in Keys |-> NoFence]]
    /\ active = [w \in Writes |-> {}]
    /\ queue = << >> /\ batch = << >> /\ flusher = None
    /\ local = [k \in Keys |-> None]
    /\ remote = [k \in Keys |-> None]
    /\ pend = {}
    /\ options \in QueueOptions
    /\ running = "up"
    /\ failed = FALSE /\ refused = {}
    /\ barrier = [k \in Keys |-> NoFence]

-----------------------------------------------------------------------------
Outdated(o, k) == IsWriteOutdated(k, fence[o][k])
Current(w) == {k \in keysOf[w] : ~Outdated(w[1], k)}
Stale(w) == {k \in active[w] : Outdated(w[1], k)}

Commands(o, K, kind) == [by : {o}, key : K, kind : {kind}]
Answered(o) == \A c \in pend : c.by # o

\* m with the keys K mapped to v.
Put(m, K, v) == [k \in Keys |-> IF k \in K THEN v ELSE m[k]]

-----------------------------------------------------------------------------
(* Set and mset, up to the queue.                                          *)

\* The fences are captured and the immediate write joins its chains.
Start(o, K) ==
    /\ running = "up"
    /\ stage[o] = "idle"
    /\ order!Admit(Now(o), K)
    /\ stage' = [stage EXCEPT ![o] = "writing"]
    /\ fence' = [fence EXCEPT ![o] = [k \in Keys |-> IF k \in K THEN CurrentFence(k) ELSE NoFence]]
    /\ UNCHANGED <<epochVars, options, active, flushVars, local, remote, pend, running, failed,
                   refused>>

\* The admission limits refuse the immediate write, and the call rejects. The
\* limits count writes that are not modelled here (backfills, refreshes), so
\* any write may be refused; WriteChains has the limits themselves.
RefuseStart(o) ==
    /\ running = "up"
    /\ stage[o] = "idle"
    /\ stage' = [stage EXCEPT ![o] = "done"]
    /\ UNCHANGED <<epochVars, chainVars, options, fence, active, flushVars, local, remote, pend,
                   running, failed, refused>>

\* Its turn: what is current goes to the local layer.
RunNow(o) ==
    /\ stage[o] = "writing"
    /\ order!Begin(Now(o))
    /\ active' = [active EXCEPT ![Now(o)] = Current(Now(o))]
    /\ local' = Put(local, Current(Now(o)), o)
    /\ stage' = [stage EXCEPT ![o] = "checking"]
    /\ UNCHANGED <<epochVars, options, fence, flushVars, remote, pend, running, failed, refused>>

\* splice(0, batchSize)
FirstBatch(q) == SubSeq(q, 1, IF Len(q) < BatchSize THEN Len(q) ELSE BatchSize)
AfterBatch(q) == SubSeq(q, BatchSize + 1, Len(q))

\* flushWriteBehindQueue as called by who: it starts a batch, or there is one
\* already, or nothing to do.  q is the queue it finds.
FlushFrom(who, q) ==
    IF flusher # None \/ q = << >>
    THEN queue' = q /\ UNCHANGED <<batch, flusher>>
    ELSE /\ batch' = FirstBatch(q)
         /\ queue' = AfterBatch(q)
         /\ flusher' = who

\* enqueueWriteBehind: the call throws when the queue is full, and awaits a
\* flush when its operation fills a batch.
Enqueue(o) ==
    LET q == Append(queue, o)
    IN  IF Len(queue) >= MaxQueueSize
        THEN /\ refused' = refused \cup {o}
             /\ stage' = [stage EXCEPT ![o] = "done"]
             /\ UNCHANGED flushVars
        ELSE /\ refused' = refused
             /\ IF Len(q) >= MaxQueueSize \/ Len(q) >= BatchSize
                THEN /\ FlushFrom(o, q)
                     /\ stage' = [stage EXCEPT ![o] = "flushing"]
                ELSE /\ queue' = q
                     /\ UNCHANGED <<batch, flusher>>
                     /\ stage' = [stage EXCEPT ![o] = "done"]

\* The immediate write is checked, cleaned up if need be, and leaves its
\* chains; the deferred one is queued, committed or not.  The queue is reached
\* some microtasks later, but before the next write of the chain reaches it.
EndNow(o) ==
    /\ stage[o] = "checking"
    /\ local' = Put(local, Stale(Now(o)), None)
    /\ order!Settle(Now(o))
    /\ Enqueue(o)
    /\ UNCHANGED <<epochVars, options, fence, active, remote, pend, running, failed>>

-----------------------------------------------------------------------------
(* runWriteBehindBatch: one operation after the other.                     *)

\* The next operation of the batch joins the chains of its keys.
AdmitLater ==
    /\ batch # << >>
    /\ LET o == Head(batch)
       IN  order!Admit(Later(o), keysOf[Now(o)])
    /\ UNCHANGED <<epochVars, stage, options, fence, active, flushVars, local, remote, pend,
                   running, failed, refused>>

\* Its turn: what is current is sent to the remote layer.
RunLater(o) ==
    /\ order!Begin(Later(o))
    /\ active' = [active EXCEPT ![Later(o)] = Current(Later(o))]
    /\ pend' = pend \cup Commands(o, Current(Later(o)), "set")
    /\ UNCHANGED <<epochVars, stage, options, fence, flushVars, local, remote, running, failed,
                   refused>>

\* The sets were answered: what became outdated is deleted again.
CleanLater(o) ==
    LET w == Later(o)
    IN  /\ phase[w] = "running" /\ Answered(o) /\ Stale(w) # {}
        /\ pend' = pend \cup Commands(o, Stale(w), "clean")
        /\ active' = [active EXCEPT ![w] = @ \ Stale(w)]
        /\ UNCHANGED <<epochVars, chainVars, stage, options, fence, flushVars, local, remote,
                       running, failed, refused>>

\* The flush goes on: the next operation of the batch, then the next batch, as
\* long as there is one.  Everyone who awaited the batch returns after it; the
\* flusher awaits the rest of the queue as well.
GoOnWith(rest, more) ==
    /\ batch' = IF more THEN FirstBatch(queue) ELSE rest
    /\ queue' = IF more THEN AfterBatch(queue) ELSE queue
    /\ flusher' = IF rest = << >> /\ ~more THEN None ELSE flusher
    /\ stage' = [p \in Ops |->
                   IF rest = << >> /\ stage[p] = "flushing" /\ (p # flusher \/ ~more)
                   THEN "done" ELSE stage[p]]
    /\ running' = IF rest = << >> /\ running = "flushing" /\ (flusher # "stack" \/ ~more)
                  THEN "down" ELSE running

\* Mutant: a flush ends with its batch.
GoOnOnce == GoOnWith(Tail(batch), FALSE)

GoOn == GoOnWith(Tail(batch), Tail(batch) = << >> /\ queue # << >>)

\* The limits refuse the next operation of the batch: it is dropped, which the
\* log and an error event tell, and the call does not.
RefuseLater ==
    /\ batch # << >> /\ phase[Later(Head(batch))] = "idle"
    /\ GoOn
    /\ refused' = refused \cup {Head(batch)}
    /\ UNCHANGED <<epochVars, chainVars, options, fence, active, local, remote, pend, failed>>

\* The operation leaves its chains and the batch goes on.
EndOf(o) == order!Settle(Later(o)) /\ GoOn

\* Mutant: a batch never ends.
EndLaterStuck(o) ==
    /\ phase[Later(o)] = "running" /\ Answered(o) /\ Stale(Later(o)) = {}
    /\ order!Settle(Later(o))
    /\ batch' = Tail(batch)
    /\ UNCHANGED <<epochVars, stage, options, fence, active, queue, flusher, local, remote, pend,
                   running, failed, refused>>

\* Mutant: the remote write is not checked again.
EndLaterUnchecked(o) ==
    /\ phase[Later(o)] = "running"
    /\ Answered(o)
    /\ EndOf(o)
    /\ UNCHANGED <<epochVars, options, fence, active, local, remote, pend, failed, refused>>

\* Nothing, or nothing more, to clean up.
EndLater(o) ==
    /\ phase[Later(o)] = "running"
    /\ Answered(o)
    /\ Stale(Later(o)) = {}
    /\ EndOf(o)
    /\ UNCHANGED <<epochVars, options, fence, active, local, remote, pend, failed, refused>>

\* The interval timer, if there is one; it lives until disconnect disposes it.
TimerFlush ==
    /\ options.timer /\ running # "down"
    /\ flusher = None /\ queue # << >>
    /\ FlushFrom("timer", queue)
    /\ UNCHANGED <<epochVars, chainVars, stage, options, fence, active, local, remote, pend,
                   running, failed, refused>>

-----------------------------------------------------------------------------
(* Invalidation and the end.                                               *)

\* delete and mdelete
Delete(o, ks) ==
    LET K == {ks[i] : i \in DOMAIN ks}
    IN  /\ running = "up"
        /\ stage[o] = "idle"
        /\ BumpKeyEpochs(ks)
        /\ local' = Put(local, K, None)
        /\ pend' = pend \cup Commands(o, K, "delete")
        /\ stage' = [stage EXCEPT ![o] = "erasing"]
        /\ barrier' = [k \in Keys |-> IF k \in K THEN CurrentFence(k)' ELSE barrier[k]]
        /\ UNCHANGED <<chainVars, options, fence, active, flushVars, remote, running, failed,
                       refused>>

\* clear empties the queue; the batch that runs goes on.
Clear(o) ==
    /\ running = "up"
    /\ stage[o] = "idle"
    /\ BeginClearEpoch
    /\ queue' = << >>
    /\ local' = [k \in Keys |-> None]
    /\ pend' = pend \cup Commands(o, Keys, "delete")
    /\ stage' = [stage EXCEPT ![o] = "erasing"]
    /\ barrier' = [k \in Keys |-> CurrentFence(k)']
    /\ UNCHANGED <<chainVars, options, fence, active, batch, flusher, remote, running, failed,
                   refused>>

Erased(o) ==
    /\ stage[o] = "erasing" /\ Answered(o)
    /\ stage' = [stage EXCEPT ![o] = "done"]
    /\ UNCHANGED <<epochVars, chainVars, options, fence, active, flushVars, local, remote, pend,
                   running, failed, refused>>

\* disconnect refuses new calls, flushes or awaits the batch that runs, and
\* disposes the timer and the layers; calls that go on still queue their
\* writes.
Disconnect ==
    /\ running = "up"
    /\ FlushFrom("stack", queue)
    /\ running' = IF flusher = None /\ queue = << >> THEN "down" ELSE "flushing"
    /\ UNCHANGED <<epochVars, chainVars, stage, options, fence, active, local, remote, pend,
                   failed, refused>>

-----------------------------------------------------------------------------
(* The remote layer.                                                       *)

After(c) == [remote EXCEPT ![c.key] = IF c.kind = "set" THEN c.by ELSE None]

Land(c) ==
    /\ remote' = After(c)
    /\ pend' = pend \ {c}
    /\ UNCHANGED <<epochVars, chainVars, stage, options, fence, active, flushVars, local,
                   running, failed, refused>>

\* The operation rejects and the batch goes on, or a delete rejects its call;
\* the other commands of the operation are not awaited any more.
Fail(c) ==
    /\ MayFail
    /\ remote' \in {remote, After(c)}
    /\ failed' = TRUE
    /\ pend' = pend \ {c}
    /\ IF phase[Later(c.by)] = "running"
       THEN EndOf(c.by)
       ELSE /\ stage' = [stage EXCEPT ![c.by] = IF @ = "erasing" THEN "done" ELSE @]
            /\ UNCHANGED <<chainVars, flushVars, running>>
    /\ UNCHANGED <<epochVars, options, fence, active, local, refused>>

-----------------------------------------------------------------------------
Quiet == pend = {} /\ queue = << >> /\ flusher = None
           /\ \A o \in Ops : stage[o] \in {"idle", "done"}

\* Nothing is left to do but to await a flush.
Idle ==
    /\ pend = {} /\ batch = << >>
    /\ \A o \in Ops : stage[o] \in {"idle", "flushing", "done"}
    /\ UNCHANGED vars

Lists == KeyLists(MaxList)

Call(o) ==
    \/ \E ks \in Lists : Start(o, {ks[i] : i \in DOMAIN ks})
    \/ \E ks \in Lists : Delete(o, ks)
    \/ Clear(o)
    \/ RefuseStart(o)

Step(o) ==
    RunNow(o) \/ EndNow(o) \/ RunLater(o) \/ CleanLater(o) \/ EndLater(o) \/ Erased(o)

Next ==
    \/ \E o \in Ops : Call(o) \/ Step(o)
    \/ AdmitLater \/ RefuseLater \/ TimerFlush \/ Disconnect
    \/ \E c \in pend : Land(c) \/ Fail(c)
    \/ Idle

Spec == Init /\ [][Next]_vars

\* The event loop runs what is ready, the timer fires, the layer answers.
Fairness ==
    /\ \A o \in Ops : WF_vars(Step(o)) /\ WF_vars(\E c \in pend : c.by = o /\ Land(c))
    /\ WF_vars(AdmitLater \/ RefuseLater) /\ WF_vars(TimerFlush)

FairSpec == Spec /\ Fairness

-----------------------------------------------------------------------------
(* Properties.                                                             *)

\* Call o's write of k is fenced off though no invalidation of k came after it:
\* the table of tokens was pruned, or the integers ran out.
Overtaken(o, k) == Precedes(fence[o][k], barrier[k])
Forgotten(o, k) == Outdated(o, k) /\ ~Overtaken(o, k)

\* Once everything queued has been flushed, and unless a command failed, the
\* remote layer holds for each key what the local one holds, or nothing where a
\* delete landed after a newer write: neither the batches nor the invalidations
\* in between left an older value behind (enqueueWriteBehind,
\* flushWriteBehindQueue, runWriteBehindBatch).  Two kinds of writes are never
\* flushed, and leave the remote layer with an earlier value: those that the
\* full queue or the admission limits refused, and those that were fenced off
\* for no invalidation of their key.
RemoteAgreesAtRest ==
    Quiet /\ ~failed =>
      \A k \in Keys :
         remote[k] \notin {None, local[k]} /\ local[k] \notin refused =>
            /\ Forgotten(remote[k], k)
            /\ local[k] # None => Forgotten(local[k], k)

\* Every call returns: nobody awaits a batch that is over, or a flush that
\* nobody runs.
EveryCallReturns == \A o \in Ops : stage[o] # "idle" ~> stage[o] = "done"

\* With a timer what is queued is flushed or cleared unless the stack is
\* disconnected.  Without one a queue that is shorter than a batch may wait for
\* the next write, but a flush that was started goes on until the queue is
\* empty, and a queue as long as a batch has one.  And disconnect ends.
QueueDrains ==
    /\ queue # << >> /\ (options.timer \/ flusher # None \/ Len(queue) >= BatchSize)
          ~> queue = << >> \/ running = "down"
    /\ running = "flushing" ~> running = "down"

-----------------------------------------------------------------------------
(* The parts of the inductive invariant of RemoteAgreesAtRest.             *)

Occurs(s, o) == \E i \in DOMAIN s : s[i] = o
Earlier(s, p, o) == \E i, j \in DOMAIN s : i < j /\ s[i] = p /\ s[j] = o

\* The deferred writes that have not ended, in the order in which they run.
Line == batch \o queue
Waiting(o) == Occurs(Line, o)
AheadOf(p, o) == Earlier(Line, p, o)

\* How far a call is in its own code, in the chains and in the queue.
StagesMatch ==
    \A o \in Ops :
        /\ stage[o] \in {"idle", "erasing"} => phase[Now(o)] = "idle"
        /\ stage[o] = "writing" => phase[Now(o)] = "queued"
        /\ stage[o] = "checking" => phase[Now(o)] = "running"
        /\ stage[o] \in {"flushing", "done"} => phase[Now(o)] \in {"idle", "done"}
        /\ phase[Later(o)] # "idle" =>
              phase[Now(o)] = "done" /\ keysOf[Later(o)] = keysOf[Now(o)]
        /\ phase[Later(o)] \in {"queued", "running"} => batch # << >> /\ o = Head(batch)

\* A call is in the line once, between its immediate and its deferred write.
LineWaits ==
    /\ \A o \in Ops : Waiting(o) => phase[Now(o)] = "done" /\ phase[Later(o)] # "done"
    /\ flusher = None <=> batch = << >>

\* What was written was current, and what was not current never will be.
ActiveWasCurrent ==
    \A o \in Ops :
        /\ active[Later(o)] \subseteq active[Now(o)]
        /\ active[Now(o)] \subseteq keysOf[Now(o)]
        /\ \A w \in {Now(o), Later(o)} : phase[w] \in {"idle", "queued"} => active[w] = {}
        /\ phase[Now(o)] \in {"running", "done"} =>
              \A k \in keysOf[Now(o)] \ active[Now(o)] : Outdated(o, k)

FencesBehind ==
    \A k \in Keys : NotAhead(barrier[k], k) /\ \A o \in Ops : NotAhead(fence[o][k], k)

\* The local layer has the last of the current writes, and a write that runs
\* has the local layer for itself.
LocalIsLast ==
    \A k \in Keys :
        /\ local[k] # None => k \in active[Now(local[k])] /\ ~Overtaken(local[k], k)
        /\ \A o \in Ops : k \in active[Now(o)] =>
              /\ stage[o] = "checking" => local[k] \in {o, None}
              /\ ~Outdated(o, k) => local[k] # None /\ ~Outdated(local[k], k)

\* Of the calls in the line that wrote a key the one the local layer has is
\* the last.
LineInOrder ==
    \A k \in Keys, p \in Ops :
        local[k] \notin {None, p} /\ k \in active[Now(p)] /\ Waiting(p) =>
            \/ stage[local[k]] = "checking"
            \/ AheadOf(p, local[k])
            \/ local[k] \in refused

Pending(o, k, kind) == [by |-> o, key |-> k, kind |-> kind] \in pend

\* The remote layer has what deferred writes found current; what has been
\* overtaken since is about to be removed.
RemoteFromRuns ==
    \A k \in Keys :
        /\ \A o \in Ops :
              /\ Pending(o, k, "set") => phase[Later(o)] = "running" /\ k \in active[Later(o)]
              /\ Pending(o, k, "clean") => phase[Later(o)] = "running"
        /\ remote[k] # None =>
              /\ phase[Later(remote[k])] \in {"running", "done"}
              /\ k \in active[Now(remote[k])]
              /\ Overtaken(remote[k], k) =>
                    \/ \E o \in Ops : Pending(o, k, "delete")
                    \/ Pending(remote[k], k, "clean")
                    \/ phase[Later(remote[k])] = "running" /\ k \in active[Later(remote[k])]

\* A current entry of the local layer is on its way to the remote one or was
\* the last to arrive there.
CurrentArrives ==
    \A k \in Keys :
        local[k] # None /\ ~Outdated(local[k], k) /\ remote[k] \notin {None, local[k]} =>
            \/ stage[local[k]] = "checking"
            \/ Waiting(local[k]) /\ phase[Later(local[k])] \in {"idle", "queued"}
            \/ Pending(local[k], k, "set")
            \/ local[k] \in refused

\* Nothing is known of what was in flight once a command has failed.
SoundDelivery == ~failed => LineInOrder /\ RemoteFromRuns /\ CurrentArrives
=============================================================================
