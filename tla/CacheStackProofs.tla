-------------------------- MODULE CacheStackProofs --------------------------
(***************************************************************************)
(* Proofs about CacheStack, for every set of keys and calls, any number of *)
(* layers, and layers that answer late, out of order or not at all.        *)
(*                                                                         *)
(* The actions are steps of a few kinds: a call goes on by itself (Local), *)
(* joins the chain of its keys (Joins), invalidates keys (Invalidates),    *)
(* runs its writes (Run), checks them (Checks), ends its ordered operation *)
(* (Finish), or one of its commands is answered (Answers).  Each kind is   *)
(* shown to keep the invariant once, whatever the locals r the call goes   *)
(* on with, and each action is shown to be of a kind.                      *)
(*                                                                         *)
(* StackInv makes NoOvertakenEntryAtRest inductive: an entry in a layer    *)
(* comes from a write that has run (EntriesFromRuns), and while it is not  *)
(* checked its write is running and waits for the layer (CleanupReaches),  *)
(* so that the check finds it outdated, as fences never get ahead of the   *)
(* epochs (FencesBehind), and sends the delete that NoOvertakenEntryAtRest *)
(* asks for.                                                               *)
(***************************************************************************)
EXTENDS CacheStack, KeyEpochsLemmas, TLAPS

\* A failing layer does not end a write before its other layers are checked:
\* handleLayerFailure absorbs the failure, or Promise.allSettled records it.  A
\* backfill uses Promise.all under either policy, with no other layer to leave
\* unchecked when there are at most two.  Under the strict policy without
\* graceful degradation one rejecting layer ends the write, and a set still on
\* its way to another layer lands unchecked: the theorems are false there.
FailuresContained ==
    \/ Graceful
    \/ MayFail = {}
    \/ WritePolicy = "best-effort" /\ NumLayers <= 2

\* A write does not settle before all the deletes of its cleanup are answered:
\* no failure reaches runFencedWrite but that of a backfill's cleanup, which is
\* not guarded and sends one delete when there are at most two layers.
CleanupsAwaited == MayFail = {} \/ (Graceful /\ NumLayers <= 2)

\* What every reachable state satisfies; the parts are explained in CacheStack.
StackInv ==
    /\ TypeOK /\ GoodTable(epochs) /\ OrderInv
    /\ PcMatchesPhase /\ CommandsHaveSenders /\ CleanupReaches /\ OnlyFailedSkipped
    /\ BackfillsGoUp /\ EntriesFromRuns /\ FencesBehind /\ NoOvertakenEntryAtRest
    /\ RunningIsNewest /\ WritesOneKey

-----------------------------------------------------------------------------
(* The ordering boundary.                                                  *)

\* An operation joins behind all that share one of its keys.
LEMMA AdmitOrder ==
    ASSUME OrderTypeOK, OrderInv, NEW o \in Ops, NEW K \in SUBSET Keys, Admit(o, K)
    PROVE  OrderTypeOK' /\ OrderInv'
  <1>1. /\ phase[o] = "idle" /\ phase' = [phase EXCEPT ![o] = "queued"]
        /\ keysOf' = [keysOf EXCEPT ![o] = K]
        /\ before' = [before EXCEPT ![o] =
                        {p \in Ops : phase[p] # "idle" /\ keysOf[p] \cap K # {}}]
    BY DEF Admit
  <1>2. OrderTypeOK'
    BY <1>1 DEF OrderTypeOK, Phases
  <1>3. /\ phase'[o] = "queued" /\ keysOf'[o] = K
        /\ before'[o] = {p \in Ops : phase[p] # "idle" /\ keysOf[p] \cap K # {}}
        /\ \A p \in Ops : p # o => phase'[p] = phase[p] /\ keysOf'[p] = keysOf[p] /\ before'[p] = before[p]
        /\ \A p \in Ops : before[p] \subseteq Ops
    BY <1>1 DEF OrderTypeOK
  <1>4. \A q \in Ops : \A p \in before'[q] : phase'[q] # "idle" /\ phase'[p] # "idle"
    BY <1>1, <1>3 DEF OrderInv
  <1>5. \A q \in Ops : phase'[q] \in {"running", "done"} => \A p \in before'[q] : phase'[p] = "done"
    BY <1>1, <1>3 DEF OrderInv
  <1>6. \A q, p \in Ops : q # p /\ phase'[q] # "idle" /\ phase'[p] # "idle" /\ keysOf'[q] \cap keysOf'[p] # {}
                            => q \in before'[p] \/ p \in before'[q]
    BY <1>3 DEF OrderInv, Share
  <1> QED BY <1>2, <1>4, <1>5, <1>6 DEF OrderInv, Share

\* An operation begins when everything before it is done.
LEMMA BeginOrder ==
    ASSUME OrderTypeOK, OrderInv, NEW o \in Ops, Begin(o)
    PROVE  OrderTypeOK' /\ OrderInv' /\ phase[o] = "queued"
  <1>1. /\ phase[o] = "queued" /\ phase' = [phase EXCEPT ![o] = "running"]
        /\ \A p \in before[o] : phase[p] = "done"
        /\ UNCHANGED <<keysOf, before>>
    BY DEF Begin, MyTurn
  <1>2. OrderTypeOK'
    BY <1>1 DEF OrderTypeOK, Phases
  <1>3. /\ phase'[o] = "running" /\ \A p \in Ops : p # o => phase'[p] = phase[p]
        /\ \A p \in Ops : before[p] \subseteq Ops
    BY <1>1 DEF OrderTypeOK
  <1> QED BY <1>1, <1>2, <1>3 DEF OrderInv, Share

\* An operation ends, and nothing that runs waits for it any more.
LEMMA SettleOrder ==
    ASSUME OrderTypeOK, OrderInv, NEW o \in Ops, Settle(o)
    PROVE  OrderTypeOK' /\ OrderInv'
  <1>1. /\ phase[o] = "running" /\ phase' = [phase EXCEPT ![o] = "done"]
        /\ UNCHANGED <<keysOf, before>>
    BY DEF Settle
  <1>2. OrderTypeOK'
    BY <1>1 DEF OrderTypeOK, Phases
  <1>3. /\ phase'[o] = "done" /\ \A p \in Ops : p # o => phase'[p] = phase[p]
        /\ \A p \in Ops : before[p] \subseteq Ops
    BY <1>1 DEF OrderTypeOK
  <1> QED BY <1>1, <1>2, <1>3 DEF OrderInv, Share

-----------------------------------------------------------------------------
(* Kinds of steps.                                                         *)

\* A call goes on without the chain or the layers; r are its new locals.
Local(o, r) ==
    /\ r \in OpRecords /\ op' = [op EXCEPT ![o] = r]
    /\ UNCHANGED <<epochs, chainVars, pend, store, barrier>>
    /\ tracked' \subseteq Keys
    /\ failed \subseteq failed' /\ failed' \subseteq Layers /\ degraded' \subseteq failed'
    /\ PcMatches(r, phase[o]) /\ r.pc \notin {"writing", "cleaning"}
    /\ op[o].open = {} /\ r.open = {} /\ r.active = op[o].active /\ r.targets = op[o].targets
    /\ r.rejected = op[o].rejected /\ r.gaveUp = op[o].gaveUp
    /\ (r.fence = op[o].fence /\ r.call = op[o].call) \/ op[o].pc = "idle"
    /\ r.call \in {"get", "fetch"} => \A j, k \in r.keys : j = k
    /\ \A k \in Keys : NotAhead(r.fence[k], k) /\ NotAhead(r.readFence[k], k)
    /\ \A c \in pend : c.by = o => HasSent(r, phase[o])

\* A call joins the chain of its keys K with the locals r.
Joins(o, K, r) ==
    /\ Admit(o, K)
    /\ r \in OpRecords /\ op' = [op EXCEPT ![o] = r]
    /\ UNCHANGED <<epochs, pend, store, degraded, failed, barrier>>
    /\ tracked' \subseteq Keys
    /\ op[o].pc \in {"idle", "hit", "fetching"}
    /\ r.pc = "writing" /\ r.call # "clear" /\ r.open = {}
    /\ r.rejected = op[o].rejected /\ r.gaveUp = op[o].gaveUp
    /\ r.call # "mset" => r.targets \ failed \subseteq r.cleans
    /\ r.call = "mset" => r.val = o
    /\ r.call # "mset" => \A j, k \in K : j = k
    /\ r.call \in {"get", "fetch"} => \A j, k \in r.keys : j = k
    /\ r.active = op[o].active
    /\ r.val # o => \A l \in r.targets \cup r.cleans : l < NumLayers
    /\ \A k \in Keys : NotAhead(r.fence[k], k) /\ NotAhead(r.readFence[k], k)

\* An invalidation of the keys K in the layers L, by a call with the locals r.
Invalidates(o, K, L, r) ==
    /\ op[o].pc = "idle"
    /\ GoodTable(epochs') /\ \A k \in Keys : LaterFor(k, epochs, epochs')
    /\ r \in OpRecords /\ op' = [op EXCEPT ![o] = r]
    /\ r.pc = "erasing" /\ r.open = op[o].open
    /\ r.rejected = op[o].rejected /\ r.gaveUp = op[o].gaveUp
    /\ r.fence = op[o].fence /\ r.readFence = op[o].readFence
    /\ r.active = op[o].active /\ r.call \in {"delete", "clear"}
    /\ K \subseteq Keys /\ Layers \ failed \subseteq L /\ L \subseteq Layers
    /\ pend' = pend \cup DeleteCommands(o, L, K)
    /\ barrier' = [k \in Keys |-> IF k \in K THEN CurrentFence(k)' ELSE barrier[k]]
    /\ UNCHANGED <<chainVars, store, tracked, degraded, failed>>

\* A write stays the newest that runs while no other one begins.
LEMMA NewestStays ==
    ASSUME RunningIsNewest,
           \A q \in Ops : /\ op'[q].active = op[q].active /\ op'[q].active \subseteq keysOf'[q]
                          /\ phase'[q] = "running" => phase[q] = "running"
                          /\ phase'[q] \in {"running", "done"} <=> phase[q] \in {"running", "done"}
                          /\ phase'[q] \in {"running", "done"} => op'[q].fence = op[q].fence
    PROVE  RunningIsNewest'
  BY DEF RunningIsNewest

\* A step outside the chain and the layers keeps the invariant.
LEMMA LocalKeeps ==
    ASSUME StackInv, NEW o \in Ops, NEW r, Local(o, r)
    PROVE  StackInv'
  <1>1. /\ op'[o] = r /\ \A q \in Ops : q # o => op'[q] = op[q]
        /\ op' \in [Ops -> OpRecords]
    BY DEF StackInv, TypeOK, Local
  <1>0. op[o].pc = "idle" => phase[o] = "idle"
    BY DEF StackInv, PcMatchesPhase, PcMatches
  <1>2. /\ UNCHANGED <<epochs, phase, keysOf, before, pend, store, barrier>>
        /\ failed \subseteq failed' /\ failed' \subseteq Layers /\ degraded' \subseteq failed'
    BY DEF Local, chainVars
  <1>3. \A c \in pend : c.by \in Ops
    BY DEF StackInv, TypeOK, Commands
  <1>4. TypeOK' /\ GoodTable(epochs')
    BY <1>1, <1>2 DEF StackInv, TypeOK, Local, OrderTypeOK
  <1>5. OrderInv'
    BY <1>2 DEF StackInv, OrderInv, Share
  <1>6. PcMatchesPhase'
    BY <1>1, <1>2 DEF StackInv, PcMatchesPhase, Local
  <1>7. CommandsHaveSenders'
    BY <1>1, <1>2, <1>3 DEF StackInv, CommandsHaveSenders, Local
  <1>8. CleanupReaches'
    BY <1>1, <1>2 DEF StackInv, CleanupReaches, Local
  <1>9. OnlyFailedSkipped' /\ BackfillsGoUp'
    BY <1>1, <1>2 DEF StackInv, OnlyFailedSkipped, BackfillsGoUp, IsBackfill, Local
  <1>10. EntriesFromRuns'
    <2>1. \A q \in Ops : op'[q].active = op[q].active /\ op'[q].targets = op[q].targets
                         /\ op'[q].open = op[q].open
      BY <1>1 DEF Local
    <2>2. \A l \in Layers, k \in Keys : store[l][k] # None => store[l][k] \in Ops
      BY DEF StackInv, TypeOK
    <2> QED BY <1>2, <1>3, <2>1, <2>2 DEF StackInv, EntriesFromRuns
  <1>11. FencesBehind'
    <2>1. \A k \in Keys : \A f : NotAhead(f, k)' <=> NotAhead(f, k)
      BY <1>2 DEF NotAhead, CurrentFence, CurrentKeyEpoch
    <2> QED BY <1>1, <1>2, <2>1 DEF StackInv, FencesBehind, Local
  <1>12. NoOvertakenEntryAtRest'
    <2> SUFFICES ASSUME NEW l \in Layers \ failed, NEW k \in Keys,
                        store[l][k] # None, Overtaken(store[l][k], k)'
                 PROVE  CheckPending(l, store[l][k])' \/ DeletePending(l, k)'
      BY <1>2 DEF NoOvertakenEntryAtRest
    <2> DEFINE e == store[l][k]
    <2>1. e \in Ops /\ phase[e] \in {"running", "done"}
      BY DEF StackInv, TypeOK, EntriesFromRuns
    <2>2. op'[e].fence = op[e].fence /\ op'[e].open = op[e].open
      BY <1>0, <1>1, <2>1 DEF Local
    <2>3. CheckPending(l, e) \/ DeletePending(l, k)
      BY <1>2, <2>2 DEF StackInv, NoOvertakenEntryAtRest, Overtaken
    <2> QED BY <1>2, <2>2, <2>3 DEF CheckPending, DeletePending
  <1>13. RunningIsNewest' /\ WritesOneKey'
    <2>1. RunningIsNewest'
      BY <1>0, <1>1, <1>2, NewestStays DEF StackInv, RunningIsNewest, Local
    <2>2. WritesOneKey'
      BY <1>0, <1>1, <1>2 DEF StackInv, WritesOneKey, Local
    <2> QED BY <2>1, <2>2
  <1> QED BY <1>4, <1>5, <1>6, <1>7, <1>8, <1>9, <1>10, <1>11, <1>12, <1>13 DEF StackInv

\* A write that joins the chain has nothing under way yet.
LEMMA JoinsKeeps ==
    ASSUME StackInv, NEW o \in Ops, NEW K \in SUBSET Keys, NEW r, Joins(o, K, r)
    PROVE  StackInv'
  <1>1. /\ op'[o] = r /\ \A q \in Ops : q # o => op'[q] = op[q]
        /\ op' \in [Ops -> OpRecords]
    BY DEF StackInv, TypeOK, Joins
  <1>2. UNCHANGED <<epochs, pend, store, degraded, failed, barrier>>
    BY DEF Joins
  <1>3. /\ phase[o] = "idle" /\ phase'[o] = "queued"
        /\ \A q \in Ops : q # o => phase'[q] = phase[q]
    BY DEF StackInv, TypeOK, OrderTypeOK, Joins, Admit
  <1>4. OrderTypeOK' /\ OrderInv'
    BY AdmitOrder DEF StackInv, TypeOK, Joins
  <1>5. \A c \in pend : c.by \in Ops \ {o}
    BY DEF StackInv, TypeOK, Commands, CommandsHaveSenders, HasSent, Joins
  <1>6. \A l \in Layers, k \in Keys : store[l][k] # None => store[l][k] \in Ops \ {o}
    BY <1>3 DEF StackInv, TypeOK, EntriesFromRuns
  <1>7. TypeOK' /\ GoodTable(epochs')
    BY <1>1, <1>2, <1>4 DEF StackInv, TypeOK, Joins
  <1>8. PcMatchesPhase'
    BY <1>1, <1>3 DEF StackInv, PcMatchesPhase, PcMatches, Joins
  <1>9. CommandsHaveSenders'
    BY <1>1, <1>2, <1>3, <1>5 DEF StackInv, CommandsHaveSenders
  <1>10. CleanupReaches'
    BY <1>1, <1>2, <1>3 DEF StackInv, CleanupReaches, Joins
  <1>11. OnlyFailedSkipped' /\ BackfillsGoUp'
    BY <1>1, <1>2 DEF StackInv, OnlyFailedSkipped, BackfillsGoUp, IsBackfill, Joins
  <1>12. EntriesFromRuns'
    BY <1>1, <1>2, <1>3, <1>5, <1>6 DEF StackInv, EntriesFromRuns
  <1>13. FencesBehind'
    <2>1. \A k \in Keys : \A f : NotAhead(f, k)' <=> NotAhead(f, k)
      BY <1>2 DEF NotAhead, CurrentFence, CurrentKeyEpoch
    <2> QED BY <1>1, <1>2, <2>1 DEF StackInv, FencesBehind, Joins
  <1>14. NoOvertakenEntryAtRest'
    BY <1>1, <1>2, <1>3, <1>6
       DEF StackInv, NoOvertakenEntryAtRest, Overtaken, CheckPending, DeletePending
  <1>15. RunningIsNewest' /\ WritesOneKey'
    <2>1. keysOf'[o] = K /\ \A q \in Ops : q # o => keysOf'[q] = keysOf[q]
      BY DEF StackInv, TypeOK, OrderTypeOK, Joins, Admit
    <2>2. op'[o].active = op[o].active /\ op[o].active = {}
      BY <1>1, <1>3 DEF StackInv, RunningIsNewest, WritesOneKey, Joins
    <2>3. RunningIsNewest'
      BY <1>1, <1>3, <2>1, <2>2, NewestStays DEF StackInv, RunningIsNewest
    <2>4. WritesOneKey'
      BY <1>1, <1>3, <2>1 DEF StackInv, WritesOneKey, Joins
    <2> QED BY <2>3, <2>4
  <1> QED BY <1>4, <1>7, <1>8, <1>9, <1>10, <1>11, <1>12, <1>13, <1>14, <1>15 DEF StackInv

\* An invalidation overtakes entries, and sends the deletes that remove them.
LEMMA InvalidatesKeeps ==
    ASSUME StackInv, NEW o \in Ops, NEW K, NEW L, NEW r, Invalidates(o, K, L, r)
    PROVE  StackInv'
  <1>1. /\ op'[o] = r /\ \A q \in Ops : q # o => op'[q] = op[q]
        /\ op' \in [Ops -> OpRecords]
    BY DEF StackInv, TypeOK, Invalidates
  <1>2. /\ UNCHANGED <<phase, keysOf, before, store, tracked, degraded, failed>>
        /\ op[o].pc = "idle" /\ r.pc = "erasing" /\ r.open = op[o].open
        /\ K \subseteq Keys /\ Layers \ failed \subseteq L /\ L \subseteq Layers
        /\ pend' = pend \cup DeleteCommands(o, L, K)
    BY DEF Invalidates, chainVars
  <1>3. phase[o] = "idle" /\ op[o].open = {}
    BY <1>2 DEF StackInv, PcMatchesPhase, PcMatches, CleanupReaches
  <1>5. \A c \in pend : c.by \in Ops \ {o}
    BY <1>2 DEF StackInv, TypeOK, Commands, CommandsHaveSenders, HasSent
  <1>6. \A c \in DeleteCommands(o, L, K) :
            c \in Commands /\ c.by = o /\ c.kind = "delete" /\ c.layer \in L /\ c.key \in K
    BY <1>2 DEF DeleteCommands, Commands
  <1>7. \A l \in L, k \in K : \E c \in DeleteCommands(o, L, K) :
            c.kind = "delete" /\ c.layer = l /\ c.key = k
    <2> USE DEF DeleteCommands
    <2> TAKE l \in L, k \in K
    <2> WITNESS [by |-> o, layer |-> l, key |-> k, kind |-> "delete"] \in DeleteCommands(o, L, K)
    <2> QED OBVIOUS
  <1>8. GoodTable(epochs) /\ GoodTable(epochs') /\ \A k \in Keys : LaterFor(k, epochs, epochs')
    BY DEF StackInv, Invalidates
  <1>9. barrier' = [k \in Keys |-> IF k \in K THEN CurrentFence(k)' ELSE barrier[k]]
    BY DEF Invalidates
  <1>10. \A k \in Keys : CurrentFence(k)' \in Fences /\ ~Precedes(CurrentFence(k)', CurrentFence(k)')
    <2> TAKE k \in Keys
    <2>1. KeyEpochIn(epochs', k) \in Nat /\ epochs'.clear \in Nat
      BY <1>8, KeyEpochType DEF GoodTable, IsEpochTable
    <2> QED BY <2>1 DEF CurrentFence, Fences, Precedes, CurrentKeyEpoch
  <1>11. TypeOK' /\ GoodTable(epochs')
    <2>1. barrier' \in [Keys -> Fences]
      BY <1>9, <1>10 DEF StackInv, TypeOK
    <2>2. pend' \subseteq Commands
      BY <1>2, <1>6 DEF StackInv, TypeOK
    <2> QED BY <1>1, <1>2, <1>8, <2>1, <2>2 DEF StackInv, TypeOK, OrderTypeOK, GoodTable
  <1>12. OrderInv'
    BY <1>2 DEF StackInv, OrderInv, Share
  <1>13. PcMatchesPhase'
    <2>1. PcMatches(r, phase[o])
      BY <1>2, <1>3 DEF PcMatches
    <2> QED BY <1>1, <1>2, <2>1 DEF StackInv, PcMatchesPhase
  <1>14. CommandsHaveSenders'
    <2>1. HasSent(r, phase[o])
      BY <1>2 DEF HasSent
    <2> QED BY <1>1, <1>2, <1>5, <1>6, <2>1 DEF StackInv, CommandsHaveSenders
  <1>15. CleanupReaches' /\ OnlyFailedSkipped' /\ BackfillsGoUp'
    BY <1>1, <1>2, <1>3
       DEF StackInv, CleanupReaches, OnlyFailedSkipped, BackfillsGoUp, IsBackfill, Invalidates
  <1>16. EntriesFromRuns'
    <2>1. \A l \in Layers, k \in Keys : store[l][k] # None => store[l][k] \in Ops \ {o}
      BY <1>3 DEF StackInv, TypeOK, EntriesFromRuns
    <2> QED BY <1>1, <1>2, <1>5, <1>6, <2>1 DEF StackInv, EntriesFromRuns
  <1>17. FencesBehind'
    <2>1. \A q \in Ops : /\ op'[q].fence = op[q].fence /\ op'[q].readFence = op[q].readFence
                         /\ op[q].fence \in [Keys -> Fences] /\ op[q].readFence \in [Keys -> Fences]
      BY <1>1 DEF Invalidates, StackInv, TypeOK, OpRecords
    <2>2. barrier \in [Keys -> Fences]
      BY DEF StackInv, TypeOK
    <2>3. \A k \in Keys, f \in Fences : NotAhead(f, k) => ~Precedes(CurrentFence(k)', f)
      BY <1>8, NotAheadStays DEF NotAhead
    <2>4. \A k \in Keys, q \in Ops : /\ ~Precedes(CurrentFence(k)', op'[q].fence[k])
                                     /\ ~Precedes(CurrentFence(k)', op'[q].readFence[k])
      BY <2>1, <2>3 DEF StackInv, FencesBehind
    <2>5. \A k \in Keys : ~Precedes(CurrentFence(k)', barrier'[k])
      BY <1>9, <1>10, <2>2, <2>3 DEF StackInv, FencesBehind
    <2> QED BY <2>4, <2>5 DEF FencesBehind, NotAhead
  <1>18. NoOvertakenEntryAtRest'
    <2> SUFFICES ASSUME NEW l \in Layers \ failed, NEW k \in Keys,
                        store[l][k] # None, Overtaken(store[l][k], k)'
                 PROVE  CheckPending(l, store[l][k])' \/ DeletePending(l, k)'
      BY <1>2 DEF NoOvertakenEntryAtRest
    <2>1. CASE k \in K
      <3>1. DeletePending(l, k)'
        BY <1>2, <1>7, <2>1 DEF DeletePending
      <3> QED BY <3>1
    <2>2. CASE k \notin K
      <3>1. store[l][k] \in Ops /\ store[l][k] # o
        BY <1>3 DEF StackInv, TypeOK, EntriesFromRuns
      <3>2. Overtaken(store[l][k], k)
        BY <1>1, <1>2, <1>9, <2>2, <3>1 DEF Overtaken, Invalidates
      <3>3. CheckPending(l, store[l][k]) \/ DeletePending(l, k)
        BY <3>2 DEF StackInv, NoOvertakenEntryAtRest
      <3> QED BY <1>1, <1>2, <3>1, <3>3 DEF CheckPending, DeletePending
    <2> QED BY <2>1, <2>2
  <1>19. RunningIsNewest' /\ WritesOneKey'
    <2>1. RunningIsNewest'
      BY <1>1, <1>2, NewestStays DEF StackInv, RunningIsNewest, Invalidates
    <2>2. WritesOneKey'
      BY <1>1, <1>2, <1>3 DEF StackInv, WritesOneKey, Invalidates
    <2> QED BY <2>1, <2>2
  <1> QED BY <1>11, <1>12, <1>13, <1>14, <1>15, <1>16, <1>17, <1>18, <1>19 DEF StackInv

\* The operation's turn comes, whether it sends sets or finds nothing current.
LEMMA RunKeeps ==
    ASSUME StackInv, NEW o \in Ops, Run(o)
    PROVE  StackInv'
  <1> DEFINE current == {k \in keysOf[o] : ~Outdated(o, k)}
             L == RunLayers(o)
             sent == IF current = {} THEN {} ELSE SetCommands(o, L, current)
  <1>1. PICK r : /\ r \in OpRecords /\ op' = [op EXCEPT ![o] = r]
                 /\ IF current = {}
                    THEN r.pc = "settling" /\ r.open = op[o].open /\ r.active = op[o].active
                    ELSE r.pc = op[o].pc /\ r.open = L /\ r.active = current
                 /\ r.call = op[o].call /\ r.fence = op[o].fence /\ r.readFence = op[o].readFence
                 /\ r.targets = op[o].targets /\ r.cleans = op[o].cleans /\ r.val = op[o].val
                 /\ r.rejected = op[o].rejected /\ r.gaveUp = op[o].gaveUp /\ r.keys = op[o].keys
    <2>0. /\ op[o] \in OpRecords /\ keysOf[o] \subseteq Keys /\ current \subseteq Keys
          /\ L \subseteq op[o].targets
      BY DEF StackInv, TypeOK, OrderTypeOK, RunLayers
    <2>1. CASE current = {}
      <3> DEFINE r == [op[o] EXCEPT !.pc = "settling",
                                    !.todo = IF op[o].call = "mset" THEN keysOf[o] ELSE {}]
      <3>1. op' = [op EXCEPT ![o] = r]
        BY <2>1 DEF Run
      <3>2. /\ r \in OpRecords /\ r.pc = "settling" /\ r.open = op[o].open
            /\ r.active = op[o].active
            /\ r.call = op[o].call /\ r.fence = op[o].fence /\ r.readFence = op[o].readFence
            /\ r.targets = op[o].targets /\ r.cleans = op[o].cleans /\ r.val = op[o].val
            /\ r.rejected = op[o].rejected /\ r.gaveUp = op[o].gaveUp /\ r.keys = op[o].keys
        BY <2>0 DEF OpRecords, Pcs
      <3> HIDE DEF r
      <3> QED BY <2>1, <3>1, <3>2
    <2>2. CASE current # {}
      <3> DEFINE r == [op[o] EXCEPT !.open = L, !.active = current]
      <3>1. op' = [op EXCEPT ![o] = r]
        BY <2>2 DEF Run
      <3> HIDE DEF current, L
      <3>2. /\ r \in OpRecords /\ r.pc = op[o].pc /\ r.open = L /\ r.active = current
            /\ r.call = op[o].call /\ r.fence = op[o].fence /\ r.readFence = op[o].readFence
            /\ r.targets = op[o].targets /\ r.cleans = op[o].cleans /\ r.val = op[o].val
            /\ r.rejected = op[o].rejected /\ r.gaveUp = op[o].gaveUp /\ r.keys = op[o].keys
        BY <2>0 DEF OpRecords
      <3> HIDE DEF r
      <3> QED BY <2>2, <3>1, <3>2
    <2> QED BY <2>1, <2>2
  <1>2. /\ op[o].pc = "writing" /\ Begin(o) /\ pend' = pend \cup sent
        /\ UNCHANGED <<epochs, store, tracked, degraded, failed, barrier>>
    BY DEF Run
  <1>3. /\ phase[o] = "queued" /\ phase'[o] = "running"
        /\ \A q \in Ops : q # o => phase'[q] = phase[q]
        /\ OrderTypeOK' /\ OrderInv'
    BY <1>2, BeginOrder DEF StackInv, TypeOK, OrderTypeOK, Begin
  <1>17. current \subseteq keysOf[o] /\ \A k \in current : ~Outdated(o, k)
    OBVIOUS
  <1>4. op[o].open = {} /\ L \subseteq op[o].targets /\ current \subseteq Keys /\ L \subseteq Layers
    BY <1>3 DEF StackInv, CleanupReaches, RunLayers, TypeOK, OrderTypeOK, OpRecords
  <1>5. \A c \in sent : /\ c \in Commands /\ c.by = o /\ c.kind = "set"
                        /\ c.layer \in L /\ c.key \in current /\ current # {}
    <2> HIDE DEF L, current
    <2> QED BY <1>4 DEF SetCommands, Commands
  <1> HIDE DEF L, current, sent
  <1>6. /\ op'[o] = r /\ \A q \in Ops : q # o => op'[q] = op[q]
        /\ op' \in [Ops -> OpRecords]
    BY <1>1 DEF StackInv, TypeOK
  <1>7. \A c \in pend : c.by \in Ops \ {o}
    BY <1>2, <1>3 DEF StackInv, TypeOK, Commands, CommandsHaveSenders, HasSent
  <1>8. \A l \in Layers, k \in Keys : store[l][k] # None => store[l][k] \in Ops \ {o}
    BY <1>3 DEF StackInv, TypeOK, EntriesFromRuns
  <1>9. TypeOK' /\ GoodTable(epochs')
    BY <1>2, <1>3, <1>5, <1>6 DEF StackInv, TypeOK
  <1>10. r.pc \in {"writing", "settling"} /\ PcMatches(r, "running") /\ HasSent(r, "running")
    BY <1>1, <1>2 DEF StackInv, PcMatchesPhase, PcMatches, HasSent
  <1>11. PcMatchesPhase' /\ CommandsHaveSenders'
    BY <1>2, <1>3, <1>5, <1>6, <1>7, <1>10 DEF StackInv, PcMatchesPhase, CommandsHaveSenders
  <1>12. CleanupReaches'
    <2>1. /\ r.open \subseteq r.targets
          /\ r.open # {} => r.pc = "writing"
          /\ r.call # "mset" => r.targets \ failed \subseteq r.cleans
      BY <1>1, <1>2, <1>4 DEF StackInv, CleanupReaches
    <2> QED BY <1>2, <1>3, <1>6, <2>1 DEF StackInv, CleanupReaches
  <1>13. OnlyFailedSkipped' /\ BackfillsGoUp'
    BY <1>1, <1>2, <1>6 DEF StackInv, OnlyFailedSkipped, BackfillsGoUp, IsBackfill
  <1>14. EntriesFromRuns'
    <2>1. \A c \in sent : c.key \in r.active /\ c.layer \in r.targets /\ c.layer \in r.open
      BY <1>1, <1>4, <1>5
    <2> QED BY <1>2, <1>3, <1>5, <1>6, <1>7, <1>8, <2>1 DEF StackInv, EntriesFromRuns
  <1>15. FencesBehind'
    <2>1. \A k \in Keys : \A f : NotAhead(f, k)' <=> NotAhead(f, k)
      BY <1>2 DEF NotAhead, CurrentFence, CurrentKeyEpoch
    <2> QED BY <1>1, <1>2, <1>6, <2>1 DEF StackInv, FencesBehind
  <1>16. NoOvertakenEntryAtRest'
    BY <1>2, <1>3, <1>6, <1>8
       DEF StackInv, NoOvertakenEntryAtRest, Overtaken, CheckPending, DeletePending
  <1>18. RunningIsNewest' /\ WritesOneKey'
    <2>1. UNCHANGED <<keysOf, before>>
      BY <1>2 DEF Begin
    <2>2. ASSUME NEW p \in Ops, NEW q \in Ops, phase'[p] = "running", phase'[q] \in {"running", "done"},
                 NEW k \in Keys, k \in op'[p].active, k \in op'[q].active
          PROVE  ~Precedes(op'[p].fence[k], op'[q].fence[k])
      <3>1. op[p].fence[k] \in Fences /\ op[q].fence[k] \in Fences /\ NotAhead(op[q].fence[k], k)
        BY DEF StackInv, TypeOK, OpRecords, FencesBehind
      <3>2. op'[p].fence = op[p].fence /\ op'[q].fence = op[q].fence
        BY <1>1, <1>6
      <3>3. k \in keysOf[p] /\ k \in keysOf[q]
        BY <1>1, <1>6, <1>17, <2>2 DEF StackInv, RunningIsNewest
      <3>4. CASE p = q
        BY <3>1, <3>2, <3>4 DEF Precedes, Fences
      <3>5. CASE p = o /\ q # o
        <4>1. op[o].active = {}
          BY <1>3, <1>17 DEF StackInv, RunningIsNewest
        <4>2. k \in current
          BY <1>1, <1>6, <2>2, <3>5, <4>1
        <4>3. ~IsWriteOutdated(k, op[p].fence[k])
          BY <1>17, <3>5, <4>2 DEF Outdated
        <4> QED BY <3>1, <3>2, <4>3, PrecededIsOutdated DEF StackInv
      <3>6. CASE p # o /\ q = o
        <4>1. o \in before'[p] \/ p \in before'[o]
          BY <1>3, <2>1, <2>2, <3>3, <3>6 DEF OrderInv, Share
        <4> QED BY <1>3, <2>2, <3>6, <4>1 DEF OrderInv
      <3>7. CASE p # o /\ q # o
        BY <1>3, <1>6, <2>2, <3>7 DEF StackInv, RunningIsNewest
      <3> QED BY <3>4, <3>5, <3>6, <3>7
    <2>3. \A p \in Ops : /\ op'[p].active \subseteq keysOf'[p] /\ op'[p].active \subseteq Keys
                         /\ op'[p].active # {} => phase'[p] \in {"running", "done"}
      <3>1. \A p \in Ops : op'[p].active \subseteq Keys
        BY <1>6 DEF OpRecords
      <3> QED BY <1>1, <1>3, <1>6, <1>17, <2>1, <3>1 DEF StackInv, RunningIsNewest
    <2>4. RunningIsNewest'
      BY <2>2, <2>3 DEF RunningIsNewest
    <2>5. WritesOneKey'
      BY <1>1, <1>3, <1>6, <2>1 DEF StackInv, WritesOneKey
    <2> QED BY <2>4, <2>5
  <1> QED BY <1>3, <1>9, <1>11, <1>12, <1>13, <1>14, <1>15, <1>16, <1>18 DEF StackInv

\* A running write leaves its layers: the deletes are sent for its outdated keys.
Checks(o, L, K, r) ==
    /\ phase[o] = "running" /\ op[o].pc = "writing"
    /\ r \in OpRecords /\ op' = [op EXCEPT ![o] = r]
    /\ r.pc \in {"writing", "cleaning", "settling"}
    /\ r = [op[o] EXCEPT !.pc = r.pc, !.open = op[o].open \ L, !.todo = r.todo]
    /\ IF r.pc = "writing" THEN op[o].call = "mset" ELSE op[o].open \subseteq L
    /\ \A c \in Awaited(o) : c.layer \notin L
    /\ K \subseteq op[o].active
    /\ \E D \in SUBSET Layers : /\ pend' = pend \cup DeleteCommands(o, D, K)
                               /\ (L \cap op[o].open) \ failed \subseteq D
    /\ \A l \in L \ failed : \A k \in op[o].active : Outdated(o, k) => k \in K
    /\ UNCHANGED <<epochs, chainVars, store, tracked, degraded, failed, barrier>>

\* The check leaves no overtaken entry behind in its layers: it is not removed
\* only where the layer has failed.
LEMMA ChecksKeeps ==
    ASSUME StackInv, NEW o \in Ops, NEW L \in SUBSET Layers, NEW K, NEW r, Checks(o, L, K, r)
    PROVE  StackInv'
  <1>1. /\ op'[o] = r /\ \A q \in Ops : q # o => op'[q] = op[q]
        /\ op' \in [Ops -> OpRecords]
    BY DEF StackInv, TypeOK, Checks
  <1>2. /\ phase[o] = "running" /\ op[o].pc = "writing"
        /\ UNCHANGED <<epochs, phase, keysOf, before, store, tracked, degraded, failed, barrier>>
        /\ r.pc \in {"writing", "cleaning", "settling"}
        /\ IF r.pc = "writing" THEN op[o].call = "mset" ELSE op[o].open \subseteq L
    BY DEF Checks, chainVars
  <1>3. /\ r.open = op[o].open \ L /\ r.active = op[o].active
        /\ r.call = op[o].call /\ r.fence = op[o].fence /\ r.readFence = op[o].readFence
        /\ r.targets = op[o].targets /\ r.cleans = op[o].cleans /\ r.val = op[o].val
        /\ r.rejected = op[o].rejected /\ r.gaveUp = op[o].gaveUp /\ r.keys = op[o].keys
    <2>1. op[o] \in OpRecords /\ r = [op[o] EXCEPT !.pc = r.pc, !.open = op[o].open \ L, !.todo = r.todo]
      BY DEF StackInv, TypeOK, Checks
    <2> QED BY <2>1 DEF OpRecords
  <1>4. PICK D \in SUBSET Layers : /\ pend' = pend \cup DeleteCommands(o, D, K)
                                   /\ (L \cap op[o].open) \ failed \subseteq D
    BY DEF Checks
  <1>5. K \subseteq op[o].active /\ K \subseteq Keys
    BY DEF Checks, StackInv, TypeOK, OpRecords
  <1>6. \A c \in DeleteCommands(o, D, K) : c \in Commands /\ c.by = o /\ c.kind = "delete"
    BY <1>5 DEF DeleteCommands, Commands
  <1>7. \A l \in D, k \in K : \E c \in DeleteCommands(o, D, K) :
            c.kind = "delete" /\ c.layer = l /\ c.key = k
    <2> USE DEF DeleteCommands
    <2> TAKE l \in D, k \in K
    <2> WITNESS [by |-> o, layer |-> l, key |-> k, kind |-> "delete"] \in DeleteCommands(o, D, K)
    <2> QED OBVIOUS
  <1>8. \A c \in pend : c.by \in Ops
    BY DEF StackInv, TypeOK, Commands
  <1>9. TypeOK' /\ GoodTable(epochs') /\ OrderInv'
    <2>1. pend' \subseteq Commands
      BY <1>4, <1>6 DEF StackInv, TypeOK
    <2> QED BY <1>1, <1>2, <2>1 DEF StackInv, TypeOK, OrderTypeOK, OrderInv, Share
  <1>10. PcMatches(r, "running") /\ HasSent(r, "running")
    BY <1>2, <1>3 DEF StackInv, PcMatchesPhase, PcMatches, HasSent
  <1>11. PcMatchesPhase' /\ CommandsHaveSenders'
    BY <1>1, <1>2, <1>3, <1>4, <1>6, <1>8, <1>10 DEF StackInv, PcMatchesPhase, CommandsHaveSenders
  <1>12. CleanupReaches' /\ OnlyFailedSkipped' /\ BackfillsGoUp'
    BY <1>1, <1>2, <1>3
       DEF StackInv, CleanupReaches, OnlyFailedSkipped, BackfillsGoUp, IsBackfill
  <1>13. EntriesFromRuns'
    <2>1. ASSUME NEW c \in pend, c.kind = "set", c.by = o, c.layer \notin failed
          PROVE  c.layer \in r.open
      <3>1. c.layer \in op[o].open
        BY <2>1 DEF StackInv, EntriesFromRuns
      <3>2. c.layer \notin op[o].rejected \cup op[o].gaveUp
        BY <2>1 DEF StackInv, OnlyFailedSkipped
      <3>3. c \in Awaited(o)
        BY <2>1, <3>2 DEF Awaited
      <3> QED BY <1>3, <3>1, <3>3 DEF Checks
    <2>2. \A l \in Layers, k \in Keys : store[l][k] # None => store[l][k] \in Ops
      BY DEF StackInv, TypeOK
    <2> QED BY <1>1, <1>2, <1>3, <1>4, <1>6, <1>8, <2>1, <2>2 DEF StackInv, EntriesFromRuns
  <1>14. FencesBehind'
    <2>1. \A k \in Keys : \A f : NotAhead(f, k)' <=> NotAhead(f, k)
      BY <1>2 DEF NotAhead, CurrentFence, CurrentKeyEpoch
    <2> QED BY <1>1, <1>2, <1>3, <2>1 DEF StackInv, FencesBehind
  <1>15. NoOvertakenEntryAtRest'
    <2> SUFFICES ASSUME NEW l \in Layers \ failed, NEW k \in Keys,
                        store[l][k] # None, Overtaken(store[l][k], k)'
                 PROVE  CheckPending(l, store[l][k])' \/ DeletePending(l, k)'
      BY <1>2 DEF NoOvertakenEntryAtRest
    <2>1. store[l][k] \in Ops /\ k \in op[store[l][k]].active
      BY DEF StackInv, TypeOK, EntriesFromRuns
    <2>2. Overtaken(store[l][k], k)
      BY <1>1, <1>2, <1>3, <2>1 DEF Overtaken
    <2>3. CheckPending(l, store[l][k]) \/ DeletePending(l, k)
      BY <2>2 DEF StackInv, NoOvertakenEntryAtRest
    <2>4. CASE DeletePending(l, k) \/ store[l][k] # o \/ l \notin L
      BY <1>1, <1>2, <1>3, <1>4, <2>1, <2>3, <2>4 DEF CheckPending, DeletePending
    <2>5. CASE store[l][k] = o /\ l \in L /\ CheckPending(l, o)
      <3>1. op[o].fence[k] \in Fences /\ barrier[k] \in Fences /\ NotAhead(barrier[k], k)
        BY DEF StackInv, TypeOK, OpRecords, FencesBehind
      <3>2. Outdated(o, k)
        BY <2>2, <2>5, <3>1, PrecededIsOutdated DEF Overtaken, Outdated, StackInv
      <3>3. k \in K /\ l \in D
        BY <1>4, <2>1, <2>5, <3>2 DEF Checks, CheckPending
      <3> QED BY <1>4, <1>7, <3>3 DEF DeletePending
    <2> QED BY <2>3, <2>4, <2>5
  <1>16. RunningIsNewest' /\ WritesOneKey'
    <2>1. RunningIsNewest'
      BY <1>1, <1>2, <1>3, NewestStays DEF StackInv, RunningIsNewest
    <2>2. WritesOneKey'
      BY <1>1, <1>2, <1>3 DEF StackInv, WritesOneKey
    <2> QED BY <2>1, <2>2
  <1> QED BY <1>9, <1>11, <1>12, <1>13, <1>14, <1>15, <1>16 DEF StackInv

\* The serialised operation ends.
LEMMA FinishKeeps ==
    ASSUME StackInv, NEW o \in Ops, Finish(o)
    PROVE  StackInv'
  <1>1. /\ op[o].pc = "settling" /\ Settle(o)
        /\ op' = [op EXCEPT ![o].pc = IF op[o].todo = {} THEN "done" ELSE "indexing"]
        /\ UNCHANGED <<epochs, pend, store, tracked, degraded, failed, barrier>>
    BY DEF Finish
  <1>2. /\ phase[o] = "running" /\ phase'[o] = "done"
        /\ \A q \in Ops : q # o => phase'[q] = phase[q]
        /\ OrderTypeOK' /\ OrderInv'
    BY <1>1, SettleOrder DEF StackInv, TypeOK, OrderTypeOK, Settle
  <1>3. /\ \A q \in Ops : q # o => op'[q] = op[q]
        /\ op' \in [Ops -> OpRecords] /\ op'[o].pc \in {"done", "indexing"}
        /\ \A q \in Ops : /\ op'[q].call = op[q].call /\ op'[q].fence = op[q].fence
                          /\ op'[q].readFence = op[q].readFence /\ op'[q].open = op[q].open
                          /\ op'[q].active = op[q].active /\ op'[q].targets = op[q].targets
                          /\ op'[q].rejected = op[q].rejected /\ op'[q].gaveUp = op[q].gaveUp
                          /\ op'[q].keys = op[q].keys
    BY <1>1 DEF StackInv, TypeOK, OpRecords, Pcs
  <1>4. op[o].open = {} /\ op[o].call # "clear"
    BY <1>1 DEF StackInv, CleanupReaches, PcMatchesPhase, PcMatches
  <1>5. \A c \in pend : c.by \in Ops
    BY DEF StackInv, TypeOK, Commands
  <1>6. \A l \in Layers, k \in Keys : store[l][k] # None => store[l][k] \in Ops
    BY DEF StackInv, TypeOK
  <1>7. TypeOK' /\ GoodTable(epochs')
    BY <1>1, <1>2, <1>3 DEF StackInv, TypeOK
  <1>8. PcMatchesPhase' /\ CommandsHaveSenders'
    <2>1. PcMatches(op'[o], "done") /\ HasSent(op'[o], "done")
      BY <1>3, <1>4 DEF PcMatches, HasSent
    <2> QED BY <1>1, <1>2, <1>3, <1>5, <2>1 DEF StackInv, PcMatchesPhase, CommandsHaveSenders
  <1>9. CleanupReaches' /\ OnlyFailedSkipped' /\ BackfillsGoUp'
    BY <1>1, <1>2, <1>3, <1>4
       DEF StackInv, CleanupReaches, OnlyFailedSkipped, BackfillsGoUp, IsBackfill
  <1>10. EntriesFromRuns'
    BY <1>1, <1>2, <1>3, <1>5, <1>6 DEF StackInv, EntriesFromRuns
  <1>11. FencesBehind'
    <2>1. \A k \in Keys : \A f : NotAhead(f, k)' <=> NotAhead(f, k)
      BY <1>1 DEF NotAhead, CurrentFence, CurrentKeyEpoch
    <2> QED BY <1>1, <1>3, <2>1 DEF StackInv, FencesBehind
  <1>12. NoOvertakenEntryAtRest'
    BY <1>1, <1>2, <1>3, <1>4, <1>6
       DEF StackInv, NoOvertakenEntryAtRest, Overtaken, CheckPending, DeletePending
  <1>13. RunningIsNewest' /\ WritesOneKey'
    <2>0. UNCHANGED keysOf
      BY <1>1 DEF Settle
    <2>1. RunningIsNewest'
      BY <1>1, <1>2, <1>3, <2>0, NewestStays DEF StackInv, RunningIsNewest
    <2>2. WritesOneKey'
      BY <1>1, <1>2, <1>3, <2>0 DEF StackInv, WritesOneKey
    <2> QED BY <2>1, <2>2
  <1> QED BY <1>2, <1>7, <1>8, <1>9, <1>10, <1>11, <1>12, <1>13 DEF StackInv

\* A command is answered; its effect is known unless its layer has failed.
Answers(c, r) ==
    /\ r \in OpRecords /\ op' = [op EXCEPT ![c.by] = r]
    /\ pend' = pend \ {c}
    /\ store' = After(c) \/ (store' = store /\ c.layer \in failed')
    /\ UNCHANGED <<epochs, chainVars, tracked, barrier>>
    /\ failed \subseteq failed' /\ failed' \subseteq Layers /\ degraded' \subseteq failed'
    /\ r.rejected \cup r.gaveUp \subseteq failed'
    /\ r.open \subseteq op[c.by].open /\ op[c.by].open \ failed' \subseteq r.open
    /\ r.call = op[c.by].call /\ r.active = op[c.by].active /\ r.val = op[c.by].val
    /\ r.targets = op[c.by].targets /\ r.cleans = op[c.by].cleans
    /\ r.fence = op[c.by].fence /\ r.readFence = op[c.by].readFence /\ r.keys = op[c.by].keys
    /\ PcMatches(r, phase[c.by]) /\ HasSent(r, phase[c.by])
    /\ r.pc \in {"writing", "cleaning"} => r.pc = op[c.by].pc
    /\ r.open # {} => r.pc = "writing"

\* A set that lands is checked later; a delete that lands leaves nothing behind.
LEMMA AnswersKeeps ==
    ASSUME StackInv, NEW c \in pend, NEW r, Answers(c, r)
    PROVE  StackInv'
  <1>1. PICK o \in Ops : o = c.by
    BY DEF StackInv, TypeOK, Commands
  <1>2. /\ c.layer \in Layers /\ c.key \in Keys /\ c.kind \in {"set", "delete"}
        /\ \A d \in pend : d.by \in Ops /\ d.layer \in Layers /\ d.key \in Keys
    BY DEF StackInv, TypeOK, Commands
  <1>3. /\ op'[o] = r /\ \A q \in Ops : q # o => op'[q] = op[q]
        /\ op' \in [Ops -> OpRecords]
    BY <1>1 DEF StackInv, TypeOK, Answers
  <1>4. /\ UNCHANGED <<epochs, phase, keysOf, before, tracked, barrier>>
        /\ failed \subseteq failed' /\ failed' \subseteq Layers /\ degraded' \subseteq failed'
        /\ pend' = pend \ {c}
    BY DEF Answers, chainVars
  <1>5. \A q \in Ops : /\ op'[q].open \subseteq op[q].open /\ op[q].open \ failed' \subseteq op'[q].open
                       /\ op'[q].call = op[q].call /\ op'[q].active = op[q].active
                       /\ op'[q].val = op[q].val /\ op'[q].targets = op[q].targets
                       /\ op'[q].cleans = op[q].cleans /\ op'[q].fence = op[q].fence
                       /\ op'[q].readFence = op[q].readFence /\ op'[q].keys = op[q].keys
                       /\ op'[q].pc \in {"writing", "cleaning"} => op'[q].pc = op[q].pc
                       /\ op'[q].open # {} => op'[q].pc = "writing"
    BY <1>1, <1>3 DEF Answers, StackInv, CleanupReaches
  <1>6. \A l \in Layers, k \in Keys :
           \/ store'[l][k] = store[l][k] /\ (l = c.layer /\ k = c.key => l \in failed')
           \/ /\ l = c.layer /\ k = c.key
              /\ store'[l][k] = IF c.kind = "set" THEN o ELSE None
    BY <1>1, <1>2 DEF Answers, After, StackInv, TypeOK
  <1>7. \A l \in Layers, k \in Keys : store[l][k] # None => store[l][k] \in Ops
    BY DEF StackInv, TypeOK
  <1>8. TypeOK' /\ GoodTable(epochs') /\ OrderInv'
    <2>1. store' \in [Layers -> [Keys -> Ops \cup {None}]]
      <3>1. store \in [Layers -> [Keys -> Ops \cup {None}]]
        BY DEF StackInv, TypeOK
      <3>2. store' \in {store, After(c)}
        BY DEF Answers
      <3> QED BY <1>1, <1>2, <3>1, <3>2 DEF After
    <2> QED BY <1>3, <1>4, <2>1 DEF StackInv, TypeOK, OrderTypeOK, OrderInv, Share
  <1>9. PcMatchesPhase' /\ CommandsHaveSenders'
    BY <1>1, <1>2, <1>3, <1>4 DEF StackInv, PcMatchesPhase, CommandsHaveSenders, Answers
  <1>10. CleanupReaches'
    BY <1>4, <1>5 DEF StackInv, CleanupReaches
  <1>11. OnlyFailedSkipped' /\ BackfillsGoUp'
    BY <1>1, <1>3, <1>4, <1>5 DEF StackInv, OnlyFailedSkipped, BackfillsGoUp, IsBackfill, Answers
  <1>12. EntriesFromRuns'
    <2>1. ASSUME NEW l \in Layers, NEW k \in Keys, store'[l][k] # None
          PROVE  phase'[store'[l][k]] \in {"running", "done"} /\ k \in op'[store'[l][k]].active
      <3>1. CASE store'[l][k] = store[l][k]
        BY <1>4, <1>5, <1>7, <2>1, <3>1 DEF StackInv, EntriesFromRuns
      <3>2. CASE k = c.key /\ c.kind = "set" /\ store'[l][k] = o
        BY <1>1, <1>4, <1>5, <3>2 DEF StackInv, EntriesFromRuns
      <3> QED BY <1>6, <2>1, <3>1, <3>2
    <2>2. \A d \in pend' : d.kind = "set" =>
             /\ phase'[d.by] \in {"running", "done"}
             /\ d.key \in op'[d.by].active
             /\ d.layer \in op'[d.by].targets
             /\ d.layer \notin failed' => d.layer \in op'[d.by].open
      BY <1>2, <1>4, <1>5 DEF StackInv, EntriesFromRuns
    <2> QED BY <2>1, <2>2 DEF EntriesFromRuns
  <1>13. FencesBehind'
    <2>1. \A k \in Keys : \A f : NotAhead(f, k)' <=> NotAhead(f, k)
      BY <1>4 DEF NotAhead, CurrentFence, CurrentKeyEpoch
    <2> QED BY <1>4, <1>5, <2>1 DEF StackInv, FencesBehind
  <1>14. NoOvertakenEntryAtRest'
    <2> SUFFICES ASSUME NEW l \in Layers \ failed', NEW k \in Keys,
                        store'[l][k] # None, Overtaken(store[l][k], k)'
                 PROVE  CheckPending(l, store[l][k])' \/ DeletePending(l, k)'
      BY DEF NoOvertakenEntryAtRest
    <2>0. l \in Layers \ failed
      BY <1>4
    <2>1. CASE l = c.layer /\ k = c.key
      <3>1. c.kind = "set" /\ store'[l][k] = o
        BY <1>6, <2>1
      <3>2. l \in op[o].open
        BY <1>1, <2>0, <2>1, <3>1 DEF StackInv, EntriesFromRuns
      <3>3. phase[o] = "running" /\ l \in op'[o].open
        BY <1>5, <3>2 DEF StackInv, CleanupReaches
      <3> QED BY <1>4, <3>1, <3>3 DEF CheckPending
    <2>2. CASE ~(l = c.layer /\ k = c.key)
      <3>1. store'[l][k] = store[l][k] /\ store[l][k] \in Ops
        BY <1>6, <1>7, <2>2
      <3>2. Overtaken(store[l][k], k)
        BY <1>4, <1>5, <3>1 DEF Overtaken
      <3>3. CheckPending(l, store[l][k]) \/ DeletePending(l, k)
        BY <2>0, <3>1, <3>2 DEF StackInv, NoOvertakenEntryAtRest
      <3>4. DeletePending(l, k) => DeletePending(l, k)'
        BY <1>4, <2>2 DEF DeletePending
      <3>5. CheckPending(l, store[l][k]) => CheckPending(l, store[l][k])'
        BY <1>4, <1>5, <3>1 DEF CheckPending
      <3> QED BY <3>3, <3>4, <3>5
    <2> QED BY <2>1, <2>2
  <1>15. RunningIsNewest' /\ WritesOneKey'
    <2>1. RunningIsNewest'
      BY <1>4, <1>5, NewestStays DEF StackInv, RunningIsNewest
    <2>2. WritesOneKey'
      BY <1>4, <1>5 DEF StackInv, WritesOneKey
    <2> QED BY <2>1, <2>2
  <1> QED BY <1>8, <1>9, <1>10, <1>11, <1>12, <1>13, <1>14, <1>15 DEF StackInv

\* A command that takes effect is answered.
LEMMA LandAnswers ==
    ASSUME StackInv, NEW c \in pend, Land(c)
    PROVE  Answers(c, op[c.by])
  <1>1. c.by \in Ops
    BY DEF StackInv, TypeOK, Commands
  <1>2. /\ op[c.by] \in OpRecords /\ op = [op EXCEPT ![c.by] = op[c.by]]
        /\ degraded \subseteq failed /\ failed \subseteq Layers
        /\ op[c.by].rejected \cup op[c.by].gaveUp \subseteq failed
    BY <1>1 DEF StackInv, TypeOK, OnlyFailedSkipped
  <1>3. /\ PcMatches(op[c.by], phase[c.by]) /\ HasSent(op[c.by], phase[c.by])
        /\ op[c.by].open # {} => op[c.by].pc = "writing"
    BY <1>1 DEF StackInv, PcMatchesPhase, CommandsHaveSenders, CleanupReaches
  <1> QED BY <1>2, <1>3 DEF Land, Answers

\* Where failures are contained, a failing command ends or skips no other layer.
LEMMA FailAnswers ==
    ASSUME FailuresContained, StackInv, NEW c \in pend, Fail(c)
    PROVE  \E r : Answers(c, r)
  <1>1. PICK o \in Ops : o = c.by
    BY DEF StackInv, TypeOK, Commands
  <1> DEFINE e == op[o]
  <1>2. /\ e \in OpRecords /\ degraded \subseteq failed /\ failed \subseteq Layers
        /\ e.rejected \cup e.gaveUp \subseteq failed /\ c.layer \in Layers
    BY DEF StackInv, TypeOK, OnlyFailedSkipped, Commands
  <1>3. /\ PcMatches(e, phase[o]) /\ HasSent(e, phase[o])
        /\ e.open # {} => e.pc = "writing" /\ phase[o] = "running"
        /\ e.open \subseteq e.targets
    BY <1>1 DEF StackInv, PcMatchesPhase, CommandsHaveSenders, CleanupReaches
  <1>4. /\ c.layer \in MayFail /\ pend' = pend \ {c} /\ store' \in {store, After(c)}
        /\ failed' = failed \cup {c.layer}
        /\ UNCHANGED <<epochs, chainVars, tracked, barrier>>
    BY DEF Fail
  <1>5. failed \subseteq failed' /\ failed' \subseteq Layers /\ c.layer \in failed'
    BY <1>2, <1>4
  <1> DEFINE Same(r) == /\ r.call = e.call /\ r.active = e.active /\ r.val = e.val
                        /\ r.targets = e.targets /\ r.cleans = e.cleans
                        /\ r.fence = e.fence /\ r.readFence = e.readFence /\ r.keys = e.keys
  <1>6. ASSUME NEW r \in OpRecords, op' = [op EXCEPT ![o] = r], degraded' \subseteq failed',
               Same(r), r.rejected \cup r.gaveUp \subseteq failed',
               r.open \subseteq e.open, e.open \ failed' \subseteq r.open,
               PcMatches(r, phase[o]), HasSent(r, phase[o]),
               r.pc \in {"writing", "cleaning"} => r.pc = e.pc,
               r.open # {} => r.pc = "writing"
        PROVE  Answers(c, r)
    BY <1>1, <1>4, <1>5, <1>6 DEF Answers
  <1>7. CASE Graceful /\ Guarded(c)
    <2>1. degraded' \subseteq failed'
      BY <1>2, <1>4, <1>7 DEF Fail
    <2>2. CASE e.call = "mset" /\ e.pc = "writing" /\ c.kind = "set"
      <3> DEFINE r == [e EXCEPT !.gaveUp = @ \cup {c.layer}]
      <3>1. op' = [op EXCEPT ![o] = r]
        BY <1>1, <1>7, <2>2 DEF Fail
      <3>2. /\ r \in OpRecords /\ Same(r) /\ r.rejected = e.rejected
            /\ r.gaveUp = e.gaveUp \cup {c.layer} /\ r.open = e.open /\ r.pc = e.pc
        BY <1>2 DEF OpRecords
      <3> HIDE DEF r
      <3>3. PcMatches(r, phase[o]) /\ HasSent(r, phase[o])
        BY <1>3, <3>2 DEF PcMatches, HasSent
      <3> QED BY <1>2, <1>3, <1>5, <1>6, <2>1, <3>1, <3>2, <3>3
    <2>3. CASE ~(e.call = "mset" /\ e.pc = "writing" /\ c.kind = "set")
      <3>1. op' = [op EXCEPT ![o] = e]
        BY <1>1, <1>7, <2>3 DEF Fail, StackInv, TypeOK
      <3> QED BY <1>2, <1>3, <1>5, <1>6, <2>1, <3>1
    <2> QED BY <2>2, <2>3
  <1>8. CASE ~(Graceful /\ Guarded(c))
    <2>1. degraded' \subseteq failed' /\ op' = [op EXCEPT ![o] = Rejects(o, c)]
      BY <1>1, <1>2, <1>4, <1>8 DEF Fail
    <2>2. CASE e.pc \in {"idle", "done", "settling", "indexing"}
      <3>1. Rejects(o, c) = e
        BY <2>2 DEF Rejects
      <3> QED BY <1>2, <1>3, <1>5, <1>6, <2>1, <3>1
    <2>3. CASE e.pc = "erasing"
      <3> DEFINE r == [e EXCEPT !.pc = "done", !.todo = {}]
      <3>1. Rejects(o, c) = r
        BY <2>3 DEF Rejects
      <3>2. /\ r \in OpRecords /\ Same(r) /\ r.rejected = e.rejected
            /\ r.gaveUp = e.gaveUp /\ r.open = e.open /\ r.pc = "done"
        BY <1>2 DEF OpRecords, Pcs
      <3> HIDE DEF r
      <3>3. PcMatches(r, phase[o]) /\ HasSent(r, phase[o]) /\ r.open = {}
        BY <1>3, <2>3, <3>2 DEF PcMatches, HasSent
      <3> QED BY <1>2, <1>3, <1>5, <1>6, <2>1, <3>1, <3>2, <3>3
    <2>4. CASE WritePolicy = "best-effort" /\ ~IsBackfill(o) /\ e.pc = "writing"
      <3> DEFINE r == [e EXCEPT !.rejected = @ \cup {c.layer}, !.open = @ \ {c.layer}]
      <3>1. Rejects(o, c) = r
        BY <2>4 DEF Rejects
      <3>2. /\ r \in OpRecords /\ Same(r) /\ r.rejected = e.rejected \cup {c.layer}
            /\ r.gaveUp = e.gaveUp /\ r.open = e.open \ {c.layer} /\ r.pc = e.pc
        BY <1>2 DEF OpRecords
      <3> HIDE DEF r
      <3>3. PcMatches(r, phase[o]) /\ HasSent(r, phase[o])
        BY <1>3, <3>2 DEF PcMatches, HasSent
      <3> QED BY <1>2, <1>3, <1>5, <1>6, <2>1, <2>4, <3>1, <3>2, <3>3
    <2>5. CASE /\ e.pc \notin {"idle", "done", "settling", "indexing", "erasing"}
               /\ ~(WritePolicy = "best-effort" /\ ~IsBackfill(o) /\ e.pc = "writing")
      <3> DEFINE r == [e EXCEPT !.pc = "settling", !.open = {}, !.todo = {}]
      <3>1. Rejects(o, c) = r
        BY <2>5 DEF Rejects
      <3>2. /\ r \in OpRecords /\ Same(r) /\ r.rejected = e.rejected
            /\ r.gaveUp = e.gaveUp /\ r.open = {} /\ r.pc = "settling"
        BY <1>2 DEF OpRecords, Pcs
      <3> HIDE DEF r
      <3>3. e.pc \in {"writing", "cleaning"} /\ phase[o] = "running" /\ e.call # "clear"
        BY <1>3, <2>5 DEF PcMatches, HasSent
      <3>4. PcMatches(r, phase[o]) /\ HasSent(r, phase[o])
        BY <3>2, <3>3 DEF PcMatches, HasSent
      <3>5. e.open \ failed' = {}
        <4>1. CASE e.pc = "cleaning"
          BY <1>3, <4>1
        <4>2. CASE e.pc = "writing"
          <5>1. ~Graceful /\ MayFail # {}
            BY <1>1, <1>4, <1>8, <3>3, <4>2 DEF Guarded
          <5>2. NumLayers <= 2 /\ IsBackfill(o)
            BY <2>5, <4>2, <5>1 DEF FailuresContained
          <5>3. e.call # "mset" /\ \A l \in e.targets : l < NumLayers
            BY <4>2, <5>2 DEF StackInv, BackfillsGoUp, IsBackfill
          <5>4. c.layer \in e.targets
            <6>1. c.kind = "set"
              BY <1>1, <1>2, <4>2, <5>3 DEF StackInv, CommandsHaveSenders, TypeOK, Commands
            <6> QED BY <1>1, <6>1 DEF StackInv, EntriesFromRuns
          <5>5. \A l \in e.targets : l = 1
            <6>1. e.targets \subseteq Layers
              BY <1>2 DEF OpRecords
            <6> QED BY <5>2, <5>3, <6>1, LayersAssumption DEF Layers
          <5> QED BY <1>3, <1>5, <5>4, <5>5
        <4> QED BY <3>3, <4>1, <4>2
      <3> QED BY <1>2, <1>3, <1>5, <1>6, <2>1, <3>1, <3>2, <3>4, <3>5
    <2> QED BY <2>2, <2>3, <2>4, <2>5
  <1> QED BY <1>7, <1>8

-----------------------------------------------------------------------------
(* Every action is a step of one of these kinds.                           *)

\* The fences a call captures are those of the present epochs.
LEMMA FencesOnType ==
    ASSUME StackInv, NEW K \in SUBSET Keys
    PROVE  /\ FencesOn(K) \in [Keys -> Fences] /\ [k \in Keys |-> NoFence] \in [Keys -> Fences]
           /\ \A k \in Keys : NotAhead(FencesOn(K)[k], k)
  <1>1. \A k \in Keys : /\ CurrentFence(k) \in Fences /\ NotAhead(CurrentFence(k), k)
                        /\ NotAhead(NoFence, k)
    <2> TAKE k \in Keys
    <2>1. CurrentKeyEpoch(k) \in Nat /\ epochs.clear \in Nat
      BY KeyEpochType DEF CurrentKeyEpoch, StackInv, GoodTable, IsEpochTable
    <2> QED BY <2>1 DEF CurrentFence, Fences, NotAhead, Precedes, NoFence
  <1>2. NoFence \in Fences
    BY DEF NoFence, Fences
  <1> QED BY <1>1, <1>2 DEF FencesOn

\* What a call that has not begun knows.
LEMMA CallFacts ==
    ASSUME StackInv, NEW o \in Ops
    PROVE  /\ op[o] \in OpRecords
           /\ degraded \subseteq failed /\ failed \subseteq Layers /\ tracked \subseteq Keys
           /\ \A k \in Keys : NotAhead(op[o].fence[k], k) /\ NotAhead(op[o].readFence[k], k)
           /\ PcMatches(op[o], phase[o]) /\ (op[o].pc # "writing" => op[o].open = {})
           /\ \A c \in pend : c.by = o => HasSent(op[o], phase[o])
           /\ op[o].rejected \cup op[o].gaveUp \subseteq failed
           /\ keysOf[o] \subseteq Keys
  BY DEF StackInv, TypeOK, OrderTypeOK, OnlyFailedSkipped, FencesBehind, PcMatchesPhase,
         CommandsHaveSenders, CleanupReaches

\* set joins the chain of its key.
LEMMA SetJoins ==
    ASSUME StackInv, NEW o \in Ops, NEW k \in Keys, StartSet(o, k)
    PROVE  \E r : Joins(o, {k}, r)
  <1> DEFINE r == [op[o] EXCEPT !.call = "set", !.pc = "writing", !.keys = {k},
                                !.fence = FencesOn({k}), !.val = o,
                                !.targets = Layers, !.cleans = Usable]
  <1>1. /\ op[o].pc = "idle" /\ Admit(o, {k}) /\ op' = [op EXCEPT ![o] = r]
        /\ UNCHANGED <<epochs, pend, store, tracked, degraded, failed, barrier>>
    BY DEF StartSet
  <1>2. /\ r \in OpRecords /\ r.call = "set" /\ r.pc = "writing" /\ r.fence = FencesOn({k})
        /\ r.readFence = op[o].readFence /\ r.val = o /\ r.open = op[o].open
        /\ r.rejected = op[o].rejected /\ r.gaveUp = op[o].gaveUp
        /\ r.targets = Layers /\ r.cleans = Usable /\ r.active = op[o].active
    <2>1. /\ op[o] \in OpRecords /\ {k} \subseteq Keys /\ Usable \subseteq Layers
          /\ FencesOn({k}) \in [Keys -> Fences]
      BY CallFacts, FencesOnType DEF Usable
    <2> QED BY <2>1 DEF OpRecords, Pcs
  <1> HIDE DEF r
  <1>0. op[o].open = {} /\ tracked \subseteq Keys
    BY <1>1, CallFacts
  <1>4. \A j \in Keys : NotAhead(r.fence[j], j) /\ NotAhead(r.readFence[j], j)
    BY <1>2, CallFacts, FencesOnType
  <1>3. Layers \ failed \subseteq Usable
    BY CallFacts DEF Usable
  <1> QED BY <1>0, <1>1, <1>2, <1>3, <1>4 DEF Joins

\* mset joins the chains of its keys.
LEMMA MsetJoins ==
    ASSUME StackInv, NEW o \in Ops, NEW K \in SUBSET Keys, StartMset(o, K)
    PROVE  \E r : Joins(o, K, r)
  <1> DEFINE r == [op[o] EXCEPT !.call = "mset", !.pc = "writing", !.keys = K,
                                !.fence = FencesOn(K), !.val = o, !.targets = Usable]
  <1>1. /\ op[o].pc = "idle" /\ Admit(o, K) /\ op' = [op EXCEPT ![o] = r]
        /\ UNCHANGED <<epochs, pend, store, tracked, degraded, failed, barrier>>
    BY DEF StartMset
  <1>2. /\ r \in OpRecords /\ r.call = "mset" /\ r.pc = "writing" /\ r.fence = FencesOn(K)
        /\ r.readFence = op[o].readFence /\ r.val = o /\ r.open = op[o].open
        /\ r.rejected = op[o].rejected /\ r.gaveUp = op[o].gaveUp /\ r.active = op[o].active
    <2>1. /\ op[o] \in OpRecords /\ Usable \subseteq Layers /\ FencesOn(K) \in [Keys -> Fences]
      BY CallFacts, FencesOnType DEF Usable
    <2> QED BY <2>1 DEF OpRecords, Pcs
  <1> HIDE DEF r
  <1>3. op[o].open = {} /\ tracked \subseteq Keys
    BY <1>1, CallFacts
  <1>4. \A k \in Keys : NotAhead(r.fence[k], k) /\ NotAhead(r.readFence[k], k)
    BY <1>2, CallFacts, FencesOnType
  <1> QED BY <1>1, <1>2, <1>3, <1>4 DEF Joins

\* A hit is copied upwards, or was found in the first layer.
LEMMA BackfillKinds ==
    ASSUME StackInv, NEW o \in Ops, Backfill(o)
    PROVE  (\E r : Local(o, r)) \/ \E K \in SUBSET Keys : \E r : Joins(o, K, r)
  <1> DEFINE above == {l \in Layers : l < op[o].at}
  <1>1. /\ op[o].pc = "hit" /\ tracked' = tracked \cup op[o].keys
        /\ UNCHANGED <<epochs, pend, store, degraded, failed, barrier>>
    BY DEF Backfill
  <1>2. /\ op[o] \in OpRecords /\ op[o].keys \subseteq Keys /\ tracked' \subseteq Keys
        /\ op[o].at \in Layers
    BY <1>1, CallFacts DEF OpRecords
  <1>3. CASE above = {}
    <2> DEFINE r == [op[o] EXCEPT !.pc = "done"]
    <2>1. op' = [op EXCEPT ![o] = r] /\ UNCHANGED chainVars
      BY <1>3 DEF Backfill, StackInv, TypeOK, OpRecords
    <2>2. /\ r \in OpRecords /\ r.pc = "done" /\ r.open = op[o].open /\ r.call = op[o].call
          /\ r.active = op[o].active /\ r.targets = op[o].targets /\ r.fence = op[o].fence
          /\ r.rejected = op[o].rejected /\ r.gaveUp = op[o].gaveUp
          /\ r.readFence = op[o].readFence /\ r.keys = op[o].keys
      BY <1>2 DEF OpRecords, Pcs
    <2> HIDE DEF r
    <2>3. PcMatches(r, phase[o]) /\ HasSent(r, phase[o]) /\ op[o].open = {}
      BY <1>1, <2>2, CallFacts DEF PcMatches, HasSent
    <2>4. Local(o, r)
      BY <1>1, <1>2, <2>1, <2>2, <2>3, CallFacts DEF Local, StackInv, WritesOneKey
    <2> QED BY <2>4
  <1>4. CASE above # {}
    <2> DEFINE r == [op[o] EXCEPT !.pc = "writing", !.fence = op[o].readFence,
                                  !.targets = above \cap Usable, !.cleans = above]
    <2>1. op' = [op EXCEPT ![o] = r] /\ Admit(o, op[o].keys)
      BY <1>4 DEF Backfill
    <2>2. /\ r \in OpRecords /\ r.pc = "writing" /\ r.open = op[o].open /\ r.call = op[o].call
          /\ r.targets = above \cap Usable /\ r.cleans = above /\ r.fence = op[o].readFence
          /\ r.rejected = op[o].rejected /\ r.gaveUp = op[o].gaveUp
          /\ r.readFence = op[o].readFence /\ r.val = op[o].val /\ r.keys = op[o].keys
          /\ r.active = op[o].active
      BY <1>2 DEF OpRecords, Pcs
    <2> HIDE DEF r
    <2>3. op[o].open = {} /\ op[o].call \in {"get", "fetch"} /\ \A j, k \in op[o].keys : j = k
      BY <1>1, CallFacts DEF PcMatches, StackInv, WritesOneKey
    <2>4. \A l \in above : l < NumLayers
      BY <1>2, LayersAssumption DEF Layers
    <2>6. above \cap Usable \subseteq above
      OBVIOUS
    <2> HIDE DEF above
    <2>7. r.targets \ failed \subseteq r.cleans /\ \A l \in r.targets \cup r.cleans : l < NumLayers
      BY <2>2, <2>4, <2>6
    <2>8. \A k \in Keys : NotAhead(r.fence[k], k) /\ NotAhead(r.readFence[k], k)
      BY <2>2, CallFacts
    <2>5. Joins(o, op[o].keys, r)
      BY <1>1, <1>2, <2>1, <2>2, <2>3, <2>7, <2>8 DEF Joins
    <2> QED BY <1>2, <2>5
  <1> QED BY <1>3, <1>4

\* get only captures fences.
LEMMA GetIsLocal ==
    ASSUME StackInv, NEW o \in Ops, NEW k \in Keys, NEW call, StartGet(o, k, call)
    PROVE  \E r : Local(o, r)
  <1> DEFINE r == [op[o] EXCEPT !.call = call, !.pc = "reading", !.keys = {k},
                                !.fence = FencesOn({k}), !.readFence = FencesOn({k})]
  <1>1. /\ op[o].pc = "idle" /\ op' = [op EXCEPT ![o] = r] /\ call \in {"get", "fetch"}
        /\ UNCHANGED <<epochs, chainVars, pend, store, tracked, degraded, failed, barrier>>
    BY DEF StartGet
  <1>2. /\ r \in OpRecords /\ r.call = call /\ r.pc = "reading" /\ r.fence = FencesOn({k})
        /\ r.readFence = FencesOn({k}) /\ r.keys = {k} /\ r.open = op[o].open /\ r.active = op[o].active
        /\ r.targets = op[o].targets /\ r.rejected = op[o].rejected /\ r.gaveUp = op[o].gaveUp
    <2>1. op[o] \in OpRecords /\ {k} \subseteq Keys /\ FencesOn({k}) \in [Keys -> Fences]
      BY CallFacts, FencesOnType
    <2> QED BY <1>1, <2>1 DEF OpRecords, Pcs
  <1> HIDE DEF r
  <1>3. /\ op[o].open = {} /\ tracked \subseteq Keys /\ degraded \subseteq failed
        /\ failed \subseteq Layers /\ phase[o] = "idle"
    BY <1>1, CallFacts DEF PcMatches
  <1>4. \A j \in Keys : NotAhead(r.fence[j], j) /\ NotAhead(r.readFence[j], j)
    BY <1>2, FencesOnType
  <1>5. PcMatches(r, phase[o]) /\ \A c \in pend : c.by # o
    BY <1>1, <1>2, <1>3, CallFacts DEF PcMatches, HasSent
  <1> QED BY <1>1, <1>2, <1>3, <1>4, <1>5 DEF Local

\* A step that leaves alone what the call knows of its write.
LEMMA LocalFrom ==
    ASSUME StackInv, NEW o \in Ops, NEW r \in OpRecords, op' = [op EXCEPT ![o] = r],
           UNCHANGED <<epochs, chainVars, pend, store, barrier>>,
           tracked' \subseteq Keys,
           failed \subseteq failed', failed' \subseteq Layers, degraded' \subseteq failed',
           r.call = op[o].call, r.keys = op[o].keys, r.fence = op[o].fence,
           r.active = op[o].active, r.open = op[o].open, r.targets = op[o].targets,
           r.rejected = op[o].rejected, r.gaveUp = op[o].gaveUp,
           \A k \in Keys : NotAhead(r.readFence[k], k),
           op[o].pc = "writing" => op[o].open = {},
           PcMatches(r, phase[o]),
           \/ r.pc \in {"settling", "indexing", "erasing", "done"}
           \/ /\ op[o].pc \in {"reading", "missed"}
              /\ r.pc \in {"reading", "hit", "missed", "fetching"}
    PROVE  Local(o, r)
  <1>1. op[o].open = {} /\ \A k \in Keys : NotAhead(r.fence[k], k)
    BY CallFacts
  <1>2. \A c \in pend : c.by = o => HasSent(r, phase[o])
    BY CallFacts DEF HasSent
  <1>3. r.call \in {"get", "fetch"} => \A j, k \in r.keys : j = k
    BY DEF StackInv, WritesOneKey
  <1> QED BY <1>1, <1>2, <1>3 DEF Local

\* Steps after a write, and of invalidations: only the call's place changes.
LEMMA EndingsAreLocal ==
    ASSUME StackInv, NEW o \in Ops,
           \/ Cleaned(o) \/ BatchDone(o) \/ FetchedNothing(o) \/ Cleared(o)
           \/ \E k \in Keys : Index(o, k) \/ Unindex(o, k)
    PROVE  \E r : Local(o, r)
  <1>1. PICK pc, todo :
          /\ op' = [op EXCEPT ![o] = [op[o] EXCEPT !.pc = pc, !.todo = todo]]
          /\ \/ op[o].pc = "cleaning" /\ pc = "settling" /\ todo = op[o].todo
             \/ /\ op[o].pc = "writing" /\ phase[o] = "running" /\ op[o].open = {}
                /\ pc = "settling" /\ todo \in {{}, keysOf[o]} /\ op[o].call = "mset"
             \/ op[o].pc = "fetching" /\ pc = "done" /\ todo = op[o].todo
             \/ op[o].pc = "erasing" /\ pc \in {"erasing", "done"} /\ todo \subseteq op[o].todo
             \/ op[o].pc = "indexing" /\ pc \in {"indexing", "done"} /\ todo \subseteq op[o].todo
          /\ UNCHANGED <<epochs, chainVars, pend, store, degraded, failed, barrier>>
          /\ tracked' \subseteq Keys
    <2>0. op[o] \in OpRecords /\ tracked \subseteq Keys
      BY CallFacts
    <2>1. CASE Cleaned(o) \/ FetchedNothing(o) \/ Cleared(o)
      <3> DEFINE pc == IF op[o].pc = "cleaning" THEN "settling" ELSE "done"
      <3>1. op' = [op EXCEPT ![o] = [op[o] EXCEPT !.pc = pc]]
        BY <2>1 DEF Cleaned, FetchedNothing, Cleared
      <3>2. [op[o] EXCEPT !.pc = pc] = [op[o] EXCEPT !.pc = pc, !.todo = op[o].todo]
        BY <2>0 DEF OpRecords
      <3> QED BY <2>0, <2>1, <3>1, <3>2 DEF Cleaned, FetchedNothing, Cleared
    <2>2. CASE BatchDone(o)
      BY <2>0, <2>2 DEF BatchDone
    <2>3. ASSUME NEW k \in Keys, Index(o, k) \/ Unindex(o, k)
          PROVE  \E todo \in SUBSET op[o].todo, pc \in {op[o].pc, "done"} :
                   op' = [op EXCEPT ![o] = [op[o] EXCEPT !.todo = todo, !.pc = pc]]
      <3> DEFINE t == op[o].todo \ {k}
                 p == IF op[o].todo = {k} THEN "done" ELSE op[o].pc
      <3>1. op' = [op EXCEPT ![o] = [op[o] EXCEPT !.todo = t, !.pc = p]]
        BY <2>3 DEF Index, Unindex
      <3>2. t \in SUBSET op[o].todo /\ p \in {op[o].pc, "done"}
        OBVIOUS
      <3> HIDE DEF t, p
      <3> QED BY <3>1, <3>2
    <2>4. ASSUME NEW todo, NEW pc
          PROVE  [op[o] EXCEPT !.todo = todo, !.pc = pc] = [op[o] EXCEPT !.pc = pc, !.todo = todo]
      BY <2>0 DEF OpRecords
    <2>5. CASE \E k \in Keys : Index(o, k) \/ Unindex(o, k)
      <3>1. PICK k \in Keys : Index(o, k) \/ Unindex(o, k)
        BY <2>5
      <3>2. PICK todo \in SUBSET op[o].todo, pc \in {op[o].pc, "done"} :
              op' = [op EXCEPT ![o] = [op[o] EXCEPT !.todo = todo, !.pc = pc]]
        BY <2>3, <3>1
      <3>3. op' = [op EXCEPT ![o] = [op[o] EXCEPT !.pc = pc, !.todo = todo]]
        BY <2>4, <3>2
      <3>4. /\ op[o].pc \in {"indexing", "erasing"} /\ tracked' \subseteq Keys
            /\ UNCHANGED <<epochs, chainVars, pend, store, degraded, failed, barrier>>
        BY <2>0, <3>1 DEF Index, Unindex
      <3> QED BY <3>2, <3>3, <3>4
    <2> QED BY <2>1, <2>2, <2>5
  <1> DEFINE r == [op[o] EXCEPT !.pc = pc, !.todo = todo]
  <1>2. /\ r \in OpRecords /\ r.pc = pc /\ r.keys = op[o].keys /\ r.call = op[o].call /\ r.fence = op[o].fence
        /\ r.readFence = op[o].readFence /\ r.open = op[o].open /\ r.active = op[o].active
        /\ r.targets = op[o].targets /\ r.rejected = op[o].rejected /\ r.gaveUp = op[o].gaveUp
    <2>1. op[o] \in OpRecords /\ keysOf[o] \subseteq Keys
      BY CallFacts
    <2>2. pc \in Pcs /\ todo \subseteq Keys
      BY <1>1, <2>1 DEF OpRecords, Pcs
    <2> QED BY <2>1, <2>2 DEF OpRecords
  <1>3. op' = [op EXCEPT ![o] = r]
    BY <1>1
  <1> HIDE DEF r
  <1>4. PcMatches(r, phase[o])
    BY <1>1, <1>2, CallFacts DEF PcMatches
  <1>5. Local(o, r)
    <2>1. /\ degraded \subseteq failed /\ failed \subseteq Layers
          /\ \A k \in Keys : NotAhead(r.readFence[k], k)
      BY <1>2, CallFacts
    <2> QED BY <1>1, <1>2, <1>3, <1>4, <2>1, LocalFrom
  <1> QED BY <1>5

\* The steps of a read.
LEMMA ReadsAreLocal ==
    ASSUME StackInv, NEW o \in Ops, (\E k \in Keys : ReadLayer(o, k)) \/ ReadFails(o) \/ Miss(o)
    PROVE  \E r : Local(o, r)
  <1>0. op[o] \in OpRecords /\ tracked \subseteq Keys /\ degraded \subseteq failed /\ failed \subseteq Layers
    BY CallFacts
  <1>1. PICK r \in OpRecords :
          /\ op' = [op EXCEPT ![o] = r]
          /\ r.call = op[o].call /\ r.fence = op[o].fence /\ r.open = op[o].open
          /\ r.active = op[o].active /\ r.targets = op[o].targets
          /\ r.rejected = op[o].rejected /\ r.gaveUp = op[o].gaveUp /\ r.keys = op[o].keys
          /\ r.readFence \in {op[o].readFence, FencesOn(op[o].keys)}
          /\ r.pc \in {"reading", "hit", "missed", "fetching", "done"}
    <2>1. ASSUME NEW k \in Keys, ReadLayer(o, k)
          PROVE  \E pc \in {"reading", "hit", "missed"}, at \in Layers, val \in Ops \cup {None} :
                    op' = [op EXCEPT ![o] = [op[o] EXCEPT !.pc = pc, !.at = at, !.val = val]]
      <3> DEFINE l == op[o].at
                 e == IF l \in degraded THEN None ELSE store[l][k]
      <3>0. /\ l \in Layers /\ (e # None => e \in Ops /\ op[e].val \in Ops \cup {None})
            /\ op[o].val \in Ops \cup {None} /\ op[o].pc = "reading"
            /\ (l < NumLayers => l + 1 \in Layers)
        <4>1. l \in Layers /\ op[o].val \in Ops \cup {None} /\ op[o].pc = "reading"
          BY <1>0, <2>1 DEF OpRecords, ReadLayer
        <4>2. l < NumLayers => l + 1 \in Layers
          BY <4>1, LayersAssumption DEF Layers
        <4>3. e # None => e \in Ops
          BY <4>1 DEF StackInv, TypeOK
        <4>4. \A q \in Ops : op[q].val \in Ops \cup {None}
          BY DEF StackInv, TypeOK, OpRecords
        <4> HIDE DEF e
        <4> QED BY <4>1, <4>2, <4>3, <4>4
      <3>e. /\ op' = [op EXCEPT ![o] =
                       IF e # None    THEN [op[o] EXCEPT !.pc = "hit", !.val = op[e].val]
                       ELSE IF l < NumLayers THEN [op[o] EXCEPT !.at = l + 1]
                       ELSE [op[o] EXCEPT !.pc = "missed"]]
        BY <2>1 DEF ReadLayer
      <3> HIDE DEF e
      <3>1. CASE e # None
        <4>1. [op[o] EXCEPT !.pc = "hit", !.val = op[e].val] =
              [op[o] EXCEPT !.pc = "hit", !.at = l, !.val = op[e].val]
          BY <1>0 DEF OpRecords
        <4> QED BY <3>0, <3>e, <3>1, <4>1
      <3>2. CASE e = None /\ l < NumLayers
        <4>1. [op[o] EXCEPT !.at = l + 1] =
              [op[o] EXCEPT !.pc = "reading", !.at = l + 1, !.val = op[o].val]
          BY <1>0, <3>0 DEF OpRecords
        <4> QED BY <3>0, <3>e, <3>2, <4>1
      <3>3. CASE e = None /\ ~(l < NumLayers)
        <4>1. [op[o] EXCEPT !.pc = "missed"] =
              [op[o] EXCEPT !.pc = "missed", !.at = l, !.val = op[o].val]
          BY <1>0 DEF OpRecords
        <4> QED BY <3>0, <3>e, <3>3, <4>1
      <3> QED BY <3>1, <3>2, <3>3
    <2>2. CASE \E k \in Keys : ReadLayer(o, k)
      <3>1. PICK pc \in {"reading", "hit", "missed"}, at \in Layers, val \in Ops \cup {None} :
              op' = [op EXCEPT ![o] = [op[o] EXCEPT !.pc = pc, !.at = at, !.val = val]]
        BY <2>1, <2>2
      <3> DEFINE r == [op[o] EXCEPT !.pc = pc, !.at = at, !.val = val]
      <3>2. /\ r \in OpRecords /\ r.pc = pc /\ r.call = op[o].call /\ r.fence = op[o].fence
            /\ r.readFence = op[o].readFence /\ r.open = op[o].open /\ r.active = op[o].active
            /\ r.targets = op[o].targets /\ r.rejected = op[o].rejected /\ r.gaveUp = op[o].gaveUp /\ r.keys = op[o].keys
        BY <1>0 DEF OpRecords, Pcs
      <3>3. op' = [op EXCEPT ![o] = r]
        BY <3>1
      <3> HIDE DEF r
      <3> QED BY <3>2, <3>3
    <2>3. CASE ReadFails(o)
      <3>1. PICK pc \in {"reading", "done"} : op' = [op EXCEPT ![o] = [op[o] EXCEPT !.pc = pc]]
        BY <2>3 DEF ReadFails
      <3> DEFINE r == [op[o] EXCEPT !.pc = pc]
      <3>2. /\ r \in OpRecords /\ r.pc = pc /\ r.call = op[o].call /\ r.fence = op[o].fence
            /\ r.readFence = op[o].readFence /\ r.open = op[o].open /\ r.active = op[o].active
            /\ r.targets = op[o].targets /\ r.rejected = op[o].rejected /\ r.gaveUp = op[o].gaveUp /\ r.keys = op[o].keys
        BY <1>0 DEF OpRecords, Pcs
      <3>3. op' = [op EXCEPT ![o] = r]
        BY <3>1
      <3> HIDE DEF r
      <3> QED BY <3>2, <3>3
    <2>4. CASE Miss(o)
      <3>1. CASE op[o].call = "get" \/ op[o].again
        <4>1. PICK pc \in {"done", "fetching"} : op' = [op EXCEPT ![o] = [op[o] EXCEPT !.pc = pc]]
          BY <2>4, <3>1 DEF Miss
        <4> DEFINE r == [op[o] EXCEPT !.pc = pc]
        <4>2. /\ r \in OpRecords /\ r.pc = pc /\ r.call = op[o].call /\ r.fence = op[o].fence
              /\ r.readFence = op[o].readFence /\ r.open = op[o].open /\ r.active = op[o].active
              /\ r.targets = op[o].targets /\ r.rejected = op[o].rejected /\ r.gaveUp = op[o].gaveUp /\ r.keys = op[o].keys
          BY <1>0 DEF OpRecords, Pcs
        <4>3. op' = [op EXCEPT ![o] = r]
          BY <4>1
        <4> HIDE DEF r
        <4> QED BY <4>2, <4>3
      <3>2. CASE ~(op[o].call = "get" \/ op[o].again)
        <4> DEFINE r == [op[o] EXCEPT !.pc = "reading", !.again = TRUE, !.at = 1,
                                      !.readFence = FencesOn(op[o].keys)]
        <4>1. op' = [op EXCEPT ![o] = r]
          BY <2>4, <3>2 DEF Miss
        <4>2. FencesOn(op[o].keys) \in [Keys -> Fences] /\ 1 \in Layers
          BY <1>0, FencesOnType, LayersAssumption DEF OpRecords, Layers
        <4>3. /\ r \in OpRecords /\ r.pc = "reading" /\ r.call = op[o].call /\ r.fence = op[o].fence
              /\ r.readFence = FencesOn(op[o].keys) /\ r.open = op[o].open /\ r.active = op[o].active
              /\ r.targets = op[o].targets /\ r.rejected = op[o].rejected /\ r.gaveUp = op[o].gaveUp /\ r.keys = op[o].keys
          BY <1>0, <4>2 DEF OpRecords, Pcs
        <4> HIDE DEF r
        <4> QED BY <4>1, <4>3
      <3> QED BY <3>1, <3>2
    <2> QED BY <2>2, <2>3, <2>4
  <1>2. /\ op[o].pc \in {"reading", "missed"} /\ tracked' \subseteq Keys
        /\ UNCHANGED <<epochs, chainVars, pend, store, barrier>>
        /\ failed \subseteq failed' /\ failed' \subseteq Layers /\ degraded' \subseteq failed'
    BY <1>0, LayersAssumption DEF ReadLayer, ReadFails, Miss
  <1>3. PcMatches(r, phase[o])
    BY <1>1, <1>2, CallFacts DEF PcMatches
  <1>4. \A k \in Keys : NotAhead(r.readFence[k], k)
    BY <1>0, <1>1, CallFacts, FencesOnType DEF OpRecords
  <1>5. Local(o, r)
    BY <1>1, <1>2, <1>3, <1>4, LocalFrom
  <1> QED BY <1>5

\* What was fetched joins the chain, or is dropped when it is outdated.
LEMMA FetchedKinds ==
    ASSUME StackInv, NEW o \in Ops, Fetched(o)
    PROVE  (\E r : Local(o, r)) \/ \E K \in SUBSET Keys : \E r : Joins(o, K, r)
  <1>0. /\ op[o] \in OpRecords /\ tracked \subseteq Keys /\ degraded \subseteq failed
        /\ failed \subseteq Layers /\ op[o].keys \subseteq Keys
        /\ op[o].pc = "fetching" /\ op[o].call \in {"get", "fetch"} /\ op[o].open = {}
        /\ \A j, k \in op[o].keys : j = k
    BY CallFacts DEF Fetched, OpRecords, PcMatches, StackInv, WritesOneKey
  <1>1. CASE \E k \in op[o].keys : Outdated(o, k)
    <2> DEFINE r == [op[o] EXCEPT !.pc = "done"]
    <2>1. op' = [op EXCEPT ![o] = r] /\ UNCHANGED chainVars
      BY <1>1 DEF Fetched
    <2>2. /\ r \in OpRecords /\ r.pc = "done" /\ r.open = op[o].open /\ r.call = op[o].call
          /\ r.active = op[o].active /\ r.targets = op[o].targets /\ r.fence = op[o].fence
          /\ r.rejected = op[o].rejected /\ r.gaveUp = op[o].gaveUp /\ r.keys = op[o].keys
          /\ r.active = op[o].active
          /\ r.readFence = op[o].readFence
      BY <1>0 DEF OpRecords, Pcs
    <2> HIDE DEF r
    <2>3. PcMatches(r, phase[o]) /\ \A k \in Keys : NotAhead(r.readFence[k], k)
      BY <1>0, <2>2, CallFacts DEF PcMatches
    <2>4. UNCHANGED <<epochs, pend, store, tracked, degraded, failed, barrier>>
      BY DEF Fetched
    <2>5. Local(o, r)
      BY <1>0, <2>1, <2>2, <2>3, <2>4, LocalFrom
    <2> QED BY <2>5
  <1>2. CASE ~\E k \in op[o].keys : Outdated(o, k)
    <2> DEFINE r == [op[o] EXCEPT !.pc = "writing", !.val = o,
                                  !.targets = Layers, !.cleans = Usable]
    <2>1. op' = [op EXCEPT ![o] = r] /\ Admit(o, op[o].keys)
      BY <1>2 DEF Fetched
    <2>2. /\ r \in OpRecords /\ r.pc = "writing" /\ r.open = op[o].open /\ r.call = op[o].call
          /\ r.targets = Layers /\ r.cleans = Usable /\ r.fence = op[o].fence
          /\ r.rejected = op[o].rejected /\ r.gaveUp = op[o].gaveUp /\ r.keys = op[o].keys
          /\ r.active = op[o].active
          /\ r.readFence = op[o].readFence /\ r.val = o
      BY <1>0 DEF OpRecords, Pcs, Usable
    <2> HIDE DEF r
    <2>3. Layers \ failed \subseteq Usable
      BY <1>0 DEF Usable
    <2>4. \A k \in Keys : NotAhead(r.fence[k], k) /\ NotAhead(r.readFence[k], k)
      BY <2>2, CallFacts
    <2>5. UNCHANGED <<epochs, pend, store, tracked, degraded, failed, barrier>>
      BY DEF Fetched
    <2>6. Joins(o, op[o].keys, r)
      BY <1>0, <2>1, <2>2, <2>3, <2>4, <2>5 DEF Joins
    <2> QED BY <1>0, <2>6
  <1> QED BY <1>1, <1>2

\* delete invalidates its keys in the layers that are not degraded.
LEMMA DeleteInvalidates ==
    ASSUME StackInv, NEW o \in Ops, NEW ks \in KeyLists(MaxList), StartDelete(o, ks)
    PROVE  \E r : /\ Invalidates(o, {ks[i] : i \in DOMAIN ks}, Usable, r)
                 /\ r.call = "delete" /\ r.active = op[o].active
  <1> DEFINE K == {ks[i] : i \in DOMAIN ks}
             r == [op[o] EXCEPT !.call = "delete", !.pc = "erasing", !.keys = K, !.todo = K]
  <1>1. /\ op[o].pc = "idle" /\ BumpKeyEpochs(ks) /\ op' = [op EXCEPT ![o] = r]
        /\ pend' = pend \cup DeleteCommands(o, Usable, K)
        /\ barrier' = [k \in Keys |-> IF k \in K THEN CurrentFence(k)' ELSE barrier[k]]
        /\ UNCHANGED <<chainVars, store, tracked, degraded, failed>>
    BY DEF StartDelete
  <1>2. GoodTable(epochs') /\ \A k \in Keys : LaterFor(k, epochs, epochs')
    BY <1>1, BumpStep, MaxListAssumption DEF StackInv
  <1>3. K \subseteq Keys
    BY DEF KeyLists
  <1> HIDE DEF K
  <1>4. /\ r \in OpRecords /\ r.pc = "erasing" /\ r.open = op[o].open /\ r.call = "delete"
        /\ r.active = op[o].active /\ r.fence = op[o].fence /\ r.readFence = op[o].readFence
        /\ r.rejected = op[o].rejected /\ r.gaveUp = op[o].gaveUp
    <2>1. op[o] \in OpRecords
      BY CallFacts
    <2> QED BY <1>3, <2>1 DEF OpRecords, Pcs
  <1> HIDE DEF r
  <1>5. Layers \ failed \subseteq Usable /\ Usable \subseteq Layers
    BY CallFacts DEF Usable
  <1>6. Invalidates(o, K, Usable, r)
    BY <1>1, <1>2, <1>3, <1>4, <1>5 DEF Invalidates
  <1> QED BY <1>4, <1>6 DEF K

\* clear invalidates every key in every layer.
LEMMA ClearInvalidates ==
    ASSUME StackInv, NEW o \in Ops, StartClear(o)
    PROVE  \E r : /\ Invalidates(o, Keys, Layers, r)
                 /\ r.call = "clear" /\ r.active = op[o].active
  <1> DEFINE r == [op[o] EXCEPT !.call = "clear", !.pc = "erasing"]
  <1>1. /\ op[o].pc = "idle" /\ BeginClearEpoch /\ op' = [op EXCEPT ![o] = r]
        /\ pend' = pend \cup DeleteCommands(o, Layers, Keys)
        /\ barrier' = [k \in Keys |-> CurrentFence(k)']
        /\ UNCHANGED <<chainVars, store, tracked, degraded, failed>>
    BY DEF StartClear
  <1>2. GoodTable(epochs') /\ \A k \in Keys : LaterFor(k, epochs, epochs')
    <2>1. GoodTable(epochs) /\ GoodTable(epochs') /\ \A k \in Keys : PastFor(k, epochs, epochs')
      BY <1>1, ClearStep DEF StackInv
    <2>2. \A k \in Keys : KeyEpochIn(epochs, k) \in Nat /\ KeyEpochIn(epochs', k) \in Nat
      BY <2>1, KeyEpochType
    <2> QED BY <2>1, <2>2 DEF PastFor, LaterFor
  <1>4. /\ r \in OpRecords /\ r.pc = "erasing" /\ r.open = op[o].open /\ r.call = "clear"
        /\ r.active = op[o].active /\ r.fence = op[o].fence /\ r.readFence = op[o].readFence
        /\ r.rejected = op[o].rejected /\ r.gaveUp = op[o].gaveUp
    <2>1. op[o] \in OpRecords
      BY CallFacts
    <2> QED BY <2>1 DEF OpRecords, Pcs
  <1> HIDE DEF r
  <1>5. Invalidates(o, Keys, Layers, r)
    BY <1>1, <1>2, <1>4 DEF Invalidates
  <1> QED BY <1>4, <1>5

\* runFencedWrite's check after its operation.
LEMMA SingleChecks ==
    ASSUME StackInv, NEW o \in Ops, CheckSingle(o)
    PROVE  \E K, r : Checks(o, Layers, K, r)
  <1>1. /\ op[o].call # "mset" /\ op[o].pc = "writing" /\ phase[o] = "running" /\ Awaited(o) = {}
        /\ UNCHANGED <<epochs, chainVars, store, tracked, degraded, failed, barrier>>
    BY DEF CheckSingle
  <1>2. /\ op[o] \in OpRecords /\ op[o].open \subseteq op[o].targets /\ op[o].open \subseteq Layers
        /\ op[o].active \subseteq Keys /\ op[o].cleans \subseteq Layers
        /\ op[o].targets \ failed \subseteq op[o].cleans /\ op[o].rejected \subseteq failed
    BY <1>1 DEF StackInv, TypeOK, OpRecords, CleanupReaches, OnlyFailedSkipped
  <1>3. op[o].open \ Layers = {}
    BY <1>2
  <1>4. ASSUME NEW pc \in {"cleaning", "settling"}, NEW todo \in SUBSET Keys,
               NEW K \in SUBSET op[o].active, NEW D \in SUBSET Layers,
               op' = [op EXCEPT ![o] = [op[o] EXCEPT !.pc = pc, !.open = {}, !.todo = todo]],
               pend' = pend \cup DeleteCommands(o, D, K),
               op[o].open \ failed \subseteq D,
               \A l \in Layers \ failed : \A k \in op[o].active : Outdated(o, k) => k \in K
        PROVE  \E r : Checks(o, Layers, K, r)
    <2> DEFINE r == [op[o] EXCEPT !.pc = pc, !.open = op[o].open \ Layers, !.todo = todo]
    <2>1. r \in OpRecords /\ r.pc = pc /\ r.todo = todo
      BY <1>2 DEF OpRecords, Pcs
    <2>2. r = [op[o] EXCEPT !.pc = r.pc, !.open = op[o].open \ Layers, !.todo = r.todo]
      BY <2>1
    <2>3. op' = [op EXCEPT ![o] = r]
      BY <1>3, <1>4
    <2> HIDE DEF r
    <2> QED BY <1>1, <1>2, <1>4, <2>1, <2>2, <2>3 DEF Checks
  <1>5. CASE op[o].rejected # Layers /\ \E k \in op[o].active : Outdated(o, k)
    <2>1. op' = [op EXCEPT ![o] = [op[o] EXCEPT !.pc = "cleaning", !.open = {}]]
      BY <1>5 DEF CheckSingle
    <2>2. pend' = pend \cup DeleteCommands(o, op[o].cleans, op[o].active)
      BY <1>5 DEF CheckSingle
    <2>3. [op[o] EXCEPT !.pc = "cleaning", !.open = {}] =
          [op[o] EXCEPT !.pc = "cleaning", !.open = {}, !.todo = op[o].todo]
      BY <1>2 DEF OpRecords
    <2>4. op' = [op EXCEPT ![o] = [op[o] EXCEPT !.pc = "cleaning", !.open = {}, !.todo = op[o].todo]]
      BY <2>1, <2>3
    <2>5. op[o].todo \in SUBSET Keys /\ op[o].open \ failed \subseteq op[o].cleans
      BY <1>2 DEF OpRecords
    <2> QED BY <1>2, <1>4, <2>2, <2>4, <2>5
  <1>6. CASE ~(op[o].rejected # Layers /\ \E k \in op[o].active : Outdated(o, k))
    <2> DEFINE todo == IF IsBackfill(o) \/ op[o].rejected = Layers THEN {} ELSE op[o].active
    <2>1. op' = [op EXCEPT ![o] = [op[o] EXCEPT !.pc = "settling", !.open = {}, !.todo = todo]]
      BY <1>6 DEF CheckSingle
    <2>2. pend' = pend \cup DeleteCommands(o, Layers, {})
      BY <1>6 DEF CheckSingle, DeleteCommands
    <2>3. todo \in SUBSET Keys
      BY <1>2
    <2>4. \A l \in Layers \ failed : \A k \in op[o].active : Outdated(o, k) => k \in {}
      BY <1>2, <1>6
    <2> HIDE DEF todo
    <2> QED BY <1>2, <1>4, <2>1, <2>2, <2>3, <2>4
  <1> QED BY <1>5, <1>6

\* writeBatch's check of one layer.
LEMMA LayerChecks ==
    ASSUME StackInv, NEW o \in Ops, NEW l \in Layers, CheckLayer(o, l)
    PROVE  \E r : Checks(o, {l}, {k \in op[o].active : Outdated(o, k)}, r)
  <1> DEFINE K == {k \in op[o].active : Outdated(o, k)}
             r == [op[o] EXCEPT !.pc = "writing", !.open = op[o].open \ {l}, !.todo = op[o].todo]
  <1>1. /\ op[o].call = "mset" /\ op[o].pc = "writing" /\ phase[o] = "running"
        /\ \A c \in Awaited(o) : c.layer # l
        /\ op' = [op EXCEPT ![o].open = op[o].open \ {l}]
        /\ pend' = pend \cup DeleteCommands(o, {l}, K)
        /\ UNCHANGED <<epochs, chainVars, store, tracked, degraded, failed, barrier>>
    BY DEF CheckLayer, CheckLayerOf
  <1>2. op[o] \in OpRecords /\ op[o].active \subseteq Keys
    BY CallFacts DEF OpRecords
  <1>3. [op[o] EXCEPT !.open = op[o].open \ {l}] = r
    BY <1>1, <1>2 DEF OpRecords
  <1>4. op' = [op EXCEPT ![o] = r]
    BY <1>1, <1>3
  <1>5. r \in OpRecords /\ r.pc = "writing" /\ r.todo = op[o].todo
    BY <1>2 DEF OpRecords, Pcs
  <1>6. r = [op[o] EXCEPT !.pc = r.pc, !.open = op[o].open \ {l}, !.todo = r.todo]
    BY <1>5
  <1> HIDE DEF r
  <1>7. \E D \in SUBSET Layers : /\ pend' = pend \cup DeleteCommands(o, D, K)
                                 /\ ({l} \cap op[o].open) \ failed \subseteq D
    <2>1. {l} \in SUBSET Layers /\ ({l} \cap op[o].open) \ failed \subseteq {l}
      OBVIOUS
    <2> QED BY <1>1, <2>1
  <1>8. K \subseteq op[o].active /\ \A k \in op[o].active : Outdated(o, k) => k \in K
    OBVIOUS
  <1> HIDE DEF K
  <1>9. Checks(o, {l}, K, r)
    BY <1>1, <1>4, <1>5, <1>6, <1>7, <1>8 DEF Checks
  <1> QED BY <1>9 DEF K

\* A layer that is no longer degraded is merely asked again.
LEMMA RecoverKeeps ==
    ASSUME StackInv, NEW l \in Layers, Recover(l)
    PROVE  StackInv'
  <1>1. /\ degraded' = degraded \ {l}
        /\ UNCHANGED <<epochs, phase, keysOf, before, op, pend, store, tracked, failed, barrier>>
    BY DEF Recover, chainVars
  <1>2. TypeOK' /\ GoodTable(epochs') /\ OrderInv' /\ PcMatchesPhase' /\ CommandsHaveSenders'
    BY <1>1 DEF StackInv, TypeOK, OrderTypeOK, OrderInv, Share, PcMatchesPhase, CommandsHaveSenders
  <1>3. CleanupReaches' /\ OnlyFailedSkipped' /\ BackfillsGoUp' /\ EntriesFromRuns'
    BY <1>1 DEF StackInv, CleanupReaches, OnlyFailedSkipped, BackfillsGoUp, IsBackfill, EntriesFromRuns
  <1>4. FencesBehind' /\ NoOvertakenEntryAtRest'
    BY <1>1 DEF StackInv, FencesBehind, NotAhead, CurrentFence, CurrentKeyEpoch,
                NoOvertakenEntryAtRest, Overtaken, CheckPending, DeletePending
  <1>5. RunningIsNewest' /\ WritesOneKey'
    BY <1>1 DEF StackInv, RunningIsNewest, WritesOneKey
  <1> QED BY <1>2, <1>3, <1>4, <1>5 DEF StackInv

\* Nothing happens.
LEMMA StutterKeeps == ASSUME StackInv, UNCHANGED vars PROVE StackInv'
  <1>1. UNCHANGED <<epochs, phase, keysOf, before, op, pend, store, tracked, degraded, failed, barrier>>
    BY DEF vars
  <1>2. TypeOK' /\ GoodTable(epochs') /\ OrderInv' /\ PcMatchesPhase' /\ CommandsHaveSenders'
    BY <1>1 DEF StackInv, TypeOK, OrderTypeOK, OrderInv, Share, PcMatchesPhase, CommandsHaveSenders
  <1>3. CleanupReaches' /\ OnlyFailedSkipped' /\ BackfillsGoUp' /\ EntriesFromRuns'
    BY <1>1 DEF StackInv, CleanupReaches, OnlyFailedSkipped, BackfillsGoUp, IsBackfill, EntriesFromRuns
  <1>4. FencesBehind' /\ NoOvertakenEntryAtRest'
    BY <1>1 DEF StackInv, FencesBehind, NotAhead, CurrentFence, CurrentKeyEpoch,
                NoOvertakenEntryAtRest, Overtaken, CheckPending, DeletePending
  <1>5. RunningIsNewest' /\ WritesOneKey'
    BY <1>1 DEF StackInv, RunningIsNewest, WritesOneKey
  <1> QED BY <1>2, <1>3, <1>4, <1>5 DEF StackInv

-----------------------------------------------------------------------------
(* The invariant of every reachable state.                                 *)

\* The empty stack satisfies the invariant.
LEMMA InitStackInv == Init => StackInv
  <1> SUFFICES ASSUME Init PROVE StackInv
    OBVIOUS
  <1>1. GoodTable(epochs) /\ IsEpochTable(epochs)
    <2> DEFINE e == << >>
    <2>1. DOMAIN e = {} /\ e \in [DOMAIN e -> Nat]
      OBVIOUS
    <2>2. epochs = [clear |-> 0, keys |-> e, next |-> 0, absent |-> 0]
      BY DEF Init, InitEpochs, InitialEpochs
    <2> HIDE DEF e
    <2> QED BY <2>1, <2>2, MaxSafeIntegerAssumption DEF GoodTable, IsEpochTable
  <1>2. /\ phase = [o \in Ops |-> "idle"] /\ keysOf = [o \in Ops |-> {}]
        /\ before = [o \in Ops |-> {}]
        /\ op = [o \in Ops |-> NewOp] /\ pend = {} /\ tracked = {} /\ degraded = {} /\ failed = {}
        /\ store = [l \in Layers |-> [k \in Keys |-> None]]
        /\ barrier = [k \in Keys |-> NoFence]
    BY DEF Init, InitOrder
  <1>3. NoFence \in Fences /\ NewOp \in OpRecords
    <2>1. NoFence \in Fences /\ 1 \in Layers
      BY LayersAssumption DEF NoFence, Fences, Layers
    <2> QED BY <2>1 DEF NewOp, OpRecords, Pcs
  <1>4. /\ NewOp.call = "none" /\ NewOp.pc = "idle" /\ NewOp.keys = {} /\ NewOp.open = {}
        /\ NewOp.fence = [k \in Keys |-> NoFence] /\ NewOp.readFence = [k \in Keys |-> NoFence]
        /\ NewOp.rejected = {} /\ NewOp.gaveUp = {} /\ NewOp.active = {} /\ NewOp.targets = {}
    BY DEF NewOp
  <1>5. TypeOK
    BY <1>1, <1>2, <1>3 DEF TypeOK, OrderTypeOK, Phases
  <1>6. OrderInv /\ RunningIsNewest /\ WritesOneKey
    BY <1>2, <1>4 DEF OrderInv, Share, RunningIsNewest, WritesOneKey
  <1>7. PcMatchesPhase /\ CommandsHaveSenders /\ CleanupReaches /\ OnlyFailedSkipped /\ BackfillsGoUp
    BY <1>2, <1>4 DEF PcMatchesPhase, PcMatches, CommandsHaveSenders, CleanupReaches,
                      OnlyFailedSkipped, BackfillsGoUp
  <1>8. EntriesFromRuns /\ NoOvertakenEntryAtRest
    BY <1>2 DEF EntriesFromRuns, NoOvertakenEntryAtRest
  <1>9. FencesBehind
    <2>1. \A k \in Keys : NotAhead(NoFence, k)
      <3> TAKE k \in Keys
      <3>1. CurrentKeyEpoch(k) \in Nat /\ epochs.clear \in Nat
        BY <1>1, KeyEpochType DEF CurrentKeyEpoch, IsEpochTable
      <3> QED BY <3>1 DEF NotAhead, Precedes, CurrentFence, NoFence
    <2> QED BY <1>2, <1>4, <2>1 DEF FencesBehind
  <1> QED BY <1>1, <1>5, <1>6, <1>7, <1>8, <1>9 DEF StackInv

\* Every action is of a kind above, and keeps the invariant.
LEMMA NextKeeps ==
    ASSUME FailuresContained, StackInv, [Next]_vars
    PROVE  StackInv'
  <1>1. ASSUME NEW o \in Ops, Start(o)
        PROVE  StackInv'
    <2>1. CASE \E k \in Keys : StartSet(o, k)
      <3>1. PICK k \in Keys : StartSet(o, k)
        BY <2>1
      <3> QED BY <3>1, SetJoins, JoinsKeeps
    <2>2. CASE \E k \in Keys, call \in {"get", "fetch"} : StartGet(o, k, call)
      BY <2>2, GetIsLocal, LocalKeeps
    <2>3. CASE \E ks \in KeyLists(MaxList) : StartMset(o, {ks[i] : i \in DOMAIN ks})
      <3>1. PICK ks \in KeyLists(MaxList) : StartMset(o, {ks[i] : i \in DOMAIN ks})
        BY <2>3
      <3>2. {ks[i] : i \in DOMAIN ks} \in SUBSET Keys
        BY DEF KeyLists
      <3> QED BY <3>1, <3>2, MsetJoins, JoinsKeeps
    <2>4. CASE \E ks \in KeyLists(MaxList) : StartDelete(o, ks)
      <3>1. PICK ks \in KeyLists(MaxList) : StartDelete(o, ks)
        BY <2>4
      <3>2. \E r : Invalidates(o, {ks[i] : i \in DOMAIN ks}, Usable, r)
        BY <3>1, DeleteInvalidates
      <3> QED BY <3>2, InvalidatesKeeps
    <2>5. CASE StartClear(o)
      <3>1. \E r : Invalidates(o, Keys, Layers, r)
        BY <2>5, ClearInvalidates
      <3> QED BY <3>1, InvalidatesKeeps
    <2> QED BY <1>1, <2>1, <2>2, <2>3, <2>4, <2>5 DEF Start
  <1>2. ASSUME NEW o \in Ops, Step(o)
        PROVE  StackInv'
    <2>1. CASE Run(o)
      BY <2>1, RunKeeps
    <2>2. CASE CheckSingle(o)
      <3>1. PICK K, r : Checks(o, Layers, K, r)
        BY <2>2, SingleChecks
      <3> QED BY <3>1, ChecksKeeps
    <2>3. CASE \E l \in Layers : CheckLayer(o, l)
      <3>1. PICK l \in Layers : CheckLayer(o, l)
        BY <2>3
      <3>2. PICK K, r : Checks(o, {l}, K, r)
        BY <3>1, LayerChecks
      <3> QED BY <3>2, ChecksKeeps
    <2>4. CASE \/ Cleaned(o) \/ BatchDone(o) \/ FetchedNothing(o) \/ Cleared(o)
               \/ \E k \in Keys : Index(o, k) \/ Unindex(o, k)
      BY <2>4, EndingsAreLocal, LocalKeeps
    <2>5. CASE (\E k \in Keys : ReadLayer(o, k)) \/ Miss(o)
      BY <2>5, ReadsAreLocal, LocalKeeps
    <2>6. CASE Finish(o) \/ Backfill(o) \/ Fetched(o)
      BY <2>6, FinishKeeps, BackfillKinds, FetchedKinds, LocalKeeps, JoinsKeeps
    <2> QED BY <1>2, <2>1, <2>2, <2>3, <2>4, <2>5, <2>6 DEF Step
  <1>3. ASSUME NEW o \in Ops, ReadFails(o)
        PROVE  StackInv'
    BY <1>3, ReadsAreLocal, LocalKeeps
  <1>4. ASSUME NEW c \in pend, Land(c) \/ Fail(c)
        PROVE  StackInv'
    BY <1>4, LandAnswers, FailAnswers, AnswersKeeps
  <1>5. ASSUME NEW l \in Layers, Recover(l)
        PROVE  StackInv'
    BY <1>5, RecoverKeeps
  <1>6. ASSUME UNCHANGED vars
        PROVE  StackInv'
    BY <1>6, StutterKeeps
  <1> QED BY <1>1, <1>2, <1>3, <1>4, <1>5, <1>6 DEF Next, Idle

\* The invariant holds in every reachable state.
LEMMA StackInvHolds == ASSUME FailuresContained PROVE Spec => []StackInv
  <1>1. StackInv /\ [Next]_vars => StackInv'
    BY NextKeeps
  <1> QED BY <1>1, InitStackInv, PTL DEF Spec

\* The state of the stack is well formed, whatever the layers answer.
THEOREM StackTypeCorrect == ASSUME FailuresContained PROVE Spec => []TypeOK
  <1>1. StackInv => TypeOK
    BY DEF StackInv
  <1> QED BY <1>1, StackInvHolds, PTL

\* An entry that an invalidation of its key has overtaken is about to be removed
\* from every layer that did not fail, so none is left when nothing is under way
\* (runFencedWrite, writeBatch, deleteKeys).
THEOREM StaleEntriesAreRemoved ==
    ASSUME FailuresContained PROVE Spec => []NoOvertakenEntryAtRest
  <1>1. StackInv => NoOvertakenEntryAtRest
    BY DEF StackInv
  <1> QED BY <1>1, StackInvHolds, PTL

\* In a layer that did not fail no entry is replaced by one of a write that was
\* queued before it on the same key (runSerializedWrites).
THEOREM WritesLandInOrder ==
    ASSUME FailuresContained PROVE Spec => NewerNeverOverwritten
  <1> DEFINE Ordered ==
        \A l \in Layers \ failed', k \in Keys :
           LET old == store[l][k]
               new == store'[l][k]
           IN  new \notin {None, old} /\ old # None => new \notin before[old]
  <1>1. StackInv /\ [Next]_vars => [Ordered]_vars
    <2> SUFFICES ASSUME StackInv, Next PROVE Ordered
      OBVIOUS
    <2>1. CASE UNCHANGED store
      BY <2>1
    <2>2. CASE \E c \in pend : Land(c) \/ Fail(c)
      <3>1. PICK c \in pend : Land(c) \/ Fail(c)
        BY <2>2
      <3>2. /\ c.by \in Ops /\ c.layer \in Layers /\ c.key \in Keys
            /\ store' \in {store, After(c)} /\ failed \subseteq failed'
        BY <3>1 DEF StackInv, TypeOK, Commands, Land, Fail
      <3> SUFFICES ASSUME NEW l \in Layers \ failed', NEW k \in Keys,
                          store'[l][k] \notin {None, store[l][k]}, store[l][k] # None
                   PROVE  store'[l][k] \notin before[store[l][k]]
        OBVIOUS
      <3>3. store[l][k] \in Ops /\ phase[store[l][k]] \in {"running", "done"}
        BY DEF StackInv, TypeOK, EntriesFromRuns
      <3>4. c.kind = "set" /\ l = c.layer /\ k = c.key /\ store'[l][k] = c.by
        BY <3>2 DEF After, StackInv, TypeOK
      <3>5. l \in op[c.by].open
        BY <3>2, <3>4 DEF StackInv, EntriesFromRuns
      <3>6. phase[c.by] = "running"
        BY <3>2, <3>5 DEF StackInv, CleanupReaches
      <3> QED BY <3>3, <3>4, <3>6 DEF StackInv, OrderInv
    <2>3. UNCHANGED store \/ \E c \in pend : Land(c) \/ Fail(c)
      <3>1. \A o \in Ops : Start(o) => UNCHANGED store
        BY DEF Start, StartSet, StartGet, StartMset, StartDelete, StartClear
      <3>2. \A o \in Ops : Step(o) => UNCHANGED store
        <4> TAKE o \in Ops
        <4>1. \A l \in Layers : CheckLayer(o, l) => UNCHANGED store
          BY DEF CheckLayer, CheckLayerOf
        <4>2. \A k \in Keys : Index(o, k) \/ Unindex(o, k) \/ ReadLayer(o, k) => UNCHANGED store
          BY DEF Index, Unindex, ReadLayer
        <4>3. Run(o) \/ CheckSingle(o) \/ Cleaned(o) \/ BatchDone(o) \/ Finish(o) => UNCHANGED store
          BY DEF Run, CheckSingle, Cleaned, BatchDone, Finish
        <4>4. Backfill(o) \/ Miss(o) \/ Fetched(o) \/ FetchedNothing(o) \/ Cleared(o) => UNCHANGED store
          BY DEF Backfill, Miss, Fetched, FetchedNothing, Cleared
        <4> QED BY <4>1, <4>2, <4>3, <4>4 DEF Step
      <3>3. \A o \in Ops : ReadFails(o) => UNCHANGED store
        BY DEF ReadFails
      <3>4. \A l \in Layers : Recover(l) => UNCHANGED store
        BY DEF Recover
      <3>5. Idle => UNCHANGED store
        BY DEF Idle, vars
      <3> HIDE DEF Ordered
      <3> QED BY <3>1, <3>2, <3>3, <3>4, <3>5 DEF Next
    <2> QED BY <2>1, <2>2, <2>3
  <1> QED BY <1>1, StackInvHolds, PTL DEF Spec, NewerNeverOverwritten

-----------------------------------------------------------------------------
(* Cleanup.                                                                *)

\* A step of one call keeps the cleanups of all calls in order, if it does its
\* own.
LEMMA CleanupStays ==
    ASSUME StackInv, CleanupIsOrdered, NEW o \in Ops, GoodTable(epochs'),
           \A k \in Keys : LaterFor(k, epochs, epochs'),
           \A q \in Ops \ {o} : op'[q] = op[q] /\ phase'[q] = phase[q],
           pend' \subseteq Commands,
           \A c \in pend' : IF c.by = o THEN CleanupInOrder(c)' ELSE c \in pend,
           op'[o].rejected = {},
           op'[o].gaveUp # {} => op'[o].call = "mset" /\ phase'[o] # "idle"
    PROVE  CleanupIsOrdered'
  <1>1. ASSUME NEW c \in pend', c.by # o
        PROVE  CleanupInOrder(c)'
    <2>1. /\ c \in pend /\ c.by \in Ops \ {o} /\ c.key \in Keys /\ op'[c.by] = op[c.by]
          /\ CleanupInOrder(c)
      BY <1>1 DEF Commands, CleanupIsOrdered
    <2>2. Outdated(c.by, c.key) => Outdated(c.by, c.key)'
      <3>1. op[c.by].fence[c.key] \in Fences /\ NotAhead(op[c.by].fence[c.key], c.key)
        BY <2>1 DEF StackInv, TypeOK, OpRecords, FencesBehind
      <3>2. IsWriteOutdated(c.key, op[c.by].fence[c.key]) =>
              \/ op[c.by].fence[c.key].clear # epochs'.clear
              \/ op[c.by].fence[c.key].key # KeyEpochIn(epochs', c.key)
        BY <2>1, <3>1, NotAheadStays DEF StackInv, IsWriteOutdated, CurrentKeyEpoch
      <3> QED BY <2>1, <3>2 DEF Outdated, IsWriteOutdated, CurrentKeyEpoch
    <2> QED BY <2>1, <2>2 DEF CleanupInOrder, IsCleanup, IsBackfill
  <1> QED BY <1>1 DEF CleanupIsOrdered

\* The same when no epoch moves.
LEMMA EpochsStay ==
    ASSUME StackInv, UNCHANGED epochs
    PROVE  GoodTable(epochs') /\ \A k \in Keys : LaterFor(k, epochs, epochs')
  BY KeyEpochType DEF StackInv, LaterFor

\* A call that has sent nothing, and sends nothing now.
LEMMA JoinsInOrder ==
    ASSUME StackInv, StackInv', CleanupIsOrdered, NEW o \in Ops, NEW K, NEW r, Joins(o, K, r)
    PROVE  CleanupIsOrdered'
  <1>1. /\ op'[o] = r /\ \A q \in Ops \ {o} : op'[q] = op[q] /\ phase'[q] = phase[q]
        /\ phase[o] = "idle" /\ UNCHANGED <<epochs, pend>> /\ op[o].pc \in {"idle", "hit", "fetching"}
        /\ r.rejected = op[o].rejected /\ r.gaveUp = op[o].gaveUp
    BY DEF StackInv, TypeOK, OrderTypeOK, Joins, Admit
  <1>2. \A c \in pend : c.by # o
    BY <1>1, CallFacts DEF HasSent
  <1>3. r.rejected = {} /\ r.gaveUp = {} /\ pend' \subseteq Commands
    BY <1>1 DEF CleanupIsOrdered, StackInv, TypeOK
  <1> QED BY <1>1, <1>2, <1>3, EpochsStay, CleanupStays

\* A call that goes on by itself has no cleanup left behind it.
LEMMA LocalInOrder ==
    ASSUME StackInv, StackInv', CleanupIsOrdered, NEW o \in Ops, NEW r, Local(o, r),
           op[o].pc \in {"writing", "cleaning"} => \A c \in pend : c.by = o => c.kind # "delete"
    PROVE  CleanupIsOrdered'
  <1>1. /\ op'[o] = r /\ UNCHANGED <<epochs, pend, phase>> /\ \A q \in Ops \ {o} : op'[q] = op[q]
        /\ r.rejected = op[o].rejected /\ r.gaveUp = op[o].gaveUp /\ r.pc # "cleaning"
        /\ r.call = op[o].call \/ op[o].pc = "idle"
    BY DEF StackInv, TypeOK, Local, chainVars
  <1>2. op[o].pc = "idle" => phase[o] = "idle" /\ \A c \in pend : c.by # o
    BY CallFacts DEF HasSent, PcMatches
  <1>3. r.rejected = {} /\ (r.gaveUp # {} => r.call = "mset" /\ phase'[o] # "idle") /\ pend' \subseteq Commands
    BY <1>1, <1>2 DEF CleanupIsOrdered, StackInv, TypeOK
  <1>4. \A c \in pend : c.by = o => CleanupInOrder(c)'
    BY <1>1, <1>2 DEF CleanupIsOrdered, CleanupInOrder, IsCleanup
  <1> QED BY <1>1, <1>3, <1>4, EpochsStay, CleanupStays

\* An invalidation's deletes are no cleanup.
LEMMA InvalidatesInOrder ==
    ASSUME StackInv, StackInv', CleanupIsOrdered, NEW o \in Ops, NEW K, NEW L, NEW r,
           Invalidates(o, K, L, r)
    PROVE  CleanupIsOrdered'
  <1>1. /\ op'[o] = r /\ \A q \in Ops \ {o} : op'[q] = op[q]
        /\ UNCHANGED phase /\ op[o].pc = "idle" /\ r.pc = "erasing" /\ r.call \in {"delete", "clear"}
        /\ r.rejected = op[o].rejected /\ r.gaveUp = op[o].gaveUp
        /\ pend' = pend \cup DeleteCommands(o, L, K)
        /\ GoodTable(epochs') /\ \A k \in Keys : LaterFor(k, epochs, epochs')
    BY DEF StackInv, TypeOK, Invalidates, chainVars
  <1>2. phase[o] = "idle"
    BY <1>1, CallFacts DEF PcMatches
  <1>3. r.rejected = {} /\ r.gaveUp = {} /\ pend' \subseteq Commands
    BY <1>1, <1>2 DEF CleanupIsOrdered, StackInv, TypeOK
  <1>4. \A c \in pend' : IF c.by = o THEN CleanupInOrder(c)' ELSE c \in pend
    BY <1>1 DEF DeleteCommands, CleanupInOrder, IsCleanup
  <1> QED BY <1>1, <1>3, <1>4, CleanupStays

\* An operation that begins has sent nothing before.
LEMMA RunInOrder ==
    ASSUME StackInv, StackInv', CleanupIsOrdered, NEW o \in Ops, Run(o)
    PROVE  CleanupIsOrdered'
  <1>1. /\ phase[o] = "queued" /\ phase'[o] = "running" /\ \A q \in Ops \ {o} : phase'[q] = phase[q]
        /\ op[o].pc = "writing" /\ UNCHANGED epochs
    BY DEF Run, Begin, MyTurn, StackInv, TypeOK, OrderTypeOK
  <1>2. /\ \A q \in Ops \ {o} : op'[q] = op[q]
        /\ op'[o].pc \in {"writing", "settling"} /\ op'[o].call = op[o].call
        /\ op'[o].rejected = op[o].rejected /\ op'[o].gaveUp = op[o].gaveUp
    <2>1. op[o] \in OpRecords /\ op \in [Ops -> OpRecords]
      BY DEF StackInv, TypeOK
    <2>2. \/ op' = [op EXCEPT ![o] = [op[o] EXCEPT !.pc = "settling",
                                        !.todo = IF op[o].call = "mset" THEN keysOf[o] ELSE {}]]
          \/ op' = [op EXCEPT ![o] = [op[o] EXCEPT !.open = RunLayers(o),
                                        !.active = {k \in keysOf[o] : ~Outdated(o, k)}]]
      <3>1. CASE {k \in keysOf[o] : ~Outdated(o, k)} = {}
        BY <3>1 DEF Run
      <3>2. CASE {k \in keysOf[o] : ~Outdated(o, k)} # {}
        BY <3>2 DEF Run
      <3> QED BY <3>1, <3>2
    <2>3. ASSUME NEW t, op' = [op EXCEPT ![o] = [op[o] EXCEPT !.pc = "settling", !.todo = t]]
          PROVE  /\ \A q \in Ops \ {o} : op'[q] = op[q]
                 /\ op'[o].pc \in {"writing", "settling"} /\ op'[o].call = op[o].call
                 /\ op'[o].rejected = op[o].rejected /\ op'[o].gaveUp = op[o].gaveUp
      BY <2>1, <2>3 DEF OpRecords
    <2>4. ASSUME NEW L, NEW K, op' = [op EXCEPT ![o] = [op[o] EXCEPT !.open = L, !.active = K]]
          PROVE  /\ \A q \in Ops \ {o} : op'[q] = op[q]
                 /\ op'[o].pc \in {"writing", "settling"} /\ op'[o].call = op[o].call
                 /\ op'[o].rejected = op[o].rejected /\ op'[o].gaveUp = op[o].gaveUp
      BY <1>1, <2>1, <2>4 DEF OpRecords
    <2> QED BY <2>2, <2>3, <2>4
  <1>3. \A c \in pend' : c \in pend \/ (c.by = o /\ c.kind = "set")
    BY DEF Run, SetCommands
  <1>4. \A c \in pend : c.by # o
    BY <1>1, CallFacts DEF HasSent
  <1>5. \A c \in pend' : IF c.by = o THEN CleanupInOrder(c)' ELSE c \in pend
    BY <1>2, <1>3, <1>4 DEF CleanupInOrder, IsCleanup
  <1>6. /\ op'[o].rejected = {} /\ (op'[o].gaveUp # {} => op'[o].call = "mset" /\ phase'[o] # "idle")
        /\ pend' \subseteq Commands
    BY <1>1, <1>2 DEF CleanupIsOrdered, StackInv, TypeOK
  <1> QED BY <1>1, <1>2, <1>5, <1>6, EpochsStay, CleanupStays

\* The deletes of a write that wrote one key all name an outdated key.
LEMMA SingleInOrder ==
    ASSUME StackInv, StackInv', CleanupIsOrdered, NEW o \in Ops, CheckSingle(o)
    PROVE  CleanupIsOrdered'
  <1>1. /\ op[o].call # "mset" /\ op[o].pc = "writing" /\ phase[o] = "running" /\ Awaited(o) = {}
        /\ UNCHANGED <<epochs, phase>>
    BY DEF CheckSingle, chainVars
  <1>2. /\ op[o] \in OpRecords /\ op \in [Ops -> OpRecords] /\ op[o].active \subseteq keysOf[o]
        /\ op[o].active \subseteq Keys /\ \A j, k \in keysOf[o] : j = k
        /\ op[o].rejected = {} /\ op[o].gaveUp = {}
    BY <1>1 DEF StackInv, TypeOK, OpRecords, RunningIsNewest, WritesOneKey, CleanupIsOrdered
  <1>3. \A c \in pend : c.by # o
    BY <1>1, <1>2 DEF Awaited
  <1>4. /\ \A q \in Ops \ {o} : op'[q] = op[q]
        /\ op'[o].call = op[o].call /\ op'[o].active = op[o].active /\ op'[o].fence = op[o].fence
        /\ op'[o].rejected = {} /\ op'[o].gaveUp = {} /\ op'[o].val = op[o].val
        /\ \/ op'[o].pc = "settling" /\ pend' = pend
           \/ /\ op'[o].pc = "cleaning" /\ \E k \in op[o].active : Outdated(o, k)
              /\ pend' = pend \cup DeleteCommands(o, op[o].cleans, op[o].active)
    <2>1. \/ /\ \E t : op' = [op EXCEPT ![o] = [op[o] EXCEPT !.pc = "settling", !.open = {}, !.todo = t]]
             /\ pend' = pend
          \/ /\ op' = [op EXCEPT ![o] = [op[o] EXCEPT !.pc = "cleaning", !.open = {}]]
             /\ \E k \in op[o].active : Outdated(o, k)
             /\ pend' = pend \cup DeleteCommands(o, op[o].cleans, op[o].active)
      BY DEF CheckSingle
    <2>2. CASE pend' = pend /\ \E t : op' = [op EXCEPT ![o] =
                                             [op[o] EXCEPT !.pc = "settling", !.open = {}, !.todo = t]]
      BY <1>2, <2>2 DEF OpRecords
    <2>3. CASE /\ op' = [op EXCEPT ![o] = [op[o] EXCEPT !.pc = "cleaning", !.open = {}]]
               /\ \E k \in op[o].active : Outdated(o, k)
               /\ pend' = pend \cup DeleteCommands(o, op[o].cleans, op[o].active)
      BY <1>2, <2>3 DEF OpRecords
    <2> QED BY <2>1, <2>2, <2>3
  <1>5. ASSUME NEW c \in pend', c.by = o
        PROVE  CleanupInOrder(c)'
    <2>1. /\ op'[o].pc = "cleaning" /\ c \in DeleteCommands(o, op[o].cleans, op[o].active)
          /\ \E k \in op[o].active : Outdated(o, k)
      BY <1>3, <1>4, <1>5
    <2>2. c.kind = "delete" /\ c.layer \in op[o].cleans /\ c.key \in op[o].active
      BY <2>1 DEF DeleteCommands
    <2>3. Outdated(o, c.key)
      BY <1>2, <2>1, <2>2
    <2>4. Outdated(o, c.key)'
      BY <1>1, <1>4, <2>3 DEF Outdated, IsWriteOutdated, CurrentKeyEpoch
    <2>5. IsBackfill(o) => c.layer < NumLayers
      BY <1>1, <2>2 DEF StackInv, BackfillsGoUp
    <2> QED BY <1>4, <1>5, <2>1, <2>2, <2>4, <2>5 DEF CleanupInOrder, IsBackfill
  <1>6. \A c \in pend' : c.by # o => c \in pend
    BY <1>4 DEF DeleteCommands
  <1>7. pend' \subseteq Commands
    BY DEF StackInv, TypeOK
  <1> QED BY <1>1, <1>4, <1>5, <1>6, <1>7, EpochsStay, CleanupStays

\* A batch deletes exactly its outdated keys from the layer.
LEMMA LayerInOrder ==
    ASSUME StackInv, StackInv', CleanupIsOrdered, NEW o \in Ops, NEW l \in Layers, CheckLayer(o, l)
    PROVE  CleanupIsOrdered'
  <1>1. /\ op[o].call = "mset" /\ op[o].pc = "writing" /\ phase[o] = "running"
        /\ UNCHANGED <<epochs, phase>>
        /\ pend' = pend \cup DeleteCommands(o, {l}, {k \in op[o].active : Outdated(o, k)})
    BY DEF CheckLayer, CheckLayerOf, chainVars
  <1>2. /\ \A q \in Ops \ {o} : op'[q] = op[q]
        /\ op'[o].call = op[o].call /\ op'[o].active = op[o].active /\ op'[o].fence = op[o].fence
        /\ op'[o].rejected = op[o].rejected /\ op'[o].pc = op[o].pc /\ op'[o].val = op[o].val
    <2>1. op[o] \in OpRecords /\ op \in [Ops -> OpRecords]
      BY DEF StackInv, TypeOK
    <2> QED BY <2>1 DEF CheckLayer, CheckLayerOf, OpRecords
  <1>3. op[o].val = o
    BY <1>1 DEF StackInv, BackfillsGoUp
  <1>4. ASSUME NEW c \in pend', c.by = o
        PROVE  CleanupInOrder(c)'
    <2>1. CASE c \in pend
      <3>1. CleanupInOrder(c)
        BY <2>1 DEF CleanupIsOrdered
      <3> QED BY <1>1, <1>2, <1>4, <3>1 DEF CleanupInOrder, IsCleanup, IsBackfill, Outdated, IsWriteOutdated, CurrentKeyEpoch
    <2>2. CASE c \notin pend
      <3>1. c.kind = "delete" /\ c.key \in op[o].active /\ Outdated(o, c.key)
        BY <1>1, <1>4, <2>2 DEF DeleteCommands
      <3>2. Outdated(o, c.key)'
        BY <1>1, <1>2, <3>1 DEF Outdated, IsWriteOutdated, CurrentKeyEpoch
      <3> QED BY <1>1, <1>2, <1>3, <1>4, <3>1, <3>2 DEF CleanupInOrder, IsBackfill
    <2> QED BY <2>1, <2>2
  <1>5. \A c \in pend' : c.by # o => c \in pend
    BY <1>1 DEF DeleteCommands
  <1>6. pend' \subseteq Commands /\ op'[o].rejected = {} /\ op'[o].call = "mset" /\ phase'[o] # "idle"
    BY <1>1, <1>2 DEF StackInv, TypeOK, CleanupIsOrdered
  <1> QED BY <1>1, <1>2, <1>4, <1>5, <1>6, EpochsStay, CleanupStays

\* Where cleanups are awaited, none is left behind by a command that fails: only
\* a backfill's own delete can end it, and that was the only one.
LEMMA FailInOrder ==
    ASSUME CleanupsAwaited, StackInv, StackInv', CleanupIsOrdered, NEW c \in pend, Fail(c)
    PROVE  CleanupIsOrdered'
  <1>1. /\ c.by \in Ops /\ c.layer \in MayFail /\ pend' = pend \ {c} /\ UNCHANGED <<epochs, phase>>
        /\ c \in Commands /\ pend' \subseteq Commands
    BY DEF Fail, StackInv, TypeOK, Commands, chainVars
  <1>2. Graceful /\ NumLayers <= 2
    BY <1>1 DEF CleanupsAwaited
  <1>3. PICK o \in Ops : o = c.by
    BY <1>1
  <1>4. /\ op[o] \in OpRecords /\ op \in [Ops -> OpRecords] /\ HasSent(op[o], phase[o])
        /\ PcMatches(op[o], phase[o]) /\ op[o].rejected = {}
        /\ (op[o].gaveUp # {} => op[o].call = "mset" /\ phase[o] # "idle")
    BY <1>3 DEF StackInv, TypeOK, CommandsHaveSenders, PcMatchesPhase, CleanupIsOrdered
  <1>5. CASE Guarded(c)
    <2>1. /\ \A q \in Ops \ {o} : op'[q] = op[q]
          /\ op'[o].call = op[o].call /\ op'[o].pc = op[o].pc /\ op'[o].active = op[o].active
          /\ op'[o].fence = op[o].fence /\ op'[o].val = op[o].val /\ op'[o].rejected = {}
          /\ op'[o].gaveUp = op[o].gaveUp \/ (op[o].call = "mset" /\ op[o].pc = "writing")
      <3>1. \/ op' = op
            \/ /\ op[o].call = "mset" /\ op[o].pc = "writing"
               /\ op' = [op EXCEPT ![o].gaveUp = op[o].gaveUp \cup {c.layer}]
        BY <1>2, <1>3, <1>5 DEF Fail
      <3> QED BY <1>4, <3>1 DEF OpRecords
    <2>2. op'[o].gaveUp # {} => op'[o].call = "mset" /\ phase'[o] # "idle"
      BY <1>1, <1>4, <2>1 DEF HasSent
    <2>3. ASSUME NEW d \in pend', d.by = o
          PROVE  CleanupInOrder(d)'
      <3>1. CleanupInOrder(d)
        BY <1>1, <2>3 DEF CleanupIsOrdered
      <3> QED BY <1>1, <2>1, <2>3, <3>1
              DEF CleanupInOrder, IsCleanup, IsBackfill, Outdated, IsWriteOutdated, CurrentKeyEpoch
    <2> QED BY <1>1, <2>1, <2>2, <2>3, EpochsStay, CleanupStays
  <1>6. CASE ~Guarded(c)
    <2>1. op' = [op EXCEPT ![o] = Rejects(o, c)]
      BY <1>3, <1>6 DEF Fail
    <2>2. op[o].call = "clear" \/ (op[o].pc = "cleaning" /\ IsBackfill(o))
      BY <1>3, <1>6 DEF Guarded
    <2>3. /\ \A q \in Ops \ {o} : op'[q] = op[q]
          /\ op'[o].call = op[o].call /\ op'[o].rejected = {} /\ op'[o].gaveUp = op[o].gaveUp
          /\ op'[o].pc \in {"done", "settling"}
      <3>1. op[o].pc \in {"erasing", "done", "cleaning"}
        BY <1>4, <2>2 DEF PcMatches
      <3>2. CASE op[o].pc = "erasing"
        <4>1. Rejects(o, c) = [op[o] EXCEPT !.pc = "done", !.todo = {}]
          BY <3>2 DEF Rejects
        <4> QED BY <1>4, <2>1, <4>1 DEF OpRecords
      <3>3. CASE op[o].pc = "done"
        <4>1. Rejects(o, c) = op[o]
          BY <3>3 DEF Rejects
        <4> QED BY <1>4, <2>1, <3>3, <4>1
      <3>4. CASE op[o].pc = "cleaning"
        <4>1. Rejects(o, c) = [op[o] EXCEPT !.pc = "settling", !.open = {}, !.todo = {}]
          BY <3>4 DEF Rejects
        <4> QED BY <1>4, <2>1, <4>1 DEF OpRecords
      <3> QED BY <3>1, <3>2, <3>3, <3>4
    <2>4. ASSUME NEW d \in pend', d.by = o, op[o].call # "clear", IsCleanup(d)
          PROVE  FALSE
      <3>1. /\ d \in pend /\ d # c /\ CleanupInOrder(d) /\ CleanupInOrder(c)
            /\ d \in Commands /\ op[o].pc = "cleaning" /\ IsBackfill(o)
        BY <1>1, <2>2, <2>4 DEF CleanupIsOrdered
      <3>2. /\ c.kind = "delete" /\ op[c.by].call \notin {"delete", "clear"}
        BY <1>3, <2>4, <3>1 DEF CleanupInOrder, IsCleanup
      <3>3. /\ c.key \in op[o].active /\ d.key \in op[o].active
            /\ c.layer < NumLayers /\ d.layer < NumLayers
        BY <1>3, <2>4, <3>1, <3>2 DEF CleanupInOrder, IsCleanup
      <3>4. op[o].call # "mset"
        BY <3>1 DEF StackInv, BackfillsGoUp, IsBackfill
      <3>5. c.key = d.key
        BY <3>3, <3>4 DEF StackInv, RunningIsNewest, WritesOneKey
      <3>6. c.layer = 1 /\ d.layer = 1
        BY <1>1, <1>2, <3>1, <3>3, LayersAssumption DEF Commands, Layers
      <3>7. d.kind = "delete"
        BY <2>4 DEF IsCleanup
      <3> QED BY <1>1, <1>3, <2>4, <3>1, <3>2, <3>5, <3>6, <3>7 DEF Commands
    <2>5. ASSUME NEW d \in pend', d.by = o
          PROVE  CleanupInOrder(d)'
      BY <2>3, <2>4, <2>5 DEF CleanupInOrder, IsCleanup
    <2> QED BY <1>1, <1>4, <2>3, <2>5, EpochsStay, CleanupStays
  <1> QED BY <1>5, <1>6

\* Every action keeps the cleanups in order.
LEMMA NextInOrder ==
    ASSUME CleanupsAwaited, StackInv, StackInv', CleanupIsOrdered, [Next]_vars
    PROVE  CleanupIsOrdered'
  <1>1. ASSUME NEW o \in Ops, Start(o)
        PROVE  CleanupIsOrdered'
    <2>1. CASE \E k \in Keys : StartSet(o, k)
      <3>1. \E K, r : Joins(o, K, r)
        BY <2>1, SetJoins
      <3> QED BY <3>1, JoinsInOrder
    <2>2. CASE \E k \in Keys, call \in {"get", "fetch"} : StartGet(o, k, call)
      <3>1. (\E r : Local(o, r)) /\ op[o].pc = "idle"
        BY <2>2, GetIsLocal DEF StartGet
      <3> QED BY <3>1, LocalInOrder
    <2>3. CASE \E ks \in KeyLists(MaxList) : StartMset(o, {ks[i] : i \in DOMAIN ks})
      <3>1. PICK ks \in KeyLists(MaxList) : StartMset(o, {ks[i] : i \in DOMAIN ks})
        BY <2>3
      <3>2. {ks[i] : i \in DOMAIN ks} \in SUBSET Keys
        BY DEF KeyLists
      <3>3. \E K, r : Joins(o, K, r)
        BY <3>1, <3>2, MsetJoins
      <3> QED BY <3>3, JoinsInOrder
    <2>4. CASE \E ks \in KeyLists(MaxList) : StartDelete(o, ks)
      <3>1. PICK ks \in KeyLists(MaxList) : StartDelete(o, ks)
        BY <2>4
      <3>2. \E r : Invalidates(o, {ks[i] : i \in DOMAIN ks}, Usable, r)
        BY <3>1, DeleteInvalidates
      <3> QED BY <3>2, InvalidatesInOrder
    <2>5. CASE StartClear(o)
      <3>1. \E r : Invalidates(o, Keys, Layers, r)
        BY <2>5, ClearInvalidates
      <3> QED BY <3>1, InvalidatesInOrder
    <2> QED BY <1>1, <2>1, <2>2, <2>3, <2>4, <2>5 DEF Start
  <1>2. ASSUME NEW o \in Ops, Step(o)
        PROVE  CleanupIsOrdered'
    <2>1. CASE Run(o) \/ CheckSingle(o) \/ \E l \in Layers : CheckLayer(o, l)
      BY <2>1, RunInOrder, SingleInOrder, LayerInOrder
    <2>2. CASE Cleaned(o) \/ BatchDone(o)
      <3>1. \A c \in pend : c.by = o => c.kind # "delete"
        BY <2>2 DEF Cleaned, BatchDone, Awaited, CleanupIsOrdered
      <3>2. \E r : Local(o, r)
        BY <2>2, EndingsAreLocal
      <3> QED BY <3>1, <3>2, LocalInOrder
    <2>3. CASE \/ FetchedNothing(o) \/ Cleared(o) \/ Miss(o)
               \/ \E k \in Keys : Index(o, k) \/ Unindex(o, k) \/ ReadLayer(o, k)
      <3>1. op[o].pc \notin {"writing", "cleaning"}
        BY <2>3 DEF FetchedNothing, Cleared, Miss, Index, Unindex, ReadLayer
      <3>2. \E r : Local(o, r)
        BY <2>3, EndingsAreLocal, ReadsAreLocal
      <3> QED BY <3>1, <3>2, LocalInOrder
    <2>4. CASE Backfill(o) \/ Fetched(o)
      BY <2>4, BackfillKinds, FetchedKinds, LocalInOrder, JoinsInOrder DEF Backfill, Fetched
    <2>5. CASE Finish(o)
      <3>1. /\ op[o].pc = "settling" /\ UNCHANGED <<epochs, pend>>
            /\ \A q \in Ops \ {o} : op'[q] = op[q] /\ phase'[q] = phase[q]
            /\ op'[o].pc \in {"done", "indexing"} /\ op'[o].call = op[o].call
            /\ op'[o].rejected = op[o].rejected /\ op'[o].gaveUp = op[o].gaveUp
            /\ phase'[o] # "idle"
        BY <2>5 DEF Finish, Settle, StackInv, TypeOK, OrderTypeOK, OpRecords
      <3>2. \A c \in pend : c.by = o => CleanupInOrder(c)'
        BY <3>1 DEF CleanupIsOrdered, CleanupInOrder, IsCleanup
      <3>3. /\ op'[o].rejected = {} /\ (op'[o].gaveUp # {} => op'[o].call = "mset")
            /\ pend' \subseteq Commands
        BY <3>1 DEF CleanupIsOrdered, StackInv, TypeOK
      <3> QED BY <3>1, <3>2, <3>3, EpochsStay, CleanupStays
    <2> QED BY <1>2, <2>1, <2>2, <2>3, <2>4, <2>5 DEF Step
  <1>3. ASSUME NEW o \in Ops, ReadFails(o)
        PROVE  CleanupIsOrdered'
    <2>1. (\E r : Local(o, r)) /\ op[o].pc = "reading"
      BY <1>3, ReadsAreLocal DEF ReadFails
    <2> QED BY <2>1, LocalInOrder
  <1>4. ASSUME NEW c \in pend, Land(c)
        PROVE  CleanupIsOrdered'
    <2>1. UNCHANGED <<epochs, phase, op>> /\ pend' \subseteq pend
      BY <1>4 DEF Land, chainVars
    <2> QED BY <2>1 DEF CleanupIsOrdered, CleanupInOrder, IsCleanup, IsBackfill, Outdated,
                        IsWriteOutdated, CurrentKeyEpoch
  <1>5. ASSUME NEW c \in pend, Fail(c)
        PROVE  CleanupIsOrdered'
    BY <1>5, FailInOrder
  <1>6. ASSUME (\E l \in Layers : Recover(l)) \/ UNCHANGED vars
        PROVE  CleanupIsOrdered'
    <2>1. UNCHANGED <<epochs, phase, op, pend>>
      BY <1>6 DEF Recover, vars, chainVars
    <2> QED BY <2>1 DEF CleanupIsOrdered, CleanupInOrder, IsCleanup, IsBackfill, Outdated,
                        IsWriteOutdated, CurrentKeyEpoch
  <1> QED BY <1>1, <1>2, <1>3, <1>4, <1>5, <1>6 DEF Next, Idle

\* The compensating delete of a stale write only ever finds an outdated entry: it
\* runs while its write is the newest on the key, so that whatever outdated the
\* write has outdated the entry as well (deleteFromLayers in runFencedWrite).
THEOREM CleanupFindsNothingNewer ==
    ASSUME CleanupsAwaited PROVE Spec => []CleanupSparesNewer
  <1>0. FailuresContained
    BY DEF CleanupsAwaited, FailuresContained
  <1>1. Init => CleanupIsOrdered
    <2>1. NewOp.rejected = {} /\ NewOp.gaveUp = {}
      BY DEF NewOp
    <2> QED BY <2>1 DEF Init, CleanupIsOrdered
  <1>2. StackInv /\ StackInv' /\ CleanupIsOrdered /\ [Next]_vars => CleanupIsOrdered'
    BY NextInOrder
  <1>3. StackInv /\ CleanupIsOrdered => CleanupSparesNewer
    <2> SUFFICES ASSUME StackInv, CleanupIsOrdered, NEW c \in pend,
                        c.kind = "delete", op[c.by].call \notin {"delete", "clear"},
                        store[c.layer][c.key] # None
                 PROVE  Outdated(store[c.layer][c.key], c.key)
      BY DEF CleanupSparesNewer
    <2>1. /\ c.by \in Ops /\ c.layer \in Layers /\ c.key \in Keys
          /\ op[c.by].pc \in {"writing", "cleaning"} /\ c.key \in op[c.by].active
          /\ Outdated(c.by, c.key)
      BY DEF StackInv, TypeOK, Commands, CleanupIsOrdered, CleanupInOrder, IsCleanup
    <2>2. PICK e \in Ops : e = store[c.layer][c.key]
      BY <2>1 DEF StackInv, TypeOK
    <2>3. phase[e] \in {"running", "done"} /\ c.key \in op[e].active
      BY <2>1, <2>2 DEF StackInv, EntriesFromRuns
    <2>4. phase[c.by] = "running"
      BY <2>1 DEF StackInv, PcMatchesPhase, PcMatches, CommandsHaveSenders, HasSent
    <2>5. ~Precedes(op[c.by].fence[c.key], op[e].fence[c.key])
      BY <2>1, <2>2, <2>3, <2>4 DEF StackInv, RunningIsNewest
    <2>6. /\ op[c.by].fence[c.key] \in Fences /\ op[e].fence[c.key] \in Fences
          /\ NotAhead(op[c.by].fence[c.key], c.key)
      BY <2>1, <2>2 DEF StackInv, TypeOK, OpRecords, FencesBehind
    <2>7. IsWriteOutdated(c.key, op[e].fence[c.key])
      BY <2>1, <2>5, <2>6, PrecededIsOutdated DEF StackInv, Outdated
    <2> QED BY <2>2, <2>7 DEF Outdated
  <1>4. Spec => []StackInv
    BY <1>0, StackInvHolds
  <1> QED BY <1>1, <1>2, <1>3, <1>4, PTL DEF Spec
=============================================================================
