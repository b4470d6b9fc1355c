----------------------------- MODULE FetchTasks ------------------------------
(***************************************************************************)
(* Fetches of one CacheStack: getPrepared captures the fence, reads the    *)
(* layers and enters the StampedeGuard; the task it starts there, if any,  *)
(* stores its value under that fence.  The guard's onEntryTimeout callback *)
(* bumps the key's epoch (constructor of CacheStack), which fences off the *)
(* detached task while a retry runs.  Init, TimeOut and so on are those of *)
(* the guard; the ones of this module have Fetch in their names.           *)
(***************************************************************************)
EXTENDS KeyEpochs, StampedeGuard

VARIABLES
    stage,      \* stage[c]: how far call c is, see Stages
    fence       \* operationFence of call c

fetchVars == <<epochs, vars, stage, fence>>

\* "reading" the layers, "fetching" inside the guard, or over.
Stages == {"new", "reading", "fetching", "over"}

FetchTypeOK ==
    /\ IsEpochTable(epochs)
    /\ TypeOK
    /\ stage \in [Callers -> Stages]
    /\ fence \in [Callers -> Fences]

FetchInit ==
    /\ InitEpochs
    /\ Init
    /\ stage = [c \in Callers |-> "new"]
    /\ fence = [c \in Callers |-> [clear |-> 0, key |-> 0]]

-----------------------------------------------------------------------------
\* getPrepared up to its first await, and scheduleBackgroundRefresh.
Capture(c) ==
    /\ stage[c] = "new"
    /\ stage' = [stage EXCEPT ![c] = "reading"]
    /\ fence' = [fence EXCEPT ![c] = CurrentFence(keyOf[c])]
    /\ UNCHANGED <<epochs, vars>>

\* The layers have a fresh value.
Hit(c) ==
    /\ stage[c] = "reading"
    /\ stage' = [stage EXCEPT ![c] = "over"]
    /\ UNCHANGED <<epochs, vars, fence>>

\* fetchWithGuards
Fetch(c) ==
    /\ stage[c] = "reading"
    /\ Execute(c)
    /\ stage' = [stage EXCEPT ![c] = "fetching"]
    /\ UNCHANGED <<epochs, fence>>

\* Mutant: the detached task keeps its right to store.
TimeOutUnfenced(c) == TimeOut(c) /\ UNCHANGED <<epochs, stage, fence>>

\* onEntryTimeout is called once, by the caller that detaches the task.
TimeOutFetch(c) ==
    /\ TimeOut(c)
    /\ IF Detaches(c) THEN BumpKeyEpochs(<<keyOf[c]>>) ELSE UNCHANGED epochs
    /\ UNCHANGED <<stage, fence>>

Settle(t) == SettleEntry(t) /\ UNCHANGED <<epochs, stage, fence>>

Leave(c) ==
    /\ ReleaseEntry(c)
    /\ stage' = [stage EXCEPT ![c] = "over"]
    /\ UNCHANGED <<epochs, fence>>

\* Instead of a get, the call is a delete of its key or a clear.
Invalidate(c) ==
    /\ stage[c] = "new"
    /\ BumpKeyEpochs(<<keyOf[c]>>) \/ BeginClearEpoch
    /\ stage' = [stage EXCEPT ![c] = "over"]
    /\ UNCHANGED <<vars, fence>>

FetchIdle ==
    /\ \A c \in Callers : stage[c] = "over" \/ caller[c] = "refused"
    /\ UNCHANGED fetchVars

FetchNext ==
    \/ \E c \in Callers :
          \/ Capture(c) \/ Hit(c) \/ Fetch(c) \/ Settle(c) \/ TimeOutFetch(c) \/ Leave(c)
          \/ Invalidate(c)
    \/ FetchIdle

FetchSpec == FetchInit /\ [][FetchNext]_fetchVars

-----------------------------------------------------------------------------
Outdated(t) == IsWriteOutdated(keyOf[t], fence[t])

\* However many tasks for a key go on (a detached one may hang for ever, and
\* its retry as well), at most one of them can still store its value: every
\* detached task is fenced off, although its fence was captured long before.
OneStorableTask ==
    \A s, t \in Unsettled :
        s # t /\ keyOf[s] = keyOf[t] => Outdated(s) \/ Outdated(t)

-----------------------------------------------------------------------------
\* The parts of the inductive invariant.  A call that has not fetched yet is new
\* to the guard,
StagesMatch == \A c \in Callers : stage[c] \in {"new", "reading"} => caller[c] = "new"

\* fences are from now or before,
FencesBehind == \A c \in Callers : NotAhead(fence[c], keyOf[c])

\* and a detached task has lost the right to store.
DetachedAreFenced == \A t \in Callers : timedOut[t] => Outdated(t)
=============================================================================
