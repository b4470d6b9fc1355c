----------------------------- MODULE MCSharedWork -----------------------------
(* The components that make callers wait for work of others, for TLC: one    *)
(* run checks each of them alone, part says which. The state of the others   *)
(* stays as it was initially. No symmetry: their liveness is checked too.    *)
(*   chains   WriteChains, operations that wait for others on their keys     *)
(*   guard    StampedeGuard, calls that compete for one key                  *)
(*   flight   SingleFlight, processes that compete for one lock              *)
(*   bus      RedisInvalidationBus, stacks that share one subscription       *)
EXTENDS WriteChains, Sequences

CONSTANTS
    GuardKeys, Callers, NoEntry, MaxInFlight, HasTimeout,
    Processes, NoToken, Lease, RenewInterval, Timeout, Graceful,
    Stacks, MaxMessages, MaxFailures

\* A lease is positive; a renewal interval outside these bounds means no timer.
ASSUME LeaseAssumption == Lease \in Nat /\ RenewInterval \in 1..Lease - 1
ASSUME TimeoutAssumption == Timeout \in Nat
ASSUME GracefulAssumption == Graceful \subseteq BOOLEAN
ASSUME NoTokenAssumption == NoToken \notin Processes \X {1, 2}

VARIABLES
    part,
    caller, keyOf, entry, references, settled, timedOut, inFlight, activeTasks,
    lock, lease, pc, attempt, renewIn, deadline, ok, value, degrades,
    state, turn, handlers, attached, shared, commands, channel, failures, sent,
    received, expected

guardVars == <<caller, keyOf, entry, references, settled, timedOut, inFlight, activeTasks>>
flightVars == <<lock, lease, pc, attempt, renewIn, deadline, ok, value, degrades>>
busVars == <<state, turn, handlers, attached, shared, commands, channel, failures, sent,
             received, expected>>
allVars == <<part, vars, guardVars, flightVars, busVars>>

Guard == INSTANCE StampedeGuard WITH Keys <- GuardKeys
Flight == INSTANCE SingleFlight
Bus == INSTANCE RedisInvalidationBus

MCInit ==
    /\ part \in {"chains", "guard", "flight", "bus"}
    /\ Init /\ Guard!Init /\ Flight!Init /\ Bus!Init
    /\ part # "flight" => degrades

(* The keys are numbers, and a call takes the least of those not used yet:   *)
(* every other behaviour is one of these with the keys renamed.              *)
LeastKeysFirst ==
    LET used == UNION {keysOf[o] : o \in Ops}
    IN  \A k \in used, other \in Keys : other < k => other \in used

MCNext ==
    \/ /\ part = "chains" /\ Next /\ LeastKeysFirst'
       /\ UNCHANGED <<part, guardVars, flightVars, busVars>>
    \/ /\ part = "guard" /\ Guard!Next
       /\ UNCHANGED <<part, vars, flightVars, busVars>>
    \/ /\ part = "flight" /\ Flight!Next
       /\ UNCHANGED <<part, vars, guardVars, busVars>>
    \/ /\ part = "bus" /\ Bus!Next
       /\ UNCHANGED <<part, vars, guardVars, flightVars>>
    \/ /\ part = "bus"        \* it may stop
       /\ UNCHANGED allVars

(* Timers fire, reactions run and Redis answers; tasks and fetchers may hang. *)
MCSpec ==
    /\ MCInit /\ [][MCNext]_allVars
    /\ \A o \in Ops : WF_vars(part = "chains" /\ (Start(o) \/ End(o) \/ Release(o)))
    /\ \A c \in Callers : /\ WF_guardVars(part = "guard" /\ Guard!TimeOut(c))
                          /\ WF_guardVars(part = "guard" /\ Guard!ReleaseEntry(c))
    /\ WF_flightVars(part = "flight" /\ Flight!Tick)
    /\ \A p \in Processes : WF_flightVars(part = "flight" /\ Flight!Step(p))

----------------------------------------------------------------------------
(* The properties of the parts, each stated in its module.                   *)
EveryCallerReturns == Guard!EveryCallerReturns
OthersSpareTheLock == Flight!OthersSpareTheLock
WaitersReturn == Flight!WaitersReturn
MessagesReachHandlers == Bus!MessagesReachHandlers
=============================================================================
