---------------------------- MODULE OrderedWrites ----------------------------
(***************************************************************************)
(* What runSerializedWrites (CacheStackMaintenance) promises its callers:  *)
(* writes that share a key run one after the other, in the order in which  *)
(* they were admitted; writes that share none may overlap.  WriteChains    *)
(* shows that the chain of tail promises keeps this promise; CacheStack is *)
(* built on the promise.                                                   *)
(***************************************************************************)
EXTENDS Naturals

CONSTANTS
    Keys,     \* the cache keys
    Ops       \* the serialised operations, one call each

VARIABLES
    phase,    \* phase[o]: "idle", "queued", "running" or "done"
    keysOf,   \* keysOf[o]: the keys the operation writes
    before    \* before[o]: operations admitted before o that share a key

orderVars == <<phase, keysOf, before>>

Phases == {"idle", "queued", "running", "done"}

OrderTypeOK ==
    /\ phase \in [Ops -> Phases]
    /\ keysOf \in [Ops -> SUBSET Keys]
    /\ before \in [Ops -> SUBSET Ops]

Share(o, p) == keysOf[o] \cap keysOf[p] # {}

InitOrder ==
    /\ phase = [o \in Ops |-> "idle"]
    /\ keysOf = [o \in Ops |-> {}]
    /\ before = [o \in Ops |-> {}]

\* The operation joins behind everything admitted so far on its keys.
Admit(o, K) ==
    /\ phase[o] = "idle"
    /\ phase' = [phase EXCEPT ![o] = "queued"]
    /\ keysOf' = [keysOf EXCEPT ![o] = K]
    /\ before' = [before EXCEPT ![o] =
                    {p \in Ops : phase[p] # "idle" /\ keysOf[p] \cap K # {}}]

\* Mutant: nobody waits.
AnyTurn(o) == phase[o] = "queued"

\* It is its turn on every one of its keys.
MyTurn(o) ==
    /\ phase[o] = "queued"
    /\ \A p \in before[o] : phase[p] = "done"

Begin(o) ==
    /\ MyTurn(o)
    /\ phase' = [phase EXCEPT ![o] = "running"]
    /\ UNCHANGED <<keysOf, before>>

\* The operation's promise settles, fulfilled or rejected alike.
Settle(o) ==
    /\ phase[o] = "running"
    /\ phase' = [phase EXCEPT ![o] = "done"]
    /\ UNCHANGED <<keysOf, before>>

NextOrder ==
    \E o \in Ops : (\E K \in SUBSET Keys : Admit(o, K)) \/ Begin(o) \/ Settle(o)

SpecOrder == InitOrder /\ [][NextOrder]_orderVars

-----------------------------------------------------------------------------
\* Two operations that share a key never run at the same time.
OneWriterPerKey ==
    \A o, p \in Ops :
        o # p /\ phase[o] = "running" /\ phase[p] = "running" => ~Share(o, p)

\* Why: of two operations that share a key one is before the other, and what
\* has started has nothing unfinished before it.
OrderInv ==
    /\ \A o \in Ops : \A p \in before[o] : phase[o] # "idle" /\ phase[p] # "idle"
    /\ \A o \in Ops : phase[o] \in {"running", "done"} =>
          \A p \in before[o] : phase[p] = "done"
    /\ \A o, p \in Ops : o # p /\ phase[o] # "idle" /\ phase[p] # "idle" /\ Share(o, p) =>
          o \in before[p] \/ p \in before[o]
=============================================================================
