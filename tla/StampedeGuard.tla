---------------------------- MODULE StampedeGuard ----------------------------
(***************************************************************************)
(* StampedeGuard (src/stampede): concurrent calls of execute(key, task)    *)
(* share one task per key.  An entry of the inFlight map is named by the   *)
(* call that created it, which is also the name of its task.               *)
(*                                                                         *)
(* A task that is too slow is detached: its callers give up, the key may   *)
(* be tried again, and the task goes on, still counted in activeTasks.     *)
(*                                                                         *)
(* settleEntry is the first reaction registered on the task's promise and  *)
(* timers do not fire before all reactions have run, so the end of a task  *)
(* and its settleEntry are one step and a settled task times nobody out.   *)
(***************************************************************************)
EXTENDS CacheKeys, Naturals, FiniteSets

CONSTANTS
    Callers,        \* the calls of execute, each made at most once
    NoEntry,        \* the key is not in the map
    MaxInFlight,    \* maxInFlight
    HasTimeout      \* entryTimeoutMs is configured

ASSUME CallersAssumption == IsFiniteSet(Callers) /\ NoEntry \notin Callers
ASSUME MaxInFlightAssumption == MaxInFlight \in Nat
ASSUME HasTimeoutAssumption == HasTimeout \in BOOLEAN

VARIABLES
    caller,         \* caller[c], see CallerStates
    keyOf,          \* the key c asked for
    entry,          \* the entry c waits for
    references,     \* references, settled, timedOut: the fields of entry t
    settled,
    timedOut,
    inFlight,       \* key -> entry
    activeTasks

vars == <<caller, keyOf, entry, references, settled, timedOut, inFlight, activeTasks>>

\* "leaving": timed out, but not yet in the finally block.
CallerStates == {"new", "waiting", "leaving", "gone", "refused"}

TypeOK ==
    /\ caller \in [Callers -> CallerStates]
    /\ keyOf \in [Callers -> Keys]
    /\ entry \in [Callers -> Callers \cup {NoEntry}]
    /\ references \in [Callers -> Nat]
    /\ settled \in [Callers -> BOOLEAN]
    /\ timedOut \in [Callers -> BOOLEAN]
    /\ inFlight \in [Keys -> Callers \cup {NoEntry}]
    /\ activeTasks \in Nat

Init ==
    /\ caller = [c \in Callers |-> "new"]
    /\ keyOf \in [Callers -> Keys]
    /\ entry = [c \in Callers |-> NoEntry]
    /\ references = [c \in Callers |-> 0]
    /\ settled = [c \in Callers |-> FALSE]
    /\ timedOut = [c \in Callers |-> FALSE]
    /\ inFlight = [k \in Keys |-> NoEntry]
    /\ activeTasks = 0

-----------------------------------------------------------------------------
IsTask(t) == entry[t] = t

\* Callers whose reference on entry t has not been given back.
Holders(t) == {c \in Callers : entry[c] = t /\ caller[c] \in {"waiting", "leaving"}}

\* execute, the key is in flight: one more reference to its entry.
Join(c) ==
    LET t == inFlight[keyOf[c]]
    IN  /\ caller[c] = "new"
        /\ t # NoEntry
        /\ caller' = [caller EXCEPT ![c] = "waiting"]
        /\ entry' = [entry EXCEPT ![c] = t]
        /\ references' = [references EXCEPT ![t] = @ + 1]
        /\ UNCHANGED <<keyOf, settled, timedOut, inFlight, activeTasks>>

\* execute at the limit: the call throws.
Refuse(c) ==
    /\ caller[c] = "new"
    /\ inFlight[keyOf[c]] = NoEntry
    /\ activeTasks >= MaxInFlight
    /\ caller' = [caller EXCEPT ![c] = "refused"]
    /\ UNCHANGED <<keyOf, entry, references, settled, timedOut, inFlight, activeTasks>>

\* execute starts the caller's task.
StartTask(c) ==
    /\ caller[c] = "new"
    /\ inFlight[keyOf[c]] = NoEntry
    /\ activeTasks < MaxInFlight
    /\ caller' = [caller EXCEPT ![c] = "waiting"]
    /\ entry' = [entry EXCEPT ![c] = c]
    /\ references' = [references EXCEPT ![c] = 1]
    /\ inFlight' = [inFlight EXCEPT ![keyOf[c]] = c]
    /\ activeTasks' = activeTasks + 1
    /\ UNCHANGED <<keyOf, settled, timedOut>>

Execute(c) == Join(c) \/ Refuse(c) \/ StartTask(c)

\* The task ends, with a value or an error: settleEntry.
SettleEntry(t) ==
    /\ IsTask(t) /\ ~settled[t]
    /\ settled' = [settled EXCEPT ![t] = TRUE]
    /\ activeTasks' = activeTasks - 1
    /\ inFlight' = [inFlight EXCEPT ![keyOf[t]] =
                      IF references[t] = 0 /\ @ = t THEN NoEntry ELSE @]
    /\ UNCHANGED <<caller, keyOf, entry, references, timedOut>>

\* releaseTimedOut(k), for a key in flight.
ReleaseTimedOut(k) ==
    /\ inFlight[k] # NoEntry
    /\ ~timedOut[inFlight[k]]
    /\ timedOut' = [timedOut EXCEPT ![inFlight[k]] = TRUE]
    /\ inFlight' = [inFlight EXCEPT ![k] = NoEntry]

\* This caller is the first one of the current entry to run into its timeout.
Detaches(c) == inFlight[keyOf[c]] = entry[c]

\* Mutant: a detached task is not counted any more.
TimeOutUncounts(c) ==
    /\ HasTimeout
    /\ caller[c] = "waiting" /\ ~settled[entry[c]]
    /\ caller' = [caller EXCEPT ![c] = "leaving"]
    /\ IF Detaches(c) THEN ReleaseTimedOut(keyOf[c]) /\ activeTasks' = activeTasks - 1
       ELSE UNCHANGED <<timedOut, inFlight, activeTasks>>
    /\ UNCHANGED <<keyOf, entry, references, settled>>

\* Mutant: only the caller that detaches the task is told.
TimeOutOnce(c) ==
    /\ HasTimeout
    /\ caller[c] = "waiting" /\ ~settled[entry[c]]
    /\ caller' = [caller EXCEPT ![c] = "leaving"]
    /\ Detaches(c) /\ ReleaseTimedOut(keyOf[c])
    /\ UNCHANGED <<keyOf, entry, references, settled, activeTasks>>

\* The timer of withTimeout.
TimeOut(c) ==
    /\ HasTimeout
    /\ caller[c] = "waiting" /\ ~settled[entry[c]]
    /\ caller' = [caller EXCEPT ![c] = "leaving"]
    /\ IF Detaches(c) THEN ReleaseTimedOut(keyOf[c]) ELSE UNCHANGED <<timedOut, inFlight>>
    /\ UNCHANGED <<keyOf, entry, references, settled, activeTasks>>

\* Mutant: the key is removed whatever entry the map holds by now.
ReleaseAnyEntry(c) ==
    LET t == entry[c]
    IN  /\ caller[c] = "leaving" \/ (caller[c] = "waiting" /\ settled[t])
        /\ caller' = [caller EXCEPT ![c] = "gone"]
        /\ references' = [references EXCEPT ![t] = @ - 1]
        /\ inFlight' = [inFlight EXCEPT ![keyOf[c]] =
                          IF references'[t] = 0 /\ settled[t] THEN NoEntry ELSE @]
        /\ UNCHANGED <<keyOf, entry, settled, timedOut, activeTasks>>

\* Mutant: the entry is left to settleEntry.
ReleaseKeepsEntry(c) ==
    LET t == entry[c]
    IN  /\ caller[c] = "leaving" \/ (caller[c] = "waiting" /\ settled[t])
        /\ caller' = [caller EXCEPT ![c] = "gone"]
        /\ references' = [references EXCEPT ![t] = @ - 1]
        /\ UNCHANGED <<keyOf, entry, settled, timedOut, inFlight, activeTasks>>

\* The finally block of execute: releaseEntry.
ReleaseEntry(c) ==
    LET t == entry[c]
    IN  /\ caller[c] = "leaving" \/ (caller[c] = "waiting" /\ settled[t])
        /\ caller' = [caller EXCEPT ![c] = "gone"]
        /\ references' = [references EXCEPT ![t] = @ - 1]
        /\ inFlight' = [inFlight EXCEPT ![keyOf[c]] =
                          IF @ = t /\ references'[t] = 0 /\ settled[t] THEN NoEntry ELSE @]
        /\ UNCHANGED <<keyOf, entry, settled, timedOut, activeTasks>>

\* releaseTimedOut is public.
Detach(k) ==
    /\ ReleaseTimedOut(k)
    /\ UNCHANGED <<caller, keyOf, entry, references, settled, activeTasks>>

\* Every call has been answered; the process idles.
Idle ==
    /\ \A c \in Callers : caller[c] \in {"gone", "refused"}
    /\ UNCHANGED vars

Next ==
    \/ \E c \in Callers : Execute(c) \/ SettleEntry(c) \/ TimeOut(c) \/ ReleaseEntry(c)
    \/ \E k \in Keys : Detach(k)
    \/ Idle

Spec == Init /\ [][Next]_vars

\* Timers fire and reactions run; nothing is assumed of the tasks.
FairSpec == Spec /\ \A c \in Callers : WF_vars(TimeOut(c)) /\ WF_vars(ReleaseEntry(c))

-----------------------------------------------------------------------------
Unsettled == {t \in Callers : IsTask(t) /\ ~settled[t]}

\* Detached tasks stay counted: the counter is the number of tasks that go on,
\* and the limit bounds that number, not just the keys in the map.
ActiveTasksBounded ==
    /\ activeTasks = Cardinality(Unsettled)
    /\ activeTasks <= MaxInFlight

\* Deduplication: of two tasks that go on for the same key one was detached.
OneTaskPerKey ==
    \A s, t \in Unsettled : s # t /\ keyOf[s] = keyOf[t] => timedOut[s] \/ timedOut[t]

\* The map leaks nothing: an entry in it is held by a caller, whose finally
\* block is still to come, and is the entry of that key.
NothingLeaks ==
    \A k \in Keys : inFlight[k] # NoEntry =>
        /\ Holders(inFlight[k]) # {}
        /\ keyOf[inFlight[k]] = k

\* With a timeout every caller gets an answer, even if its task hangs.
EveryCallerReturns == \A c \in Callers : caller[c] = "waiting" ~> caller[c] = "gone"

-----------------------------------------------------------------------------
\* The parts of the inductive invariant.  The entry's count is its holders,
ReferencesMatch ==
    \A t \in Callers : references[t] = Cardinality(Holders(t))

\* callers wait for entries that were created, for the key they asked for,
EntriesAreTasks ==
    \A c \in Callers :
        /\ entry[c] # NoEntry => IsTask(entry[c]) /\ keyOf[entry[c]] = keyOf[c]
        /\ caller[c] \in {"waiting", "leaving"} => entry[c] # NoEntry
        /\ caller[c] = "new" => entry[c] = NoEntry
        /\ settled[c] \/ timedOut[c] => IsTask(c)

\* a caller gives up only what was detached, by itself or by another one,
LeaversDetached == \A c \in Callers : caller[c] = "leaving" => timedOut[entry[c]]

\* an entry in the map is a task that was not detached and is held, and a task
\* that goes on is in the map unless it was detached.
MapMatchesTasks ==
    /\ \A k \in Keys : inFlight[k] # NoEntry =>
          /\ IsTask(inFlight[k]) /\ ~timedOut[inFlight[k]]
          /\ keyOf[inFlight[k]] = k
          /\ \E c \in Callers : c \in Holders(inFlight[k])
    /\ \A t \in Unsettled : ~timedOut[t] => inFlight[keyOf[t]] = t
=============================================================================
