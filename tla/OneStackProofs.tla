--------------------------- MODULE OneStackProofs ---------------------------
(***************************************************************************)
(* Of the components of a single stack: StampedeGuard and FetchTasks for   *)
(* any number of callers and keys, any limit and any table of tokens,      *)
(* Entries for any TTLs and windows, and Generations for any keys,         *)
(* generations and limits of a cleanup.                                    *)
(***************************************************************************)
EXTENDS MCStoredData, KeyEpochsLemmas, FiniteSetTheorems, SequenceTheorems, TLAPS

(***************************************************************************)
(* StampedeGuard: at most one task per key not detached, an exact count of *)
(* the tasks that go on, and no entry left in the map.                     *)
(*                                                                         *)
(* releaseEntry and settleEntry recognise the entry of the map by identity *)
(* and by a reference count.  What makes this safe is that a caller gives  *)
(* up only entries that are out of the map for good (LeaversDetached), and *)
(* that the count is the number of callers that are still to come.         *)
(***************************************************************************)
CountExact == activeTasks = Cardinality(Unsettled) /\ activeTasks <= MaxInFlight

GuardInv ==
    /\ TypeOK
    /\ ReferencesMatch
    /\ EntriesAreTasks
    /\ LeaversDetached
    /\ MapMatchesTasks
    /\ CountExact

LEMMA FiniteParts ==
    /\ IsFiniteSet(Unsettled) /\ Cardinality(Unsettled) \in Nat
    /\ \A t : IsFiniteSet(Holders(t)) /\ Cardinality(Holders(t)) \in Nat
  <1>1. Unsettled \in SUBSET Callers /\ \A t : Holders(t) \in SUBSET Callers
    BY DEF Unsettled, Holders
  <1>2. ASSUME NEW S \in SUBSET Callers PROVE IsFiniteSet(S) /\ Cardinality(S) \in Nat
    BY CallersAssumption, FS_Subset, FS_CardinalityType
  <1> QED BY <1>1, <1>2

LEMMA InitInv == Init => GuardInv
  <1> SUFFICES ASSUME Init PROVE GuardInv
    OBVIOUS
  <1>1. TypeOK
    BY DEF Init, TypeOK, CallerStates
  <1>2. Unsettled = {} /\ \A t \in Callers : Holders(t) = {}
    BY CallersAssumption DEF Init, Unsettled, Holders, IsTask
  <1>3. ReferencesMatch /\ CountExact
    BY <1>2, FS_EmptySet, MaxInFlightAssumption DEF Init, ReferencesMatch, CountExact
  <1>4. EntriesAreTasks /\ LeaversDetached /\ MapMatchesTasks
    BY <1>2 DEF Init, EntriesAreTasks, LeaversDetached, MapMatchesTasks
  <1> QED BY <1>1, <1>3, <1>4 DEF GuardInv

\* One caller more, or one less, among the holders of one entry.
LEMMA ReferencesAfter ==
    ASSUME GuardInv, NEW t \in Callers, NEW c \in Callers,
           \A u \in Callers : u # t => Holders(u)' = Holders(u) /\ references'[u] = references[u],
           \/ /\ c \notin Holders(t) /\ Holders(t)' = Holders(t) \cup {c}
              /\ references'[t] = references[t] + 1
           \/ /\ c \in Holders(t) /\ Holders(t)' = Holders(t) \ {c}
              /\ references'[t] = references[t] - 1
    PROVE  ReferencesMatch'
  <1>1. references'[t] = Cardinality(Holders(t)')
    BY FiniteParts, FS_AddElement, FS_RemoveElement DEF GuardInv, ReferencesMatch
  <1> QED BY <1>1 DEF GuardInv, ReferencesMatch

LEMMA JoinInv == ASSUME GuardInv, NEW c \in Callers, Join(c) PROVE GuardInv'
  <1>2. TypeOK /\ EntriesAreTasks /\ LeaversDetached /\ MapMatchesTasks
    BY DEF GuardInv
  <1>0. PICK t \in Callers : t = inFlight[keyOf[c]]
    BY <1>2 DEF Join, TypeOK
  <1>1. /\ caller[c] = "new" /\ t # NoEntry
        /\ caller' = [caller EXCEPT ![c] = "waiting"]
        /\ entry' = [entry EXCEPT ![c] = t]
        /\ references' = [references EXCEPT ![t] = @ + 1]
        /\ UNCHANGED <<keyOf, settled, timedOut, inFlight, activeTasks>>
    BY <1>0 DEF Join
  <1>3. /\ t \in Callers /\ keyOf[c] \in Keys /\ entry[t] = t /\ keyOf[t] = keyOf[c]
        /\ t # c /\ entry[c] = NoEntry /\ c # NoEntry
    BY <1>0, <1>1, <1>2, CallersAssumption
       DEF TypeOK, MapMatchesTasks, IsTask, EntriesAreTasks
  <1>4. /\ keyOf' = keyOf /\ settled' = settled /\ timedOut' = timedOut /\ inFlight' = inFlight
        /\ caller'[c] = "waiting" /\ entry'[c] = t
        /\ \A u \in Callers : u # c => caller'[u] = caller[u] /\ entry'[u] = entry[u]
    BY <1>1, <1>2 DEF TypeOK
  <1>5. TypeOK'
    BY <1>1, <1>2, <1>3 DEF TypeOK, CallerStates
  <1>6. ReferencesMatch'
    <2>1. /\ c \notin Holders(t) /\ Holders(t)' = Holders(t) \cup {c}
          /\ \A u \in Callers : u # t => Holders(u)' = Holders(u)
      BY <1>1, <1>3, <1>4 DEF Holders
    <2>2. /\ references'[t] = references[t] + 1
          /\ \A u \in Callers : u # t => references'[u] = references[u]
      BY <1>1, <1>2, <1>3 DEF TypeOK
    <2> QED BY <1>3, <2>1, <2>2, ReferencesAfter
  <1>7. EntriesAreTasks'
    <2>1. /\ ~settled[c] /\ ~timedOut[c]
          /\ \A u \in Callers : entry[u] # c
      BY <1>2, <1>3 DEF TypeOK, EntriesAreTasks, IsTask
    <2>2. \A u \in Callers : u # c => entry'[u] \in Callers \cup {NoEntry}
      BY <1>2, <1>4 DEF TypeOK
    <2>3. ASSUME NEW u \in Callers, u # c
          PROVE  /\ entry'[u] # NoEntry => entry'[entry'[u]] = entry'[u] /\ keyOf[entry'[u]] = keyOf[u]
                 /\ caller'[u] \in {"waiting", "leaving"} => entry'[u] # NoEntry
                 /\ caller'[u] = "new" => entry'[u] = NoEntry
                 /\ settled[u] \/ timedOut[u] => entry'[u] = u
      <3>1. entry'[u] = entry[u] /\ caller'[u] = caller[u]
        BY <1>4, <2>3
      <3>2. entry[u] # NoEntry => entry[u] \in Callers /\ entry'[entry[u]] = entry[entry[u]]
        BY <1>4, <2>1, <2>2, <3>1, CallersAssumption
      <3> QED BY <1>2, <2>3, <3>1, <3>2 DEF EntriesAreTasks, IsTask
    <2>4. /\ entry'[entry'[c]] = entry'[c] /\ keyOf[entry'[c]] = keyOf[c]
          /\ entry'[c] # NoEntry /\ caller'[c] # "new"
      BY <1>1, <1>3, <1>4
    <2>5. \A u \in Callers :
            /\ entry'[u] # NoEntry => entry'[entry'[u]] = entry'[u] /\ keyOf[entry'[u]] = keyOf[u]
            /\ caller'[u] \in {"waiting", "leaving"} => entry'[u] # NoEntry
            /\ caller'[u] = "new" => entry'[u] = NoEntry
            /\ settled[u] \/ timedOut[u] => entry'[u] = u
      BY <2>1, <2>3, <2>4
    <2> QED BY <1>4, <2>5 DEF EntriesAreTasks, IsTask
  <1>8. LeaversDetached'
    BY <1>2, <1>4 DEF TypeOK, LeaversDetached
  <1>9. Unsettled' = Unsettled
    BY <1>3, <1>4 DEF Unsettled, IsTask
  <1>10. MapMatchesTasks'
    <2>1. \A u \in Callers : caller[u] \in {"waiting", "leaving"} => u # c
      BY <1>1
    <2>2. ASSUME NEW k \in Keys, inFlight[k] # NoEntry
          PROVE  /\ inFlight[k] \in Callers /\ entry'[inFlight[k]] = inFlight[k]
                 /\ ~timedOut[inFlight[k]] /\ keyOf[inFlight[k]] = k
                 /\ \E u \in Callers : entry'[u] = inFlight[k]
                                       /\ caller'[u] \in {"waiting", "leaving"}
      BY <1>2, <1>3, <1>4, <2>1, <2>2 DEF TypeOK, MapMatchesTasks, IsTask, Holders
    <2> QED BY <1>2, <1>4, <1>9, <2>2 DEF MapMatchesTasks, IsTask, Holders
  <1>11. CountExact'
    BY <1>1, <1>9 DEF GuardInv, CountExact
  <1> QED BY <1>5, <1>6, <1>7, <1>8, <1>10, <1>11 DEF GuardInv

LEMMA RefuseInv == ASSUME GuardInv, NEW c \in Callers, Refuse(c) PROVE GuardInv'
  <1>1. /\ caller[c] = "new" /\ caller' = [caller EXCEPT ![c] = "refused"]
        /\ UNCHANGED <<keyOf, entry, references, settled, timedOut, inFlight, activeTasks>>
    BY DEF Refuse
  <1>2. TypeOK /\ EntriesAreTasks /\ LeaversDetached /\ MapMatchesTasks
    BY DEF GuardInv
  <1>3. \A u : Holders(u)' = Holders(u)
    BY <1>1, <1>2 DEF TypeOK, Holders
  <1>4. Unsettled' = Unsettled
    BY <1>1 DEF Unsettled, IsTask
  <1>5. TypeOK' /\ EntriesAreTasks' /\ LeaversDetached'
    BY <1>1, <1>2, CallersAssumption
       DEF TypeOK, CallerStates, EntriesAreTasks, LeaversDetached, IsTask
  <1>6. MapMatchesTasks'
    <2>1. \A u \in Callers : caller[u] \in {"waiting", "leaving"} => caller'[u] = caller[u]
      BY <1>1, <1>2 DEF TypeOK
    <2> QED BY <1>1, <1>2, <1>4, <2>1 DEF MapMatchesTasks, IsTask, Holders
  <1>7. ReferencesMatch' /\ CountExact'
    BY <1>1, <1>3, <1>4 DEF GuardInv, ReferencesMatch, CountExact
  <1> QED BY <1>5, <1>6, <1>7 DEF GuardInv

LEMMA StartTaskInv == ASSUME GuardInv, NEW c \in Callers, StartTask(c) PROVE GuardInv'
  <1>1. /\ caller[c] = "new" /\ inFlight[keyOf[c]] = NoEntry /\ activeTasks < MaxInFlight
        /\ caller' = [caller EXCEPT ![c] = "waiting"]
        /\ entry' = [entry EXCEPT ![c] = c]
        /\ references' = [references EXCEPT ![c] = 1]
        /\ inFlight' = [inFlight EXCEPT ![keyOf[c]] = c]
        /\ activeTasks' = activeTasks + 1
        /\ UNCHANGED <<keyOf, settled, timedOut>>
    BY DEF StartTask
  <1>2. TypeOK /\ EntriesAreTasks /\ LeaversDetached /\ MapMatchesTasks
    BY DEF GuardInv
  <1>3. /\ c # NoEntry /\ keyOf[c] \in Keys /\ entry[c] = NoEntry
        /\ ~settled[c] /\ ~timedOut[c]
        /\ \A u \in Callers : entry[u] # c
    BY <1>1, <1>2, CallersAssumption DEF TypeOK, EntriesAreTasks, IsTask
  <1>4. /\ keyOf' = keyOf /\ settled' = settled /\ timedOut' = timedOut
        /\ caller'[c] = "waiting" /\ entry'[c] = c /\ inFlight'[keyOf[c]] = c
        /\ \A u \in Callers : u # c => caller'[u] = caller[u] /\ entry'[u] = entry[u]
        /\ \A k \in Keys : k # keyOf[c] => inFlight'[k] = inFlight[k]
    BY <1>1, <1>2, <1>3 DEF TypeOK
  <1>5. TypeOK'
    BY <1>1, <1>2, <1>3 DEF TypeOK, CallerStates
  <1>6. ReferencesMatch'
    <2>1. references'[c] = 1 /\ \A u \in Callers : u # c => references'[u] = references[u]
      BY <1>1, <1>2 DEF TypeOK
    <2>2. Holders(c)' = {c}
      BY <1>3, <1>4 DEF Holders
    <2>3. \A u \in Callers : u # c => Holders(u)' = Holders(u)
      BY <1>1, <1>3, <1>4 DEF Holders
    <2> QED BY <2>1, <2>2, <2>3, FS_Singleton DEF GuardInv, ReferencesMatch
  <1>7. EntriesAreTasks'
    BY <1>2, <1>3, <1>4 DEF TypeOK, EntriesAreTasks, IsTask
  <1>8. LeaversDetached'
    BY <1>2, <1>4 DEF TypeOK, LeaversDetached
  <1>9. c \notin Unsettled /\ Unsettled' = Unsettled \cup {c}
    BY <1>3, <1>4 DEF Unsettled, IsTask
  <1>10. MapMatchesTasks'
    <2>1. ASSUME NEW k \in Keys, inFlight'[k] # NoEntry
          PROVE  /\ inFlight'[k] \in Callers /\ entry'[inFlight'[k]] = inFlight'[k]
                 /\ ~timedOut[inFlight'[k]] /\ keyOf[inFlight'[k]] = k
                 /\ \E u \in Callers : entry'[u] = inFlight'[k]
                                       /\ caller'[u] \in {"waiting", "leaving"}
      <3>1. CASE k = keyOf[c]
        BY <1>3, <1>4, <3>1
      <3>2. CASE k # keyOf[c]
        <4>1. inFlight'[k] = inFlight[k] /\ inFlight[k] \in Callers /\ inFlight[k] # c
          BY <1>2, <1>3, <1>4, <2>1, <3>2 DEF TypeOK, MapMatchesTasks, IsTask
        <4>2. \A u \in Callers : caller[u] \in {"waiting", "leaving"} => u # c
          BY <1>1
        <4> QED BY <1>2, <1>4, <2>1, <4>1, <4>2 DEF MapMatchesTasks, IsTask, Holders
      <3> QED BY <3>1, <3>2
    <2>2. ASSUME NEW u \in Unsettled', ~timedOut[u] PROVE inFlight'[keyOf[u]] = u
      <3>1. CASE u = c
        BY <1>4, <3>1
      <3>2. CASE u # c
        <4>1. u \in Unsettled /\ u \in Callers /\ keyOf[u] \in Keys
          BY <1>2, <1>9, <3>2 DEF Unsettled, TypeOK
        <4>2. inFlight[keyOf[u]] = u
          BY <1>2, <2>2, <4>1 DEF MapMatchesTasks
        <4> QED BY <1>1, <1>4, <4>1, <4>2, CallersAssumption
      <3> QED BY <3>1, <3>2
    <2> QED BY <1>4, <2>1, <2>2 DEF MapMatchesTasks, IsTask, Holders
  <1>11. CountExact'
    <2>1. activeTasks \in Nat /\ Cardinality(Unsettled') = Cardinality(Unsettled) + 1
      BY <1>2, <1>9, FiniteParts, FS_AddElement DEF TypeOK
    <2> QED BY <1>1, <2>1, MaxInFlightAssumption DEF GuardInv, CountExact
  <1> QED BY <1>5, <1>6, <1>7, <1>8, <1>10, <1>11 DEF GuardInv

LEMMA SettleEntryInv == ASSUME GuardInv, NEW t \in Callers, SettleEntry(t) PROVE GuardInv'
  <1>1. /\ entry[t] = t /\ ~settled[t]
        /\ settled' = [settled EXCEPT ![t] = TRUE] /\ activeTasks' = activeTasks - 1
        /\ inFlight' = [inFlight EXCEPT ![keyOf[t]] =
                          IF references[t] = 0 /\ @ = t THEN NoEntry ELSE @]
        /\ UNCHANGED <<caller, keyOf, entry, references, timedOut>>
    BY DEF SettleEntry, IsTask
  <1>2. TypeOK /\ EntriesAreTasks /\ LeaversDetached /\ MapMatchesTasks
    BY DEF GuardInv
  <1>3. /\ settled'[t] /\ \A u \in Callers : u # t => settled'[u] = settled[u]
        /\ \A k \in Keys : inFlight'[k] = inFlight[k] \/ (inFlight[k] = t /\ inFlight'[k] = NoEntry)
    BY <1>1, <1>2 DEF TypeOK
  <1>4. t \in Unsettled /\ Unsettled' = Unsettled \ {t}
    BY <1>1, <1>3 DEF Unsettled, IsTask
  <1>5. Cardinality(Unsettled') = Cardinality(Unsettled) - 1 /\ Cardinality(Unsettled') \in Nat
    BY <1>4, FiniteParts, FS_RemoveElement, FS_CardinalityType
  <1>6. CountExact' /\ activeTasks' \in Nat
    BY <1>1, <1>2, <1>5, MaxInFlightAssumption DEF GuardInv, CountExact, TypeOK
  <1>7. TypeOK'
    BY <1>1, <1>2, <1>6 DEF TypeOK
  <1>8. ReferencesMatch'
    BY <1>1 DEF GuardInv, ReferencesMatch, Holders
  <1>9. EntriesAreTasks'
    BY <1>1, <1>2, <1>3 DEF EntriesAreTasks, IsTask
  <1>10. LeaversDetached'
    BY <1>1, <1>2 DEF LeaversDetached
  <1>11. MapMatchesTasks'
    <2>1. ASSUME NEW u \in Unsettled', ~timedOut[u] PROVE inFlight'[keyOf[u]] = u
      <3>1. u \in Unsettled /\ u # t /\ keyOf[u] \in Keys
        BY <1>2, <1>4 DEF Unsettled, TypeOK
      <3> QED BY <1>2, <1>3, <2>1, <3>1 DEF MapMatchesTasks
    <2> QED BY <1>1, <1>2, <1>3, <2>1 DEF MapMatchesTasks, IsTask, Holders
  <1> QED BY <1>6, <1>7, <1>8, <1>9, <1>10, <1>11 DEF GuardInv

\* An entry is detached; callers that wait for it may give up with it.
LEMMA ReleaseTimedOutInv ==
    ASSUME GuardInv, NEW k \in Keys, ReleaseTimedOut(k),
           UNCHANGED <<keyOf, entry, references, settled, activeTasks>>,
           caller' \in [Callers -> CallerStates],
           \A u \in Callers : caller'[u] = caller[u]
              \/ (caller[u] = "waiting" /\ caller'[u] = "leaving" /\ entry[u] = inFlight[k])
    PROVE  GuardInv'
  <1>1. TypeOK /\ EntriesAreTasks /\ LeaversDetached /\ MapMatchesTasks
    BY DEF GuardInv
  <1>2. PICK t \in Callers : t = inFlight[k] /\ t # NoEntry
    BY <1>1 DEF ReleaseTimedOut, TypeOK
  <1>3. /\ timedOut'[t] /\ \A u \in Callers : u # t => timedOut'[u] = timedOut[u]
        /\ inFlight'[k] = NoEntry /\ \A j \in Keys : j # k => inFlight'[j] = inFlight[j]
        /\ keyOf[t] = k /\ entry[t] = t
    BY <1>1, <1>2 DEF ReleaseTimedOut, TypeOK, MapMatchesTasks, IsTask
  <1>4. TypeOK'
    BY <1>1, <1>2 DEF TypeOK, ReleaseTimedOut
  <1>5. \A u \in Callers : caller'[u] \in {"waiting", "leaving"} <=> caller[u] \in {"waiting", "leaving"}
    OBVIOUS
  <1>6. ReferencesMatch' /\ CountExact'
    <2>1. \A u : Holders(u)' = Holders(u)
      BY <1>5 DEF Holders
    <2> QED BY <2>1 DEF GuardInv, ReferencesMatch, CountExact, Unsettled, IsTask
  <1>7. EntriesAreTasks'
    BY <1>1, <1>3, <1>5 DEF EntriesAreTasks, IsTask
  <1>8. LeaversDetached'
    <2>1. ASSUME NEW u \in Callers, caller'[u] = "leaving" PROVE timedOut'[entry[u]]
      <3>1. CASE entry[u] = t
        BY <1>3, <3>1
      <3>2. CASE entry[u] # t
        <4>1. caller[u] = "leaving" /\ entry[u] # NoEntry /\ entry[u] \in Callers
          BY <1>1, <1>2, <2>1, <3>2 DEF TypeOK, EntriesAreTasks
        <4> QED BY <1>1, <1>3, <3>2, <4>1 DEF LeaversDetached
      <3> QED BY <3>1, <3>2
    <2> QED BY <2>1 DEF LeaversDetached
  <1>9. MapMatchesTasks'
    <2>1. ASSUME NEW j \in Keys, inFlight'[j] # NoEntry
          PROVE  /\ inFlight'[j] \in Callers /\ entry[inFlight'[j]] = inFlight'[j]
                 /\ ~timedOut'[inFlight'[j]] /\ keyOf[inFlight'[j]] = j
                 /\ \E u \in Callers : entry[u] = inFlight'[j]
                                       /\ caller'[u] \in {"waiting", "leaving"}
      <3>1. j # k /\ inFlight'[j] = inFlight[j] /\ inFlight[j] \in Callers
        BY <1>1, <1>3, <2>1 DEF TypeOK
      <3>2. inFlight[j] # t
        BY <1>1, <1>2, <1>3, <3>1 DEF MapMatchesTasks
      <3> QED BY <1>1, <1>3, <1>5, <2>1, <3>1, <3>2 DEF MapMatchesTasks, IsTask, Holders
    <2>2. ASSUME NEW u \in Unsettled, ~timedOut'[u] PROVE inFlight'[keyOf[u]] = u
      <3>1. u \in Callers /\ u # t /\ ~timedOut[u] /\ keyOf[u] \in Keys
        BY <1>1, <1>3, <2>2 DEF Unsettled, TypeOK
      <3>2. inFlight[keyOf[u]] = u
        BY <1>1, <2>2, <3>1 DEF MapMatchesTasks
      <3> QED BY <1>2, <1>3, <3>1, <3>2
    <2>3. Unsettled' = Unsettled
      BY DEF Unsettled, IsTask
    <2> QED BY <2>1, <2>2, <2>3 DEF MapMatchesTasks, IsTask, Holders
  <1> QED BY <1>4, <1>6, <1>7, <1>8, <1>9 DEF GuardInv

LEMMA DetachInv == ASSUME GuardInv, NEW k \in Keys, Detach(k) PROVE GuardInv'
  BY ReleaseTimedOutInv DEF Detach, GuardInv, TypeOK

LEMMA TimeOutInv == ASSUME GuardInv, NEW c \in Callers, TimeOut(c) PROVE GuardInv'
  <1>1. /\ caller[c] = "waiting" /\ ~settled[entry[c]]
        /\ caller' = [caller EXCEPT ![c] = "leaving"]
        /\ UNCHANGED <<keyOf, entry, references, settled, activeTasks>>
    BY DEF TimeOut
  <1>2. TypeOK /\ EntriesAreTasks /\ LeaversDetached /\ MapMatchesTasks
    BY DEF GuardInv
  <1>3. /\ caller' \in [Callers -> CallerStates] /\ caller'[c] = "leaving"
        /\ \A u \in Callers : u # c => caller'[u] = caller[u]
    BY <1>1, <1>2 DEF TypeOK, CallerStates
  <1>4. keyOf[c] \in Keys
    BY <1>2 DEF TypeOK
  <1>5. CASE Detaches(c)
    <2>1. ReleaseTimedOut(keyOf[c])
      BY <1>5 DEF TimeOut
    <2> QED BY <1>1, <1>3, <1>4, <1>5, <2>1, ReleaseTimedOutInv DEF Detaches
  <1>6. CASE ~Detaches(c)
    <2>1. UNCHANGED <<timedOut, inFlight>>
      BY <1>6 DEF TimeOut
    \* The entry this caller gives up was detached before.
    <2>2. timedOut[entry[c]]
      <3>1. /\ entry[c] \in Callers /\ entry[entry[c]] = entry[c]
            /\ keyOf[entry[c]] = keyOf[c]
        BY <1>1, <1>2 DEF TypeOK, EntriesAreTasks, IsTask
      <3>2. entry[c] \in Unsettled
        BY <1>1, <3>1 DEF Unsettled, IsTask
      <3> QED BY <1>2, <1>6, <3>1, <3>2 DEF MapMatchesTasks, Detaches
    <2>3. \A u \in Callers : caller'[u] \in {"waiting", "leaving"} <=> caller[u] \in {"waiting", "leaving"}
      BY <1>1, <1>3
    <2>4. \A u : Holders(u)' = Holders(u)
      BY <1>1, <2>3 DEF Holders
    <2>5. TypeOK' /\ ReferencesMatch' /\ CountExact'
      BY <1>1, <1>2, <1>3, <2>1, <2>4
         DEF GuardInv, TypeOK, ReferencesMatch, CountExact, Unsettled, IsTask
    <2>6. EntriesAreTasks' /\ LeaversDetached'
      BY <1>1, <1>2, <1>3, <2>1, <2>2, <2>3 DEF EntriesAreTasks, LeaversDetached, IsTask
    <2>7. MapMatchesTasks'
      BY <1>1, <1>2, <2>1, <2>3 DEF MapMatchesTasks, Unsettled, IsTask, Holders
    <2> QED BY <2>5, <2>6, <2>7 DEF GuardInv
  <1> QED BY <1>5, <1>6

LEMMA ReleaseEntryInv == ASSUME GuardInv, NEW c \in Callers, ReleaseEntry(c) PROVE GuardInv'
  <1>1. TypeOK /\ EntriesAreTasks /\ LeaversDetached /\ MapMatchesTasks
    BY DEF GuardInv
  <1>2. caller[c] \in {"waiting", "leaving"}
    BY DEF ReleaseEntry
  <1>3. PICK t \in Callers : t = entry[c] /\ entry[t] = t /\ keyOf[t] = keyOf[c]
    BY <1>1, <1>2 DEF TypeOK, EntriesAreTasks, IsTask
  <1>4. /\ caller[c] = "leaving" \/ settled[t]
        /\ caller' = [caller EXCEPT ![c] = "gone"]
        /\ references' = [references EXCEPT ![t] = @ - 1]
        /\ inFlight' = [inFlight EXCEPT ![keyOf[c]] =
                          IF @ = t /\ references'[t] = 0 /\ settled[t] THEN NoEntry ELSE @]
        /\ UNCHANGED <<keyOf, entry, settled, timedOut, activeTasks>>
    BY <1>3 DEF ReleaseEntry
  <1>5. /\ caller'[c] = "gone" /\ \A u \in Callers : u # c => caller'[u] = caller[u]
        /\ \A k \in Keys : \/ inFlight'[k] = inFlight[k]
                           \/ inFlight[k] = t /\ settled[t] /\ inFlight'[k] = NoEntry
        /\ keyOf[c] \in Keys
    BY <1>1, <1>4 DEF TypeOK
  <1>6. /\ c \in Holders(t) /\ Holders(t)' = Holders(t) \ {c}
        /\ \A u \in Callers : u # t => Holders(u)' = Holders(u)
    BY <1>2, <1>3, <1>4, <1>5 DEF Holders
  <1>7. references'[t] = references[t] - 1 /\ \A u \in Callers : u # t => references'[u] = references[u]
    BY <1>1, <1>4 DEF TypeOK
  <1>8. ReferencesMatch'
    BY <1>6, <1>7, ReferencesAfter
  <1>9. TypeOK'
    <2>1. references'[t] \in Nat
      BY <1>6, <1>8, FiniteParts, FS_RemoveElement, FS_CardinalityType DEF ReferencesMatch
    <2> QED BY <1>1, <1>3, <1>4, <2>1 DEF TypeOK, CallerStates
  <1>10. EntriesAreTasks' /\ LeaversDetached'
    BY <1>1, <1>4, <1>5 DEF EntriesAreTasks, LeaversDetached, IsTask
  <1>11. Unsettled' = Unsettled
    BY <1>4 DEF Unsettled, IsTask
  <1>12. MapMatchesTasks'
    <2>1. ASSUME NEW k \in Keys, inFlight'[k] # NoEntry
          PROVE  \E u \in Callers : entry[u] = inFlight[k] /\ caller'[u] \in {"waiting", "leaving"}
      <3>1. /\ inFlight'[k] = inFlight[k] /\ inFlight[k] \in Callers
            /\ \E u \in Callers : entry[u] = inFlight[k] /\ caller[u] \in {"waiting", "leaving"}
        BY <1>1, <1>5, <2>1 DEF TypeOK, MapMatchesTasks, Holders
      <3>2. CASE inFlight[k] # t
        BY <1>3, <1>5, <3>1, <3>2
      \* A caller that gave up is no holder of an entry in the map, so this one
      \* saw the task settle; its was not the last reference.
      <3>3. CASE inFlight[k] = t
        <4>1. k = keyOf[c] /\ settled[t]
          BY <1>1, <1>3, <1>4, <2>1, <3>1, <3>3 DEF MapMatchesTasks, LeaversDetached
        <4>2. references'[t] # 0
          BY <1>1, <1>4, <1>5, <2>1, <3>1, <3>3, <4>1 DEF TypeOK
        <4>3. Holders(t)' # {}
          BY <1>8, <4>2, FS_EmptySet DEF ReferencesMatch
        <4>4. PICK u \in Callers : u \in Holders(t) /\ u # c
          BY <1>6, <4>3 DEF Holders
        <4> QED BY <1>5, <3>3, <4>4 DEF Holders
      <3> QED BY <3>2, <3>3
    <2>2. ASSUME NEW u \in Unsettled, ~timedOut[u] PROVE inFlight'[keyOf[u]] = u
      <3>1. keyOf[u] \in Keys /\ inFlight[keyOf[u]] = u /\ ~settled[u]
        BY <1>1, <2>2 DEF MapMatchesTasks, Unsettled, TypeOK
      <3> QED BY <1>5, <3>1
    <2>3. \A k \in Keys : inFlight'[k] # NoEntry => inFlight'[k] = inFlight[k]
      BY <1>5
    <2> QED BY <1>1, <1>4, <1>11, <2>1, <2>2, <2>3 DEF MapMatchesTasks, IsTask, Holders
  <1>13. CountExact'
    BY <1>4, <1>11 DEF GuardInv, CountExact
  <1> QED BY <1>8, <1>9, <1>10, <1>12, <1>13 DEF GuardInv

LEMMA NextInv == GuardInv /\ [Next]_vars => GuardInv'
  <1> SUFFICES ASSUME GuardInv, [Next]_vars PROVE GuardInv'
    OBVIOUS
  <1>1. ASSUME NEW c \in Callers, Execute(c) PROVE GuardInv'
    BY <1>1, JoinInv, RefuseInv, StartTaskInv DEF Execute
  <1>2. ASSUME NEW c \in Callers, SettleEntry(c) PROVE GuardInv'
    BY <1>2, SettleEntryInv
  <1>3. ASSUME NEW c \in Callers, TimeOut(c) PROVE GuardInv'
    BY <1>3, TimeOutInv
  <1>4. ASSUME NEW c \in Callers, ReleaseEntry(c) PROVE GuardInv'
    BY <1>4, ReleaseEntryInv
  <1>5. ASSUME NEW k \in Keys, Detach(k) PROVE GuardInv'
    BY <1>5, DetachInv
  <1>6. ASSUME UNCHANGED vars PROVE GuardInv'
    BY <1>6 DEF vars, GuardInv, TypeOK, ReferencesMatch, EntriesAreTasks, LeaversDetached,
                MapMatchesTasks, CountExact, Unsettled, IsTask, Holders
  <1> QED BY <1>1, <1>2, <1>3, <1>4, <1>5, <1>6 DEF Next, Idle

\* The facts of every reachable state the theorems below are read off from.
THEOREM GuardInvariant == Spec => []GuardInv
  BY InitInv, NextInv, PTL DEF Spec

\* activeTasks is the number of tasks that go on, detached ones included, and
\* never exceeds maxInFlight: a task is counted down only when it settles.
THEOREM TasksBounded == Spec => []ActiveTasksBounded
  <1>1. GuardInv => ActiveTasksBounded
    BY DEF GuardInv, CountExact, ActiveTasksBounded
  <1> QED BY <1>1, GuardInvariant, PTL

\* execute deduplicates: two tasks that go on for one key are never both
\* undetached, whatever calls time out, settle and return in between.
THEOREM Deduplicates == Spec => []OneTaskPerKey
  <1>1. GuardInv => OneTaskPerKey
    BY DEF GuardInv, MapMatchesTasks, OneTaskPerKey
  <1> QED BY <1>1, GuardInvariant, PTL

\* The last reaction on an entry removes it from the map: what is left there
\* always has a caller whose finally block is still to come.
THEOREM MapLeaksNothing == Spec => []NothingLeaks
  <1>1. GuardInv => NothingLeaks
    BY DEF GuardInv, MapMatchesTasks, NothingLeaks
  <1> QED BY <1>1, GuardInvariant, PTL

-----------------------------------------------------------------------------
(***************************************************************************)
(* The fences: of the tasks that go on for one key at most one can still   *)
(* store its value.  Every step of FetchTasks is one of the guard or       *)
(* leaves it alone.                                                        *)
(***************************************************************************)
FetchInv ==
    /\ FetchTypeOK /\ GoodTable(epochs)
    /\ GuardInv
    /\ StagesMatch /\ FencesBehind /\ DetachedAreFenced

LEMMA GuardKeeps == ASSUME GuardInv, [FetchNext]_fetchVars PROVE GuardInv'
  <1>1. ASSUME NEW c \in Callers, Capture(c) \/ Hit(c) \/ Invalidate(c) PROVE UNCHANGED vars
    BY <1>1 DEF Capture, Hit, Invalidate
  <1>2. ASSUME NEW c \in Callers, Fetch(c) \/ Settle(c) \/ TimeOutFetch(c) \/ Leave(c)
        PROVE  Next
    BY <1>2 DEF Fetch, Settle, TimeOutFetch, Leave, Next
  <1>3. [Next]_vars
    BY <1>1, <1>2 DEF FetchNext, FetchIdle, fetchVars
  <1> QED BY <1>3, NextInv

\* The facts about the guard that are needed here.
LEMMA GuardFacts ==
    ASSUME GuardInv
    PROVE  /\ TypeOK
           /\ \A c \in Callers : caller[c] = "new" => ~timedOut[c]
           /\ \A k \in Keys : inFlight[k] # NoEntry => inFlight[k] \in Callers /\ keyOf[inFlight[k]] = k
           /\ OneTaskPerKey
  <1>1. TypeOK /\ EntriesAreTasks /\ MapMatchesTasks
    BY DEF GuardInv
  <1>2. \A c \in Callers : caller[c] = "new" => ~timedOut[c]
    BY <1>1, CallersAssumption DEF EntriesAreTasks, IsTask
  <1>3. \A k \in Keys : inFlight[k] # NoEntry => inFlight[k] \in Callers /\ keyOf[inFlight[k]] = k
    BY <1>1 DEF MapMatchesTasks, TypeOK
  <1>4. OneTaskPerKey
    BY <1>1 DEF MapMatchesTasks, OneTaskPerKey
  <1> QED BY <1>1, <1>2, <1>3, <1>4

\* Fences stay behind later epochs and, once outdated, outdated; those of an
\* invalidated key become so.
LEMMA FencesAfter ==
    ASSUME FetchInv, GoodTable(epochs'), \A k \in Keys : LaterFor(k, epochs, epochs'),
           UNCHANGED <<keyOf, fence>>
    PROVE  /\ FencesBehind'
           /\ \A t \in Callers : Outdated(t) => Outdated(t)'
           /\ \A t \in Callers : PastFor(keyOf[t], epochs, epochs') => Outdated(t)'
  <1> SUFFICES ASSUME NEW t \in Callers
               PROVE  /\ NotAhead(fence[t], keyOf[t])'
                      /\ Outdated(t) => Outdated(t)'
                      /\ PastFor(keyOf[t], epochs, epochs') => Outdated(t)'
    BY DEF FencesBehind
  <1>1. PICK f \in Fences, k \in Keys : f = fence[t] /\ k = keyOf[t]
    BY DEF FetchInv, FetchTypeOK, TypeOK
  <1>2. GoodTable(epochs) /\ NotAhead(f, k)
    BY <1>1 DEF FetchInv, FencesBehind
  <1>3. fence'[t] = f /\ keyOf'[t] = k
    BY <1>1
  <1>4. NotAhead(f, k)' /\ (IsWriteOutdated(k, f) => IsWriteOutdated(k, f)')
    BY <1>2, NotAheadStays
  <1>5. ASSUME PastFor(k, epochs, epochs') PROVE IsWriteOutdated(k, f)'
    <2>1. /\ KeyEpochIn(epochs, k) \in Nat /\ KeyEpochIn(epochs', k) \in Nat
          /\ epochs.clear \in Nat /\ epochs'.clear \in Nat /\ f.clear \in Nat /\ f.key \in Nat
      BY <1>2, KeyEpochType DEF GoodTable, IsEpochTable, Fences
    <2> QED BY <1>2, <1>5, <2>1
        DEF NotAhead, Precedes, CurrentFence, CurrentKeyEpoch, PastFor, IsWriteOutdated
  <1> QED BY <1>1, <1>3, <1>4, <1>5 DEF NotAhead, Outdated, IsWriteOutdated

\* bumpKeyEpochs([key]) as a step.
LEMMA BumpOne ==
    ASSUME GoodTable(epochs), NEW k \in Keys, BumpKeyEpochs(<<k>>)
    PROVE  /\ GoodTable(epochs') /\ \A j \in Keys : LaterFor(j, epochs, epochs')
           /\ PastFor(k, epochs, epochs')
  <1> DEFINE ks == <<k>>
  <1>1. ks \in [1..1 -> Keys] /\ DOMAIN ks = 1..1 /\ ks[1] = k
    OBVIOUS
  <1> HIDE DEF ks
  <1>2. ks \in KeyLists(1)
    BY <1>1 DEF KeyLists
  <1>3. 1 <= MaxSafeInteger
    BY MaxSafeIntegerAssumption
  <1>4. BumpKeyEpochs(ks)
    BY DEF ks
  <1> QED BY <1>1, <1>2, <1>3, <1>4, BumpStep

LEMMA InitHolds == ASSUME FetchInit PROVE FetchInv
  <1>1. /\ epochs = InitialEpochs /\ Init
        /\ stage = [c \in Callers |-> "new"]
        /\ fence = [c \in Callers |-> [clear |-> 0, key |-> 0]]
    BY DEF FetchInit, InitEpochs
  <1>2. GuardInv
    BY <1>1, InitInv
  <1>3. /\ TypeOK
        /\ \A c \in Callers : caller[c] = "new" /\ ~timedOut[c]
    BY <1>1, <1>2, GuardFacts DEF Init
  <1> DEFINE e == << >>
  <1>4. DOMAIN e = {} /\ e \in [DOMAIN e -> Nat]
    OBVIOUS
  <1>5. epochs = [clear |-> 0, keys |-> e, next |-> 0, absent |-> 0]
    BY <1>1 DEF InitialEpochs
  <1> HIDE DEF e
  <1>6. GoodTable(epochs) /\ epochs.clear = 0
    BY <1>4, <1>5, MaxSafeIntegerAssumption DEF GoodTable, IsEpochTable
  <1>7. FetchTypeOK
    BY <1>1, <1>3, <1>6 DEF FetchTypeOK, GoodTable, Stages, Fences
  <1>8. FencesBehind
    <2> SUFFICES ASSUME NEW c \in Callers PROVE NotAhead(fence[c], keyOf[c])
      BY DEF FencesBehind
    <2>1. CurrentKeyEpoch(keyOf[c]) \in Nat
      BY <1>3, <1>6, KeyEpochType DEF CurrentKeyEpoch, TypeOK
    <2> QED BY <1>1, <1>6, <2>1 DEF NotAhead, Precedes, CurrentFence
  <1>9. StagesMatch /\ DetachedAreFenced
    BY <1>3 DEF StagesMatch, DetachedAreFenced
  <1> QED BY <1>2, <1>6, <1>7, <1>8, <1>9 DEF FetchInv

\* The steps that leave the epochs and the fences alone.
LEMMA FencesStay ==
    ASSUME FetchInv, UNCHANGED <<epochs, keyOf, fence>>, \A t \in Callers : timedOut'[t] => timedOut[t]
    PROVE  GoodTable(epochs)' /\ FencesBehind' /\ DetachedAreFenced'
  BY DEF FetchInv, GoodTable, IsEpochTable, FencesBehind, DetachedAreFenced, Outdated, IsWriteOutdated,
     CurrentKeyEpoch, KeyEpochIn, NotAhead, Precedes, CurrentFence

\* bumpKeyEpochs([key of c]), by a call or by onEntryTimeout.
LEMMA FencesBumped ==
    ASSUME FetchInv, NEW c \in Callers, BumpKeyEpochs(<<keyOf[c]>>), UNCHANGED <<keyOf, fence>>,
           \A t \in Callers : timedOut'[t] => timedOut[t] \/ keyOf[t] = keyOf[c]
    PROVE  GoodTable(epochs)' /\ FencesBehind' /\ DetachedAreFenced'
  <1>1. PICK k \in Keys : k = keyOf[c]
    BY DEF FetchInv, FetchTypeOK, TypeOK
  <1>2. GoodTable(epochs) /\ BumpKeyEpochs(<<k>>)
    BY <1>1 DEF FetchInv
  <1>3. /\ GoodTable(epochs') /\ \A j \in Keys : LaterFor(j, epochs, epochs')
        /\ PastFor(k, epochs, epochs')
    BY <1>2, BumpOne
  <1>4. /\ FencesBehind'
        /\ \A t \in Callers : Outdated(t) => Outdated(t)'
        /\ \A t \in Callers : PastFor(keyOf[t], epochs, epochs') => Outdated(t)'
    BY <1>3, FencesAfter
  <1>5. ASSUME NEW t \in Callers, timedOut'[t] PROVE Outdated(t)'
    <2>1. CASE timedOut[t]
      BY <1>4, <2>1 DEF FetchInv, DetachedAreFenced
    <2>2. CASE keyOf[t] = keyOf[c]
      BY <1>1, <1>3, <1>4, <2>2
    <2> QED BY <1>5, <2>1, <2>2
  <1> QED BY <1>3, <1>4, <1>5 DEF GoodTable, DetachedAreFenced

\* beginClearEpoch, as an invalidation.
LEMMA FencesCleared ==
    ASSUME FetchInv, BeginClearEpoch, UNCHANGED <<keyOf, fence, timedOut>>
    PROVE  GoodTable(epochs)' /\ FencesBehind' /\ DetachedAreFenced'
  <1>1. GoodTable(epochs)
    BY DEF FetchInv
  <1>2. GoodTable(epochs') /\ \A k \in Keys : PastFor(k, epochs, epochs')
    BY <1>1, ClearStep
  <1>3. \A k \in Keys : LaterFor(k, epochs, epochs')
    <2> SUFFICES ASSUME NEW k \in Keys PROVE LaterFor(k, epochs, epochs')
      OBVIOUS
    <2>1. /\ KeyEpochIn(epochs, k) \in Nat /\ KeyEpochIn(epochs', k) \in Nat
          /\ epochs.clear \in Nat /\ epochs'.clear \in Nat
      BY <1>1, <1>2, KeyEpochType DEF GoodTable, IsEpochTable
    <2> QED BY <1>2, <2>1 DEF PastFor, LaterFor
  <1>4. /\ FencesBehind'
        /\ \A t \in Callers : PastFor(keyOf[t], epochs, epochs') => Outdated(t)'
    BY <1>2, <1>3, FencesAfter
  <1>5. \A t \in Callers : keyOf[t] \in Keys
    BY DEF FetchInv, FetchTypeOK, TypeOK
  <1> QED BY <1>2, <1>4, <1>5 DEF GoodTable, DetachedAreFenced

\* A fence that was just captured is not ahead, and its call has no task yet.
LEMMA CaptureKeeps ==
    ASSUME FetchInv, NEW c \in Callers, Capture(c)
    PROVE  /\ stage' \in [Callers -> Stages] /\ fence' \in [Callers -> Fences]
           /\ GoodTable(epochs)' /\ FencesBehind' /\ DetachedAreFenced' /\ StagesMatch'
  <1>1. /\ stage[c] = "new"
        /\ stage' = [stage EXCEPT ![c] = "reading"]
        /\ fence' = [fence EXCEPT ![c] = CurrentFence(keyOf[c])]
        /\ epochs' = epochs /\ caller' = caller /\ keyOf' = keyOf /\ timedOut' = timedOut
    BY DEF Capture, vars
  <1>2. /\ FetchTypeOK /\ GoodTable(epochs) /\ FencesBehind /\ DetachedAreFenced /\ StagesMatch
        /\ keyOf[c] \in Keys
    BY DEF FetchInv, FetchTypeOK, TypeOK
  <1>3. PICK k \in Keys : k = keyOf[c]
    BY <1>2
  <1>4. PICK f \in Fences : f = CurrentFence(k) /\ ~Precedes(f, f)
    BY <1>2, CurrentFenceType
  <1>5. fence'[c] = f /\ \A t \in Callers : t # c => fence'[t] = fence[t]
    BY <1>1, <1>2, <1>3, <1>4 DEF FetchTypeOK
  <1>6. CurrentFence(k)' = f
    BY <1>1, <1>4 DEF CurrentFence, CurrentKeyEpoch, KeyEpochIn
  <1>7. FencesBehind'
    <2> SUFFICES ASSUME NEW t \in Callers PROVE NotAhead(fence[t], keyOf[t])'
      BY DEF FencesBehind
    <2>1. CASE t = c
      BY <1>1, <1>3, <1>4, <1>5, <1>6, <2>1 DEF NotAhead
    <2>2. CASE t # c
      BY <1>1, <1>2, <1>5, <2>2
         DEF FencesBehind, NotAhead, Precedes, CurrentFence, CurrentKeyEpoch, KeyEpochIn
    <2> QED BY <2>1, <2>2
  <1>8. ~timedOut[c]
    BY <1>1, <1>2, GuardFacts DEF FetchInv, StagesMatch
  <1>9. DetachedAreFenced'
    BY <1>1, <1>2, <1>5, <1>8
       DEF DetachedAreFenced, Outdated, IsWriteOutdated, CurrentKeyEpoch, KeyEpochIn
  <1>10. stage' \in [Callers -> Stages] /\ fence' \in [Callers -> Fences]
    BY <1>1, <1>2, <1>3, <1>4 DEF FetchTypeOK, Stages
  <1>11. StagesMatch'
    BY <1>1, <1>2 DEF FetchTypeOK, StagesMatch
  <1>12. GoodTable(epochs)'
    BY <1>1, <1>2 DEF GoodTable, IsEpochTable
  <1> QED BY <1>7, <1>9, <1>10, <1>11, <1>12

\* The caller that detaches its task fences it off in the same step.
LEMMA TimeOutKeeps ==
    ASSUME FetchInv, NEW c \in Callers, TimeOutFetch(c)
    PROVE  GoodTable(epochs)' /\ FencesBehind' /\ DetachedAreFenced'
  <1>1. /\ caller[c] = "waiting" /\ keyOf' = keyOf /\ fence' = fence
        /\ IF Detaches(c) THEN ReleaseTimedOut(keyOf[c]) ELSE timedOut' = timedOut
        /\ IF Detaches(c) THEN BumpKeyEpochs(<<keyOf[c]>>) ELSE epochs' = epochs
    BY DEF TimeOutFetch, TimeOut
  <1>2. CASE Detaches(c)
    <2>1. /\ inFlight[keyOf[c]] # NoEntry
          /\ timedOut' = [timedOut EXCEPT ![inFlight[keyOf[c]]] = TRUE]
      BY <1>1, <1>2 DEF ReleaseTimedOut
    <2>2. TypeOK
      BY DEF FetchInv, FetchTypeOK
    <2>3. keyOf[c] \in Keys
      BY <2>2 DEF TypeOK
    <2>4. inFlight[keyOf[c]] \in Callers /\ keyOf[inFlight[keyOf[c]]] = keyOf[c]
      BY <2>1, <2>3, GuardFacts DEF FetchInv
    <2>5. \A t \in Callers : timedOut'[t] => timedOut[t] \/ keyOf[t] = keyOf[c]
      BY <2>1, <2>2, <2>4 DEF TypeOK
    <2> QED BY <1>1, <1>2, <2>5, FencesBumped
  <1>3. CASE ~Detaches(c)
    BY <1>1, <1>3, FencesStay
  <1> QED BY <1>2, <1>3

LEMMA NextKeeps == ASSUME FetchInv, [FetchNext]_fetchVars PROVE FetchInv'
  <1>1. FetchTypeOK /\ StagesMatch /\ TypeOK /\ stage \in [Callers -> Stages] /\ fence \in [Callers -> Fences]
    BY DEF FetchInv, FetchTypeOK
  <1>2. GuardInv'
    BY GuardKeeps DEF FetchInv
  <1>3. TypeOK'
    BY <1>2 DEF GuardInv
  <1> DEFINE Rest == /\ stage' \in [Callers -> Stages] /\ fence' \in [Callers -> Fences]
                     /\ GoodTable(epochs)' /\ FencesBehind' /\ DetachedAreFenced' /\ StagesMatch'
  <1>4. ASSUME NEW c \in Callers, Capture(c) PROVE Rest
    BY <1>4, CaptureKeeps
  <1>5. ASSUME NEW c \in Callers, Hit(c) PROVE Rest
    <2>1. /\ stage' = [stage EXCEPT ![c] = "over"] /\ caller' = caller /\ timedOut' = timedOut
          /\ UNCHANGED <<epochs, keyOf, fence>>
      BY <1>5 DEF Hit, vars
    <2>2. GoodTable(epochs)' /\ FencesBehind' /\ DetachedAreFenced'
      BY <2>1, FencesStay
    <2> QED BY <1>1, <2>1, <2>2 DEF Stages, StagesMatch
  <1>6. ASSUME NEW c \in Callers, Fetch(c) PROVE Rest
    <2>1. /\ stage' = [stage EXCEPT ![c] = "fetching"] /\ timedOut' = timedOut
          /\ \A t \in Callers : t # c => caller'[t] = caller[t]
          /\ UNCHANGED <<epochs, keyOf, fence>>
      BY <1>1, <1>6 DEF Fetch, TypeOK, Execute, Join, Refuse, StartTask
    <2>2. GoodTable(epochs)' /\ FencesBehind' /\ DetachedAreFenced'
      BY <2>1, FencesStay
    <2> QED BY <1>1, <2>1, <2>2 DEF Stages, StagesMatch
  <1>7. ASSUME NEW c \in Callers, Settle(c) PROVE Rest
    <2>1. /\ stage' = stage /\ timedOut' = timedOut /\ caller' = caller
          /\ UNCHANGED <<epochs, keyOf, fence>>
      BY <1>7 DEF Settle, SettleEntry
    <2>2. GoodTable(epochs)' /\ FencesBehind' /\ DetachedAreFenced'
      BY <2>1, FencesStay
    <2> QED BY <1>1, <2>1, <2>2 DEF StagesMatch
  <1>8. ASSUME NEW c \in Callers, TimeOutFetch(c) PROVE Rest
    <2>1. /\ stage' = stage /\ fence' = fence /\ caller[c] = "waiting"
          /\ \A t \in Callers : t # c => caller'[t] = caller[t]
      BY <1>1, <1>8 DEF TimeOutFetch, TimeOut, TypeOK
    <2>2. GoodTable(epochs)' /\ FencesBehind' /\ DetachedAreFenced'
      BY <1>8, TimeOutKeeps
    <2> QED BY <1>1, <2>1, <2>2 DEF StagesMatch
  <1>9. ASSUME NEW c \in Callers, Leave(c) PROVE Rest
    <2>1. /\ stage' = [stage EXCEPT ![c] = "over"] /\ timedOut' = timedOut
          /\ \A t \in Callers : t # c => caller'[t] = caller[t]
          /\ UNCHANGED <<epochs, keyOf, fence>>
      BY <1>1, <1>9 DEF Leave, ReleaseEntry, TypeOK
    <2>2. GoodTable(epochs)' /\ FencesBehind' /\ DetachedAreFenced'
      BY <2>1, FencesStay
    <2> QED BY <1>1, <2>1, <2>2 DEF Stages, StagesMatch
  <1>10. ASSUME NEW c \in Callers, Invalidate(c) PROVE Rest
    <2>1. /\ stage' = [stage EXCEPT ![c] = "over"] /\ caller' = caller
          /\ UNCHANGED <<keyOf, fence, timedOut>>
          /\ BumpKeyEpochs(<<keyOf[c]>>) \/ BeginClearEpoch
      BY <1>10 DEF Invalidate, vars
    <2>2. GoodTable(epochs)' /\ FencesBehind' /\ DetachedAreFenced'
      BY <2>1, FencesBumped, FencesCleared
    <2> QED BY <1>1, <2>1, <2>2 DEF Stages, StagesMatch
  <1>11. ASSUME UNCHANGED fetchVars PROVE Rest
    <2>1. stage' = stage /\ caller' = caller /\ timedOut' = timedOut /\ UNCHANGED <<epochs, keyOf, fence>>
      BY <1>11 DEF fetchVars, vars
    <2>2. GoodTable(epochs)' /\ FencesBehind' /\ DetachedAreFenced'
      BY <2>1, FencesStay
    <2> QED BY <1>1, <2>1, <2>2 DEF StagesMatch
  <1>12. Rest
    BY <1>4, <1>5, <1>6, <1>7, <1>8, <1>9, <1>10, <1>11 DEF FetchNext, FetchIdle
  <1>13. IsEpochTable(epochs)'
    BY <1>12 DEF GoodTable
  <1> QED BY <1>2, <1>3, <1>12, <1>13 DEF FetchInv, FetchTypeOK

\* What every reachable state satisfies: fences, epochs and guard keep their types,
\* and a call captures its fence before it is known to the guard (getPrepared).
THEOREM FetchTasksInvariant == FetchSpec => []FetchInv
  <1>1. FetchInit => FetchInv
    BY InitHolds
  <1>2. FetchInv /\ [FetchNext]_fetchVars => FetchInv'
    BY NextKeeps
  <1> QED BY <1>1, <1>2, PTL DEF FetchSpec

\* OneStorableTask for any number of calls and keys, any limit of the guard and any
\* bound of the epoch table: a fetch that timed out and its retry never both store,
\* since the caller that detaches a task bumps the key's epoch in the same turn
\* (onEntryTimeout in the constructor of CacheStack), and the bump outdates a fence
\* captured at any time before, whatever was pruned or rolled over meanwhile.
THEOREM OneTaskCanStore == FetchSpec => []OneStorableTask
  <1>1. FetchInv => OneStorableTask
    <2> SUFFICES ASSUME FetchInv, NEW s \in Unsettled, NEW t \in Unsettled, s # t, keyOf[s] = keyOf[t]
                 PROVE  Outdated(s) \/ Outdated(t)
      BY DEF OneStorableTask
    <2>1. timedOut[s] \/ timedOut[t]
      BY GuardFacts DEF FetchInv, OneTaskPerKey
    <2> QED BY <2>1 DEF FetchInv, DetachedAreFenced, Unsettled
  <1> QED BY <1>1, FetchTasksInvariant, PTL

-----------------------------------------------------------------------------
(***************************************************************************)
(* Generations.  A snapshot names a key without a prefix only if its value *)
(* could be read when it was taken, or was written before the stack had a  *)
(* generation (ItemsMatch), and what a generation has                      *)
(* left in the layers is in the way of a cleanup that runs or waits, or is *)
(* known to stay (CleanupsCover).                                          *)
(***************************************************************************)
\* The elements of a sequence to which one was appended.
LEMMA AppendElements ==
    ASSUME NEW S, NEW s \in Seq(S), NEW e \in S, NEW t, t = Append(s, e)
    PROVE  /\ t \in Seq(S) /\ t # << >> /\ Len(t) = Len(s) + 1 /\ DOMAIN t = DOMAIN s \cup {Len(s) + 1} /\ t[Len(s) + 1] = e
           /\ \A i \in DOMAIN s : i \in Nat /\ i < Len(s) + 1 /\ t[i] = s[i] /\ s[i] \in S
           /\ s # << >> => Head(t) = Head(s)
  <1>1. t \in Seq(S) /\ Len(t) = Len(s) + 1 /\ t[Len(s) + 1] = e /\ Len(s) \in Nat
    OBVIOUS
  <1>2. t # << >>
    BY <1>1
  <1>3. DOMAIN t = DOMAIN s \cup {Len(s) + 1}
    BY <1>1
  <1>4. \A i \in DOMAIN s : i \in Nat /\ i < Len(s) + 1 /\ t[i] = s[i] /\ s[i] \in S
    OBVIOUS
  <1>5. s # << >> => Head(t) = Head(s)
    OBVIOUS
  <1> QED BY <1>1, <1>2, <1>3, <1>4, <1>5

\* The elements of a sequence without its first.
LEMMA TailElements ==
    ASSUME NEW S, NEW s \in Seq(S), s # << >>, NEW t, t = Tail(s)
    PROVE  /\ t \in Seq(S) /\ 1 \in DOMAIN s /\ Head(s) = s[1] /\ s[1] \in S
           /\ \A i \in DOMAIN t : i \in Nat /\ i + 1 \in DOMAIN s /\ t[i] = s[i + 1] /\ t[i] \in S /\ i + 1 > 1
           /\ \A i \in DOMAIN s : i # 1 => i - 1 \in DOMAIN t /\ t[i - 1] = s[i]
           /\ Len(s) = 1 => t = << >>
  <1>1. t \in Seq(S) /\ Len(t) = Len(s) - 1 /\ Len(s) \in Nat
    OBVIOUS
  <1>2. 1 \in DOMAIN s /\ Head(s) = s[1] /\ s[1] \in S
    OBVIOUS
  <1>3. \A i \in DOMAIN t : i \in Nat /\ i + 1 \in DOMAIN s /\ t[i] = s[i + 1] /\ t[i] \in S /\ i + 1 > 1
    OBVIOUS
  <1>4. \A i \in DOMAIN s : i # 1 => i - 1 \in DOMAIN t /\ t[i - 1] = s[i]
    <2> SUFFICES ASSUME NEW i \in DOMAIN s, i # 1 PROVE i - 1 \in DOMAIN t /\ t[i - 1] = s[i]
      OBVIOUS
    <2>1. i \in 2..Len(s) /\ i - 1 \in 1..Len(t)
      BY <1>1
    <2>2. i - 1 \in DOMAIN t
      BY <1>1, <2>1
    <2>3. t[i - 1] = s[(i - 1) + 1] /\ (i - 1) + 1 = i
      BY <1>3, <2>1, <2>2
    <2> QED BY <2>2, <2>3
  <1>5. Len(s) = 1 => t = << >>
    BY <1>1
  <1> QED BY <1>1, <1>2, <1>3, <1>4, <1>5

QualifiedKeys == {q \in Seq(Gens \cup Keys) : Len(q) >= 1}

GenTypeOK ==
    /\ current \in Gens \cup {None}
    /\ DOMAIN entries \subseteq QualifiedKeys
    /\ \A q \in DOMAIN entries : entries[q].late \in BOOLEAN
    /\ setting \subseteq QualifiedKeys
    /\ chain \in Seq(Gens)
    /\ running = [gen |-> running.gen, todo |-> running.todo, seen |-> running.seen, batch |-> running.batch]

\* Keys without a prefix are those of no generation.
Unprefixed ==
    /\ \A q \in DOMAIN entries : Len(q) = 1 => entries[q].home = None
    /\ current = None => \A q \in DOMAIN entries \cup setting : Len(q) = 1

\* A snapshot names a key without a prefix only if its value could be read or
\* was of no generation.
ItemsMatch ==
    snapshot # None =>
        \A i \in snapshot : /\ i.key \in Seq(Gens \cup Keys) /\ Len(i.key) >= 1
                            /\ Len(i.key) = 1 => i.readable \/ i.home = None
                            /\ current = None => Len(i.key) = 1 /\ i.home = None

\* What is left of a generation is cleaned up some time, or known to stay.
CleanupsCover ==
    \A q \in DOMAIN entries :
        \/ Len(q) = 1 \/ Head(q) = current \/ Head(q) \in dirty \/ entries[q].late
        \/ \E i \in DOMAIN chain : chain[i] = Head(q)
        \/ running.gen = Head(q) /\ q \in running.todo \cup running.batch

GenInv == GenTypeOK /\ Gen!OldEntriesStayHidden /\ Unprefixed /\ ItemsMatch /\ CleanupsCover

\* A key gets the prefix of the current generation, if there is one.
LEMMA Qualified ==
    ASSUME GenTypeOK, NEW key \in Seq(Gens \cup Keys), Len(key) >= 1
    PROVE  /\ Gen!Qualify(key) \in QualifiedKeys
           /\ current # None => Head(Gen!Qualify(key)) = current /\ Len(Gen!Qualify(key)) = Len(key) + 1
           /\ current = None => Gen!Qualify(key) = key
  <1>1. CASE current = None
    BY <1>1 DEF Gen!Qualify, QualifiedKeys
  <1>2. CASE current # None
    <2>1. current \in Gens
      BY <1>2 DEF GenTypeOK
    <2>2. Gen!Qualify(key) = <<current>> \o key
      BY <1>2 DEF Gen!Qualify
    <2>3. <<current>> \in Seq(Gens \cup Keys) /\ Len(<<current>>) = 1 /\ <<current>>[1] = current /\ <<current>> # << >>
      BY <2>1
    <2>4. /\ <<current>> \o key \in Seq(Gens \cup Keys) /\ Len(<<current>> \o key) = 1 + Len(key)
          /\ (<<current>> \o key)[1] = current
      BY <2>1, <2>3, ConcatProperties
    <2>5. Head(<<current>> \o key) = current
      BY <2>4, HeadTailProperties
    <2> QED BY <1>2, <2>2, <2>4, <2>5 DEF QualifiedKeys
  <1> QED BY <1>1, <1>2

LEMMA GenInit == Gen!Init => GenInv
  <1> SUFFICES ASSUME Gen!Init PROVE GenInv
    OBVIOUS
  <1>1. /\ current \in Gens \cup {None} /\ entries = << >> /\ setting = {} /\ chain = << >> /\ running = Gen!Idle /\ snapshot = None
    BY DEF Gen!Init
  <1>2. DOMAIN entries = {} /\ chain \in Seq(Gens)
    BY <1>1
  <1> QED BY <1>1, <1>2 DEF GenInv, GenTypeOK, Gen!OldEntriesStayHidden, Unprefixed, ItemsMatch, CleanupsCover, Gen!Idle

LEMMA GenBeginSet == ASSUME GenInv, NEW k \in Keys, Gen!BeginSet(k) PROVE GenInv'
  <1>1. <<k>> \in Seq(Gens \cup Keys) /\ Len(<<k>>) >= 1 /\ Len(<<k>>) = 1
    OBVIOUS
  <1>2. Gen!Qualify(<<k>>) \in QualifiedKeys /\ (current = None => Len(Gen!Qualify(<<k>>)) = 1)
    BY <1>1, Qualified DEF GenInv
  <1> HIDE DEF Gen!Qualify
  <1> QED BY <1>2 DEF Gen!BeginSet, GenInv, GenTypeOK, Gen!OldEntriesStayHidden, Unprefixed, ItemsMatch, CleanupsCover, QualifiedKeys

LEMMA GenWrite == ASSUME GenInv, NEW key \in setting, Gen!Write(key) PROVE GenInv'
  <1> DEFINE e == [home |-> Gen!Home(key), late |-> running.gen = Gen!Home(key) \/ current # Gen!Home(key)]
  <1>1. /\ setting' = setting \ {key} /\ entries' = Gen!Stored(entries, key, e)
        /\ UNCHANGED <<current, chain, running, snapshot, dirty>>
    BY DEF Gen!Write
  <1>2. /\ e.home = IF Len(key) = 1 THEN None ELSE Head(key)
        /\ e.late \in BOOLEAN /\ (Len(key) = 1 \/ Head(key) = current \/ e.late)
    BY DEF Gen!Home
  <1> HIDE DEF e
  <1>3. DOMAIN entries' = DOMAIN entries \cup {key} /\ \A q \in DOMAIN entries' : entries'[q] = IF q = key THEN e ELSE entries[q]
    BY <1>1 DEF Gen!Stored
  <1>4. key \in QualifiedKeys
    BY DEF GenInv, GenTypeOK
  <1>5. GenTypeOK'
    BY <1>1, <1>2, <1>3, <1>4 DEF GenInv, GenTypeOK, QualifiedKeys
  <1>6. Gen!OldEntriesStayHidden' /\ Unprefixed'
    BY <1>1, <1>2, <1>3 DEF GenInv, Gen!OldEntriesStayHidden, Unprefixed
  <1>7. CleanupsCover'
    BY <1>1, <1>2, <1>3 DEF GenInv, CleanupsCover
  <1> QED BY <1>1, <1>5, <1>6, <1>7 DEF GenInv, ItemsMatch

LEMMA GenBump == ASSUME GenInv, NEW next \in Gens, Gen!Bump(next) PROVE GenInv'
  <1>1. current' = next /\ UNCHANGED <<entries, setting, running, snapshot, dirty>>
    BY DEF Gen!Bump
  <1>2. CASE current = next
    <2>1. chain' = chain
      BY <1>2 DEF Gen!Bump, Gen!CleanupTarget
    <2> QED BY <1>1, <1>2, <2>1 DEF GenInv, GenTypeOK, Gen!OldEntriesStayHidden, Unprefixed, ItemsMatch, CleanupsCover, QualifiedKeys
  <1>4. CASE current = None
    <2>1. chain' = chain
      BY <1>4 DEF Gen!Bump, Gen!CleanupTarget
    <2>2. current' # None
      BY <1>1, GensAssumption
    <2>3. CleanupsCover'
      BY <1>1, <1>4 DEF GenInv, Unprefixed, CleanupsCover
    <2> QED BY <1>1, <2>1, <2>2, <2>3 DEF GenInv, GenTypeOK, Gen!OldEntriesStayHidden, Unprefixed, ItemsMatch, QualifiedKeys
  <1>3. CASE current # next /\ current # None
    <2>1. current \in Gens /\ chain \in Seq(Gens)
      BY <1>3 DEF GenInv, GenTypeOK
    <2>5. current' # None
      BY <1>1, GensAssumption
    <2>2. chain' = Append(chain, current)
      BY <1>3, <2>1, GensAssumption DEF Gen!Bump, Gen!CleanupTarget, Gen!Schedule
    <2>3. /\ chain' \in Seq(Gens) /\ DOMAIN chain' = DOMAIN chain \cup {Len(chain) + 1} /\ chain'[Len(chain) + 1] = current
          /\ \A i \in DOMAIN chain : chain'[i] = chain[i]
      BY <2>1, <2>2, AppendElements
    <2>4. CleanupsCover'
      BY <1>1, <2>3 DEF GenInv, CleanupsCover
    <2> QED BY <1>1, <2>3, <2>4, <2>5 DEF GenInv, GenTypeOK, Gen!OldEntriesStayHidden, Unprefixed, ItemsMatch, QualifiedKeys
  <1> QED BY <1>2, <1>3, <1>4

LEMMA GenStartCleanup == ASSUME GenInv, Gen!StartCleanup PROVE GenInv'
  <1>1. /\ running = Gen!Idle /\ chain # << >> /\ chain' = Tail(chain)
        /\ running' = [gen |-> Head(chain), seen |-> 0, batch |-> {},
                       todo |-> {q \in DOMAIN entries : Gen!StartsWith(q, Head(chain))}]
        /\ UNCHANGED <<current, entries, setting, snapshot, dirty>>
    BY DEF Gen!StartCleanup
  <1>2. /\ chain' \in Seq(Gens) /\ Head(chain) = chain[1]
        /\ \A i \in DOMAIN chain : i # 1 => i - 1 \in DOMAIN chain' /\ chain'[i - 1] = chain[i]
    BY <1>1, TailElements DEF GenInv, GenTypeOK
  <1>3. \A q \in DOMAIN entries : Len(q) # 1 /\ Head(q) = Head(chain) => q \in running'.todo
    <2>1. \A q \in DOMAIN entries : Len(q) # 1 => Len(q) > 1
      <3>1. \A q \in Seq(Gens \cup Keys) : Len(q) \in Nat
        OBVIOUS
      <3>2. \A q \in DOMAIN entries : Len(q) \in Nat /\ Len(q) >= 1
        BY <3>1 DEF GenInv, GenTypeOK, QualifiedKeys
      <3>3. \A n \in Nat : n >= 1 /\ n # 1 => n > 1
        OBVIOUS
      <3> QED BY <3>2, <3>3
    <2> QED BY <1>1, <2>1 DEF Gen!StartsWith
  <1>4. CleanupsCover'
    <2> SUFFICES ASSUME NEW q \in DOMAIN entries, Len(q) # 1, Head(q) # current, Head(q) \notin dirty,
                        ~entries[q].late
                 PROVE  (\E i \in DOMAIN chain' : chain'[i] = Head(q)) \/ (running'.gen = Head(q) /\ q \in running'.todo)
      BY <1>1 DEF CleanupsCover
    <2>1. PICK i \in DOMAIN chain : chain[i] = Head(q)
      BY <1>1 DEF GenInv, CleanupsCover, Gen!Idle
    <2> QED BY <1>1, <1>2, <1>3, <2>1
  <1> QED BY <1>1, <1>2, <1>4 DEF GenInv, GenTypeOK, Gen!OldEntriesStayHidden, Unprefixed, ItemsMatch, QualifiedKeys

LEMMA GenCleanup ==
    ASSUME GenInv, (\E key \in running.todo : Gen!Visit(key)) \/ Gen!FlushBatch \/ Gen!CleanupFails \/ Gen!CleanupEnds
    PROVE  GenInv'
  <1>1. ASSUME NEW key \in running.todo, Gen!Visit(key) PROVE GenInv'
    BY <1>1 DEF Gen!Visit, GenInv, GenTypeOK, Gen!OldEntriesStayHidden, Unprefixed, ItemsMatch, CleanupsCover, QualifiedKeys
  <1>2. CASE Gen!FlushBatch
    <2>1. /\ entries' = Gen!Without(entries, running.batch) /\ setting' = setting \ running.batch
          /\ running' = [running EXCEPT !.batch = {}]
          /\ UNCHANGED <<current, chain, snapshot, dirty>>
      BY <1>2 DEF Gen!FlushBatch
    <2>2. DOMAIN entries' = DOMAIN entries \ running.batch /\ \A q \in DOMAIN entries' : entries'[q] = entries[q]
      BY <2>1 DEF Gen!Without
    <2>3. running'.todo = running.todo /\ running'.gen = running.gen
      BY <2>1 DEF GenInv, GenTypeOK
    <2>4. CleanupsCover'
      BY <2>1, <2>2, <2>3 DEF GenInv, CleanupsCover
    <2>5. GenTypeOK'
      BY <2>1, <2>2 DEF GenInv, GenTypeOK, QualifiedKeys
    <2> QED BY <2>1, <2>2, <2>4, <2>5 DEF GenInv, Gen!OldEntriesStayHidden, Unprefixed, ItemsMatch
  <1>3. CASE Gen!CleanupFails
    BY <1>3 DEF Gen!CleanupFails, Gen!Idle, GenInv, GenTypeOK, Gen!OldEntriesStayHidden, Unprefixed, ItemsMatch, CleanupsCover, QualifiedKeys
  <1>4. CASE Gen!CleanupEnds
    <2>1. running.todo = {} /\ running.batch = {}
      BY <1>4 DEF Gen!CleanupEnds, Gen!Flush
    <2> QED BY <1>4, <2>1 DEF Gen!CleanupEnds, Gen!Idle, GenInv, GenTypeOK, Gen!OldEntriesStayHidden, Unprefixed, ItemsMatch, CleanupsCover, QualifiedKeys
  <1> QED BY <1>1, <1>2, <1>3, <1>4

LEMMA GenExport == ASSUME GenInv, Gen!Export PROVE GenInv'
  <1> DEFINE items == {[key |-> Gen!Strip(q), home |-> entries[q].home, readable |-> current = entries[q].home] : q \in DOMAIN entries}
  <1>1. snapshot' \subseteq items /\ UNCHANGED <<current, entries, setting, chain, running, dirty>>
    BY DEF Gen!Export
  <1>2. ASSUME NEW q \in DOMAIN entries
        PROVE  /\ Gen!Strip(q) \in Seq(Gens \cup Keys) /\ Len(Gen!Strip(q)) >= 1
               /\ Len(Gen!Strip(q)) = 1 => entries[q].home \in {current, None}
               /\ current = None => Len(Gen!Strip(q)) = 1 /\ entries[q].home = None
    <2>1. q \in Seq(Gens \cup Keys) /\ Len(q) >= 1 /\ Len(q) \in Nat /\ q # << >>
      BY DEF GenInv, GenTypeOK, QualifiedKeys
    <2>2. /\ Len(q) = 1 => entries[q].home = None
          /\ current = None => Len(q) = 1
          /\ Len(q) = 2 => entries[q].home \in {Head(q), None}
      BY DEF GenInv, Unprefixed, Gen!OldEntriesStayHidden
    <2>3. Tail(q) \in Seq(Gens \cup Keys) /\ Len(Tail(q)) = Len(q) - 1
      BY <2>1
    <2>4. CASE Len(q) > 1 /\ Head(q) = current
      <3>1. current # None
        <4>1. Len(q) # 1
          <5>1. \A n \in Nat : n > 1 => n # 1
            OBVIOUS
          <5> QED BY <2>1, <2>4, <5>1
        <4> QED BY <2>2, <4>1
      <3>2. Gen!Strip(q) = Tail(q)
        BY <2>4, <3>1 DEF Gen!Strip, Gen!StartsWith
      <3> QED BY <2>1, <2>2, <2>3, <2>4, <3>1, <3>2
    <2>5. CASE ~(Len(q) > 1 /\ Head(q) = current)
      <3>1. Gen!Strip(q) = q
        BY <2>5 DEF Gen!Strip, Gen!StartsWith
      <3> QED BY <2>1, <2>2, <3>1
    <2> QED BY <2>4, <2>5
  <1>3. \A i \in items : /\ i.key \in Seq(Gens \cup Keys) /\ Len(i.key) >= 1
                         /\ Len(i.key) = 1 => i.readable \/ i.home = None
                         /\ current = None => Len(i.key) = 1 /\ i.home = None
    <2> SUFFICES ASSUME NEW i \in items
                 PROVE  /\ i.key \in Seq(Gens \cup Keys) /\ Len(i.key) >= 1
                        /\ Len(i.key) = 1 => i.readable \/ i.home = None
                        /\ current = None => Len(i.key) = 1 /\ i.home = None
      OBVIOUS
    <2>1. PICK q \in DOMAIN entries : i = [key |-> Gen!Strip(q), home |-> entries[q].home, readable |-> current = entries[q].home]
      OBVIOUS
    <2>2. i.key = Gen!Strip(q) /\ i.readable = (current = entries[q].home) /\ i.home = entries[q].home
      BY <2>1
    <2> QED BY <1>2, <2>2
  <1> HIDE DEF items
  <1> QED BY <1>1, <1>3 DEF GenInv, GenTypeOK, Gen!OldEntriesStayHidden, Unprefixed, ItemsMatch, CleanupsCover, QualifiedKeys

LEMMA GenImport == ASSUME GenInv, Gen!Import PROVE GenInv'
  <1> DEFINE Item(q) == CHOOSE i \in snapshot : Gen!Qualify(i.key) = q
             new == {Gen!Qualify(i.key) : i \in snapshot}
             E(q) == [home |-> IF Item(q).readable THEN current ELSE Item(q).home, late |-> running.gen = current]
  <1>1. /\ entries' = [q \in DOMAIN entries \cup new |-> IF q \in new THEN E(q) ELSE entries[q]]
        /\ snapshot # None /\ snapshot' = {}
        /\ UNCHANGED <<current, setting, chain, running, dirty>>
    BY DEF Gen!Import
  <1>2. ASSUME NEW q \in new
        PROVE  /\ q \in QualifiedKeys /\ E(q).late \in BOOLEAN
               /\ current # None => Head(q) = current /\ Len(q) # 1
               /\ current # None /\ Len(q) = 2 => E(q).home \in {current, None}
               /\ current = None => Len(q) = 1 /\ E(q).home = None
    <2>1. PICK i \in snapshot : Gen!Qualify(i.key) = q
      OBVIOUS
    <2>2. Item(q) \in snapshot /\ Gen!Qualify(Item(q).key) = q
      BY <2>1
    <2>3. /\ Item(q).key \in Seq(Gens \cup Keys) /\ Len(Item(q).key) >= 1 /\ Len(Item(q).key) \in Nat
          /\ Len(Item(q).key) = 1 => Item(q).readable \/ Item(q).home = None
          /\ current = None => Len(Item(q).key) = 1 /\ Item(q).home = None
      <3>1. \A s \in Seq(Gens \cup Keys) : Len(s) \in Nat
        OBVIOUS
      <3> QED BY <1>1, <2>2, <3>1 DEF GenInv, ItemsMatch
    <2> HIDE DEF Item
    <2>4. /\ q \in QualifiedKeys
          /\ current # None => Head(q) = current /\ Len(q) = Len(Item(q).key) + 1
          /\ current = None => q = Item(q).key
      BY <2>2, <2>3, Qualified DEF GenInv
    <2>5. /\ current # None /\ Len(q) = 2 => Len(Item(q).key) = 1
          /\ current # None => Len(q) # 1
      <3> HIDE DEF Gen!Qualify
      <3>1. \A n \in Nat : (n + 1 = 2 => n = 1) /\ (n >= 1 => n + 1 # 1)
        OBVIOUS
      <3>2. CASE current # None
        <4>1. Len(q) = Len(Item(q).key) + 1
          BY <2>4, <3>2
        <4> QED BY <2>3, <3>1, <4>1
      <3> QED BY <3>2
    <2> QED BY <2>3, <2>4, <2>5
  <1> HIDE DEF new, E
  <1>3. DOMAIN entries' = DOMAIN entries \cup new /\ \A q \in DOMAIN entries' : entries'[q] = IF q \in new THEN E(q) ELSE entries[q]
    BY <1>1
  <1>4. GenTypeOK'
    BY <1>1, <1>2, <1>3 DEF GenInv, GenTypeOK, QualifiedKeys
  <1>5. Gen!OldEntriesStayHidden'
    BY <1>2, <1>3 DEF GenInv, Gen!OldEntriesStayHidden
  <1>7. Unprefixed'
    BY <1>1, <1>2, <1>3 DEF GenInv, Unprefixed
  <1>6. CleanupsCover'
    BY <1>1, <1>2, <1>3 DEF GenInv, CleanupsCover
  <1> QED BY <1>1, <1>4, <1>5, <1>6, <1>7 DEF GenInv, ItemsMatch

LEMMA GenNext == GenInv /\ [Gen!Next]_(Gen!vars) => GenInv'
  <1> SUFFICES ASSUME GenInv, [Gen!Next]_(Gen!vars) PROVE GenInv'
    OBVIOUS
  <1>1. CASE UNCHANGED Gen!vars
    BY <1>1 DEF Gen!vars, GenInv, GenTypeOK, Gen!OldEntriesStayHidden, Unprefixed, ItemsMatch, CleanupsCover, QualifiedKeys
  <1> QED BY <1>1, GenBeginSet, GenWrite, GenBump, GenStartCleanup, GenCleanup, GenExport, GenImport DEF Gen!Next

\* What is read under a key of a generation was stored under that generation,
\* or was readable when a snapshot took it, or was written before the stack had
\* a generation; and once all cleanups are over a generation whose cleanups
\* succeeded has nothing left but what was written too late for them
\* (stripGenerationPrefix, scheduleGenerationCleanup).
THEOREM GenerationsApart == Gen!Spec => []GenerationsStayApart
  <1>1. GenInv => GenerationsStayApart
    <2> SUFFICES ASSUME GenInv, chain = << >>, running = Gen!Idle, NEW q \in DOMAIN entries, Len(q) # 1
                 PROVE  Head(q) \in dirty \cup {current} \/ entries[q].late
      BY DEF GenInv, GenerationsStayApart, Gen!GenerationsStayApart, Gen!CleanedGenerationsAreGone
    <2>1. running.todo = {} /\ running.batch = {} /\ DOMAIN chain = {}
      BY DEF Gen!Idle
    <2> QED BY <2>1 DEF GenInv, CleanupsCover
  <1> QED BY GenInit, GenNext, <1>1, PTL DEF Gen!Spec

-----------------------------------------------------------------------------
(***************************************************************************)
(* Entries.  Every slot of a layer holds a whole envelope, in which no     *)
(* deadline is further away than an envelope may name, and a TTL that      *)
(* spans it (KeptSlot).  What isStoredValueEnvelope would reject counts as *)
(* a fresh value for ever: that none is stored needs the two hypotheses.   *)
(***************************************************************************)
\* A value with its windows never stays for more than ten years ...
WithinTenYears ==
    \A o \in WriteOptions : \A w \in {o.swr, o.sie} :
        \A ttl \in {o.ttl, DefaultTtl[1], DefaultTtl[2], NegativeTtl, MaxTtl} :
            ttl + o.jitter + w <= TenYears

\* ... and has a TTL if it has windows.
WindowsHaveTtls ==
    \A o \in WriteOptions : o.swr # 0 \/ o.sie # 0 =>
        /\ o.ttl # 0 \/ (DefaultTtl[1] # 0 /\ DefaultTtl[2] # 0)
        /\ NegativeTtl # 0 /\ MaxTtl # 0

EntryFields ==
    [kind : {"value", "empty"}, id : Nat, ttl : Nat, swr : Nat, sie : Nat,
     freshUntil : Nat, staleUntil : Nat, errorUntil : Nat]

\* What the layers hold at time t is a whole envelope, or one of no TTL.
WholeEntry(e, t) ==
    /\ e \in EntryFields
    /\ \A w \in {e.swr, e.sie} : e.ttl + w <= TenYears
    /\ \A d \in {e.staleUntil, e.errorUntil} :
         d # 0 => e.freshUntil # 0 /\ e.freshUntil <= d /\ d <= t + TenYears
    /\ e.freshUntil <= t + TenYears
    /\ e.ttl = 0 /\ (e.swr # 0 \/ e.sie # 0) => e.freshUntil = 0

\* The layer keeps it to the last of its deadlines.
Spanned(s) == \A d \in Entry!Deadlines(s.entry) : s.until >= d

KeptSlot(s, t) == s.until \in Nat /\ WholeEntry(s.entry, t) /\ Spanned(s)

\* An entry that is an envelope.
HasTtl(e) == e.ttl = 0 => e.swr = 0 /\ e.sie = 0

EntryInv ==
    /\ now \in Nat \ {0} /\ hits \in Nat /\ sets \in Nat
    /\ DOMAIN store \subseteq {1, 2}
    /\ \A l \in DOMAIN store : KeptSlot(store[l], now)

EnvelopeInv == EntryInv /\ \A l \in DOMAIN store : HasTtl(store[l].entry)

\* The largest and the smallest of at most three numbers.
LEMMA MaxOfDeadlines ==
    ASSUME NEW a \in Nat, NEW b \in Nat, NEW c \in Nat, NEW S, S \subseteq {a, b, c}, S # {}
    PROVE  Entry!Max(S) \in S /\ \A d \in S : Entry!Max(S) >= d
  <1>1. \E x \in S : \A y \in S : x >= y
    <2>1. \A x \in S : x = a \/ x = b \/ x = c
      OBVIOUS
    <2>2. (a \in S \/ a \notin S) /\ (b \in S \/ b \notin S) /\ (c \in S \/ c \notin S)
      OBVIOUS
    <2>3. a \in S \/ b \in S \/ c \in S
      BY <2>1
    <2> QED BY <2>1, <2>2, <2>3
  <1> QED BY <1>1 DEF Entry!Max

LEMMA MinOfThree ==
    ASSUME NEW a \in Nat, NEW b \in Nat, NEW c \in Nat, NEW S, S \subseteq {a, b, c}, S # {}
    PROVE  Entry!Min(S) \in S /\ \A d \in S : Entry!Min(S) <= d
  <1>1. \E x \in S : \A y \in S : x <= y
    <2>1. \A x \in S : x = a \/ x = b \/ x = c
      OBVIOUS
    <2>2. (a \in S \/ a \notin S) /\ (b \in S \/ b \notin S) /\ (c \in S \/ c \notin S)
      OBVIOUS
    <2>3. a \in S \/ b \in S \/ c \in S
      BY <2>1
    <2> QED BY <2>1, <2>2, <2>3
  <1> QED BY <1>1 DEF Entry!Min

LEMMA MaxOfTwo ==
    ASSUME NEW a \in Nat, NEW b \in Nat
    PROVE  Entry!Max({a, b}) \in Nat /\ Entry!Max({a, b}) >= a /\ Entry!Max({a, b}) \in {a, b}
  <1> QED BY MaxOfDeadlines, {a, b} \subseteq {a, b, b}

LEMMA MinOfTwo ==
    ASSUME NEW a \in Nat, NEW b \in Nat
    PROVE  Entry!Min({a, b}) \in Nat /\ Entry!Min({a, b}) <= a /\ Entry!Min({a, b}) \in {a, b}
  <1> QED BY MinOfThree, {a, b} \subseteq {a, b, b}

\* A whole entry with a deadline is an envelope.
LEMMA WholeIsEnvelope ==
    ASSUME NEW e, NEW t \in Nat, WholeEntry(e, t), HasTtl(e) \/ Entry!Deadlines(e) # {}
    PROVE  Entry!IsEnvelope(e, t)
  <1>1. e.ttl \in Nat /\ e.swr \in Nat /\ e.sie \in Nat /\ TenYears \in Nat
        /\ e.freshUntil \in Nat /\ e.staleUntil \in Nat /\ e.errorUntil \in Nat
    BY DurationsAssumption DEF WholeEntry, EntryFields
  <1>2. HasTtl(e)
    BY <1>1 DEF WholeEntry, HasTtl, Entry!Deadlines, Entry!Null
  <1>3. \A d \in Entry!Deadlines(e) : d <= t + TenYears /\ e.freshUntil <= d
    BY <1>1 DEF WholeEntry, Entry!Deadlines, Entry!Null
  <1>4. \A d \in {e.ttl, e.swr, e.sie} : d <= TenYears
    BY <1>1 DEF WholeEntry
  <1> QED BY <1>1, <1>2, <1>3, <1>4 DEF Entry!IsEnvelope, Entry!Null, HasTtl, WholeEntry

\* Slots and entries stay what they are as time goes on.
LEMMA SlotsAge ==
    ASSUME NEW s, NEW t \in Nat, KeptSlot(s, t) PROVE KeptSlot(s, t + 1)
  <1> QED BY DurationsAssumption DEF KeptSlot, WholeEntry, EntryFields

\* A new envelope, whose TTL and windows are not too long.
LEMMA CreatedIsWhole ==
    ASSUME NEW kind \in {"value", "empty"}, NEW id \in Nat, NEW ttl \in Nat, NEW w, NEW t \in Nat,
           w.swr \in Nat, w.sie \in Nat, ttl + w.swr <= TenYears, ttl + w.sie <= TenYears
    PROVE  LET e == Entry!Create(kind, id, ttl, w, t)
           IN  /\ WholeEntry(e, t)
               /\ (ttl = 0 => w.swr = 0 /\ w.sie = 0) => HasTtl(e)
               /\ ttl = 0 => Entry!Deadlines(e) = {}
  <1> DEFINE e == Entry!Create(kind, id, ttl, w, t)
  <1>1. e \in EntryFields
    BY DEF Entry!Create, EntryFields, Entry!Null
  <1>2. /\ e.ttl = ttl /\ e.swr = w.swr /\ e.sie = w.sie
        /\ e.freshUntil = (IF ttl = 0 THEN 0 ELSE t + ttl)
        /\ e.staleUntil = (IF ttl = 0 \/ w.swr = 0 THEN 0 ELSE t + ttl + w.swr)
        /\ e.errorUntil = (IF ttl = 0 \/ w.sie = 0 THEN 0 ELSE t + ttl + w.sie)
    BY DEF Entry!Create, Entry!Null
  <1> HIDE DEF e
  <1>3. WholeEntry(e, t)
    BY <1>1, <1>2, DurationsAssumption DEF WholeEntry
  <1>4. (ttl = 0 => w.swr = 0 /\ w.sie = 0) => HasTtl(e)
    BY <1>2 DEF HasTtl
  <1>5. ttl = 0 => Entry!Deadlines(e) = {}
    BY <1>2 DEF Entry!Deadlines, Entry!Null
  <1> QED BY <1>3, <1>4, <1>5 DEF e

\* The time left, if the entry has deadlines, reaches to the last of them.
LEMMA RemainingSpans ==
    ASSUME NEW e, NEW t \in Nat, WholeEntry(e, t)
    PROVE  /\ Entry!RemainingStored(e, t) \in Nat
           /\ Entry!Deadlines(e) # {} => Entry!RemainingStored(e, t) # 0
           /\ \A d \in Entry!Deadlines(e) : t + Entry!RemainingStored(e, t) >= d
  <1>1. CASE Entry!Deadlines(e) = {}
    BY <1>1 DEF Entry!RemainingStored, Entry!Null
  <1>2. CASE Entry!Deadlines(e) # {}
    <2> DEFINE D == Entry!Deadlines(e)
               m == Entry!Max(D)
    <2>1. Entry!IsEnvelope(e, t)
      BY <1>2, WholeIsEnvelope
    <2>2. e.freshUntil \in Nat /\ e.staleUntil \in Nat /\ e.errorUntil \in Nat
      BY DEF WholeEntry, EntryFields
    <2>3. D \subseteq {e.freshUntil, e.staleUntil, e.errorUntil} /\ \A d \in D : d \in Nat
      BY <2>2 DEF Entry!Deadlines
    <2>4. m \in D /\ \A d \in D : m >= d
      BY <1>2, <2>2, <2>3, MaxOfDeadlines
    <2>5. Entry!RemainingStored(e, t) = IF m > t THEN m - t ELSE 1
      BY <1>2, <2>1 DEF Entry!RemainingStored
    <2> HIDE DEF m
    <2>6. m \in Nat
      BY <2>3, <2>4
    <2>7. Entry!RemainingStored(e, t) \in Nat \ {0} /\ t + Entry!RemainingStored(e, t) >= m
      BY <2>5, <2>6
    <2> QED BY <2>3, <2>4, <2>6, <2>7
  <1> QED BY <1>1, <1>2

\* What a backfill, a slide or an expire writes to a layer.
LEMMA RefillKeeps ==
    ASSUME NEW l \in {1, 2}, NEW e, now \in Nat, WholeEntry(e, now)
    PROVE  /\ Entry!Refill(l, e).entry = e
           /\ KeptSlot(Entry!Refill(l, e), now)
  <1> DEFINE r == Entry!RemainingStored(e, now)
             ttl == Entry!ResolveLayerMs(l, r)
             s == Entry!Refill(l, e)
  <1>1. r \in Nat /\ (Entry!Deadlines(e) # {} => r # 0) /\ \A d \in Entry!Deadlines(e) : now + r >= d
    BY RemainingSpans
  <1>2. ttl \in Nat /\ (r # 0 => ttl = r)
    BY <1>1, DurationsAssumption DEF Entry!ResolveLayerMs, Entry!Null
  <1>3. s.entry = e /\ s.until = (IF ttl = 0 THEN 0 ELSE now + ttl)
    BY DEF Entry!Refill, Entry!Put, Entry!Null
  <1> HIDE DEF r, ttl, s
  <1>4. s.until \in Nat
    BY <1>2, <1>3
  <1>5. Spanned(s)
    BY <1>1, <1>2, <1>3 DEF Spanned
  <1>6. KeptSlot(s, now)
    BY <1>3, <1>4, <1>5 DEF KeptSlot
  <1> QED BY <1>3, <1>6 DEF s

LEMMA RefreshedIsWhole ==
    ASSUME NEW e, NEW t \in Nat, WholeEntry(e, t)
    PROVE  WholeEntry(Entry!Refreshed(e, t), t) /\ (HasTtl(e) => HasTtl(Entry!Refreshed(e, t)))
  <1>1. CASE ~Entry!IsEnvelope(e, t)
    BY <1>1 DEF Entry!Refreshed
  <1>2. CASE Entry!IsEnvelope(e, t)
    <2> DEFINE w == [swr |-> e.swr, sie |-> e.sie]
    <2>1. /\ e.kind \in {"value", "empty"} /\ e.id \in Nat /\ e.ttl \in Nat
          /\ w.swr \in Nat /\ w.sie \in Nat /\ w.swr = e.swr /\ w.sie = e.sie
          /\ e.ttl + w.swr <= TenYears /\ e.ttl + w.sie <= TenYears
      BY DEF WholeEntry, EntryFields
    <2>2. Entry!Refreshed(e, t) = Entry!Create(e.kind, e.id, e.ttl, w, t)
      BY <1>2 DEF Entry!Refreshed
    <2> HIDE DEF w
    <2> QED BY <2>1, <2>2, CreatedIsWhole DEF HasTtl
  <1> QED BY <1>1, <1>2

\* The fresh period that expire ends is over.
LEMMA ExpiredIsWhole ==
    ASSUME NEW e, NEW t \in Nat \ {0}, WholeEntry(e, t), Entry!IsEnvelope(e, t)
    PROVE  LET x == Entry!Expired(e, t)
           IN  /\ WholeEntry(x, t) /\ (HasTtl(e) => HasTtl(x))
               /\ x.freshUntil # 0 /\ x.freshUntil <= t
  <1> DEFINE x == Entry!Expired(e, t)
             S == {t} \cup ({e.staleUntil, e.errorUntil} \ {Entry!Null})
             m == Entry!Min(S)
  <1>1. e \in EntryFields /\ e.staleUntil \in Nat /\ e.errorUntil \in Nat
    BY DEF WholeEntry, EntryFields
  <1>2. m \in S /\ \A d \in S : m <= d
    BY <1>1, MinOfThree, S \subseteq {t, e.staleUntil, e.errorUntil}
  <1>3. \A d \in S : d \in Nat \ {0}
    BY <1>1 DEF Entry!Null
  <1>4. x = [e EXCEPT !.freshUntil = m]
    BY DEF Entry!Expired
  <1>5. m \in Nat \ {0} /\ m <= t /\ (e.staleUntil # 0 => m <= e.staleUntil) /\ (e.errorUntil # 0 => m <= e.errorUntil)
    BY <1>2, <1>3 DEF Entry!Null
  <1> HIDE DEF m, S, x
  <1>6. /\ x \in EntryFields /\ x.freshUntil = m /\ x.ttl = e.ttl /\ x.swr = e.swr /\ x.sie = e.sie
        /\ x.staleUntil = e.staleUntil /\ x.errorUntil = e.errorUntil
    BY <1>1, <1>4, <1>5 DEF EntryFields
  <1>7. HasTtl(e)
    BY DEF Entry!IsEnvelope, HasTtl, Entry!Null
  <1>8. WholeEntry(x, t) /\ HasTtl(x)
    BY <1>5, <1>6, <1>7, DurationsAssumption DEF WholeEntry, HasTtl
  <1> QED BY <1>5, <1>6, <1>8 DEF x

\* The TTLs of a new value, adapted and jittered.
LEMMA FreshTtlsAre ==
    ASSUME EntryInv, WithinTenYears, NEW l \in {1, 2}, NEW kind \in {"value", "empty"},
           NEW o \in WriteOptions, NEW ttl \in Entry!FreshTtls(l, kind, o)
    PROVE  /\ ttl \in Nat /\ ttl + o.swr <= TenYears /\ ttl + o.sie <= TenYears
           /\ WindowsHaveTtls /\ (o.swr # 0 \/ o.sie # 0) => ttl # 0
  <1> DEFINE base == IF kind = "empty" THEN NegativeTtl ELSE Entry!ResolveLayerMs(l, o.ttl)
             high == base + Step * (hits \div HotAfter)
             a == Entry!Adaptive(base, o)
  <1>1. /\ o.ttl \in Nat /\ o.swr \in Nat /\ o.sie \in Nat /\ o.jitter \in Nat /\ TenYears \in Nat
        /\ NegativeTtl \in Nat /\ MaxTtl \in Nat /\ Step \in Nat
        /\ DefaultTtl[1] \in Nat /\ DefaultTtl[2] \in Nat
    BY DurationsAssumption
  <1>2. base \in {o.ttl, DefaultTtl[1], DefaultTtl[2], NegativeTtl} /\ base \in Nat
    BY <1>1 DEF Entry!ResolveLayerMs, Entry!Null
  <1>3. WindowsHaveTtls /\ (o.swr # 0 \/ o.sie # 0) => base # 0 /\ MaxTtl # 0
    BY <1>1 DEF WindowsHaveTtls, Entry!ResolveLayerMs, Entry!Null
  <1>4. a \in {base, MaxTtl} \/ (base # 0 /\ a = high /\ a <= MaxTtl)
    <2>1. hits \div HotAfter \in Nat
      BY DurationsAssumption DEF EntryInv
    <2>2. Step * (hits \div HotAfter) \in Nat
      BY <1>1, <2>1
    <2>3. high \in Nat
      BY <1>2, <2>2
    <2>4. Entry!Min({MaxTtl, high}) \in {MaxTtl, high} /\ Entry!Min({MaxTtl, high}) <= MaxTtl
      BY <1>1, <2>3, MinOfTwo
    <2> HIDE DEF high
    <2>5. a = base \/ (base # 0 /\ a = Entry!Min({MaxTtl, high}))
      BY DEF Entry!Adaptive, Entry!Null, high
    <2> QED BY <2>4, <2>5
  <1>5. base # 0 => high \in Nat /\ high # 0
    <2>1. hits \div HotAfter \in Nat
      BY DurationsAssumption DEF EntryInv
    <2>2. Step * (hits \div HotAfter) \in Nat
      BY <1>1, <2>1
    <2> QED BY <1>2, <2>2
  <1>6. ttl \in Entry!Jittered(a, o)
    BY DEF Entry!FreshTtls
  <1> HIDE DEF base, high, a
  <1>7. a \in Nat /\ (a = base \/ a <= MaxTtl) /\ (base # 0 /\ MaxTtl # 0 => a # 0)
    BY <1>1, <1>2, <1>4, <1>5
  <1>8. \A w \in {o.swr, o.sie} : a + o.jitter + w <= TenYears
    <2> SUFFICES ASSUME NEW w \in {o.swr, o.sie} PROVE a + o.jitter + w <= TenYears
      OBVIOUS
    <2>1. w \in Nat /\ base + o.jitter + w <= TenYears /\ MaxTtl + o.jitter + w <= TenYears
      BY <1>1, <1>2 DEF WithinTenYears
    <2> QED BY <1>1, <1>2, <1>7, <2>1
  <1>9. ttl \in Nat /\ ttl <= a + o.jitter /\ (a # 0 => ttl # 0)
    <2>1. CASE a = 0
      BY <1>1, <1>6, <2>1 DEF Entry!Jittered, Entry!Null
    <2>2. CASE a # 0
      <3>1. PICK d \in 0..2 * o.jitter : ttl = Entry!Max({1, a + d - o.jitter})
        BY <1>6, <2>2 DEF Entry!Jittered, Entry!Null
      <3>2. a + d - o.jitter \in Int /\ a + d - o.jitter <= a + o.jitter
        BY <1>1, <1>7
      <3>3. \E x \in {1, a + d - o.jitter} : \A y \in {1, a + d - o.jitter} : x >= y
        BY <3>2
      <3>4. ttl \in {1, a + d - o.jitter} /\ ttl >= 1
        BY <3>1, <3>2, <3>3 DEF Entry!Max
      <3> QED BY <1>1, <1>7, <2>2, <3>2, <3>4
    <2> QED BY <2>1, <2>2
  <1> QED BY <1>1, <1>3, <1>7, <1>8, <1>9

\* What a set writes to a layer.
LEMMA StoredIsKept ==
    ASSUME EntryInv, WithinTenYears, NEW l \in {1, 2}, NEW kind \in {"value", "empty"},
           NEW o \in WriteOptions, NEW s \in Entry!LayerEntries(l, kind, o)
    PROVE  KeptSlot(s, now) /\ (WindowsHaveTtls => HasTtl(s.entry))
  <1> DEFINE w == [swr |-> o.swr, sie |-> o.sie]
             E(ttl) == Entry!Create(kind, sets + 1, ttl, w, now)
             r(ttl) == Entry!RemainingStored(E(ttl), now)
  <1>1. PICK ttl \in Entry!FreshTtls(l, kind, o) :
          s = Entry!Put(E(ttl), IF r(ttl) = Entry!Null THEN ttl ELSE r(ttl))
    BY DEF Entry!LayerEntries
  <1>2. /\ ttl \in Nat /\ ttl + o.swr <= TenYears /\ ttl + o.sie <= TenYears
        /\ WindowsHaveTtls /\ (o.swr # 0 \/ o.sie # 0) => ttl # 0
    BY FreshTtlsAre
  <1>3. o.swr \in Nat /\ o.sie \in Nat /\ now \in Nat /\ sets + 1 \in Nat
    BY DurationsAssumption DEF EntryInv
  <1>4. w.swr = o.swr /\ w.sie = o.sie
    OBVIOUS
  <1> HIDE DEF w
  <1>5. WholeEntry(E(ttl), now) /\ (WindowsHaveTtls => HasTtl(E(ttl)))
    BY <1>2, <1>3, <1>4, CreatedIsWhole
  <1>6. /\ r(ttl) \in Nat /\ (Entry!Deadlines(E(ttl)) # {} => r(ttl) # 0)
        /\ \A d \in Entry!Deadlines(E(ttl)) : now + r(ttl) >= d
    BY <1>3, <1>5, RemainingSpans
  <1> HIDE DEF E, r
  <1>7. s.entry = E(ttl) /\ s.until \in Nat /\ (r(ttl) # 0 => s.until = now + r(ttl))
    BY <1>1, <1>2, <1>3, <1>6 DEF Entry!Put, Entry!Null
  <1>8. Spanned(s)
    BY <1>3, <1>6, <1>7 DEF Spanned
  <1> QED BY <1>5, <1>7, <1>8 DEF KeptSlot

\* A layer that a read with a mode hits holds an entry the mode accepts.
LEMMA HitIs ==
    ASSUME EntryInv, NEW mode, Entry!Accepted(mode) # {}
    PROVE  /\ Entry!Hit(mode) \in Entry!Accepted(mode) /\ Entry!Hit(mode) \in Entry!Kept(store)
           /\ Entry!Hit(mode) \in DOMAIN store /\ Entry!Hit(mode) \in {1, 2}
  <1>1. Entry!Accepted(mode) \subseteq Entry!Kept(store) /\ Entry!Kept(store) \subseteq DOMAIN store
    BY DEF Entry!Accepted, Entry!Kept
  <1>2. Entry!Accepted(mode) \subseteq {1, 2, 2} /\ 1 \in Nat /\ 2 \in Nat
    BY <1>1 DEF EntryInv
  <1>3. Entry!Min(Entry!Accepted(mode)) \in Entry!Accepted(mode)
    BY <1>2, MinOfThree
  <1> QED BY <1>1, <1>2, <1>3 DEF Entry!Hit

\* A read leaves in a layer what was there or what a hit refills.
LEMMA ReadLeaves ==
    ASSUME EntryInv, NEW mode
    PROVE  LET m == Entry!AfterRead(mode)
           IN  /\ DOMAIN m \subseteq {1, 2}
               /\ \A l \in DOMAIN m :
                    \/ l \in DOMAIN store /\ m[l] = store[l]
                    \/ /\ Entry!Accepted(mode) # {}
                       /\ m[l] = Entry!Refill(l, store[Entry!Hit(mode)].entry)
               /\ Entry!Accepted(mode) # {} =>
                    Entry!Hit(mode) \in DOMAIN m /\ m[Entry!Hit(mode)] = store[Entry!Hit(mode)]
  <1> DEFINE h == Entry!Hit(mode)
             seen == IF Entry!Accepted(mode) = {} THEN {1, 2} ELSE 1..h
             kept == {l \in DOMAIN store : l \in seen =>
                        l \in Entry!Kept(store) /\ Entry!StateIn(store, l) # "expired"}
             remaining == [l \in kept |-> store[l]]
             ls == {l \in {1, 2} : l < h}
             m == Entry!AfterRead(mode)
  <1>1. DOMAIN store \subseteq {1, 2}
    BY DEF EntryInv
  <1>2. CASE Entry!Accepted(mode) = {}
    <2>1. m = remaining
      BY <1>2 DEF Entry!AfterRead, Entry!Layers
    <2> QED BY <1>1, <1>2, <2>1
  <1>3. CASE Entry!Accepted(mode) # {}
    <2>1. h \in Entry!Accepted(mode) /\ h \in Entry!Kept(store) /\ h \in DOMAIN store /\ h \in {1, 2}
      BY <1>3, HitIs
    <2>2. m = [l \in kept \cup ls |-> IF l \in ls THEN Entry!Refill(l, store[h].entry) ELSE store[l]]
      BY <1>3 DEF Entry!AfterRead, Entry!Set1, Entry!Layers
    <2>3. Entry!StateIn(store, h) # "expired"
      BY <2>1 DEF Entry!Accepted
    <2> HIDE DEF h, m
    <2>4. h \in kept /\ h \notin ls
      BY <2>1, <2>3
    <2> HIDE DEF kept, ls, seen, remaining
    <2>5. kept \cup ls \subseteq {1, 2} /\ kept \subseteq DOMAIN store
      BY <1>1 DEF kept, ls
    <2> QED BY <1>3, <2>2, <2>4, <2>5 DEF h, m
  <1> QED BY <1>2, <1>3

\* What the layers hold after a read is kept, and after a slide.
LEMMA ReadKeeps ==
    ASSUME EntryInv, NEW mode
    PROVE  LET m == Entry!AfterRead(mode)
           IN  /\ DOMAIN m \subseteq {1, 2}
               /\ \A l \in DOMAIN m : KeptSlot(m[l], now)
               /\ EnvelopeInv => \A l \in DOMAIN m : HasTtl(m[l].entry)
  <1> DEFINE m == Entry!AfterRead(mode)
  <1>1. DOMAIN m \subseteq {1, 2}
    BY ReadLeaves
  <1>2. ASSUME NEW l \in DOMAIN m PROVE KeptSlot(m[l], now) /\ (EnvelopeInv => HasTtl(m[l].entry))
    <2>1. CASE l \in DOMAIN store /\ m[l] = store[l]
      BY <2>1 DEF EntryInv, EnvelopeInv
    <2>2. CASE Entry!Accepted(mode) # {} /\ m[l] = Entry!Refill(l, store[Entry!Hit(mode)].entry)
      <3>1. Entry!Hit(mode) \in DOMAIN store
        BY <2>2, HitIs
      <3>2. WholeEntry(store[Entry!Hit(mode)].entry, now) /\ now \in Nat /\ l \in {1, 2}
        BY <1>1, <3>1 DEF EntryInv, KeptSlot
      <3>3. m[l].entry = store[Entry!Hit(mode)].entry /\ KeptSlot(m[l], now)
        BY <2>2, <3>2, RefillKeeps
      <3> QED BY <3>1, <3>3 DEF EnvelopeInv
    <2> QED BY <1>2, <2>1, <2>2, ReadLeaves
  <1> QED BY <1>1, <1>2

LEMMA SlideKeeps ==
    ASSUME now \in Nat, NEW m, NEW l \in DOMAIN m, DOMAIN m \subseteq {1, 2},
           \A i \in DOMAIN m : KeptSlot(m[i], now)
    PROVE  LET s == Entry!Slide(m, l)
           IN  /\ DOMAIN s \subseteq {1, 2}
               /\ \A i \in DOMAIN s : KeptSlot(s[i], now)
               /\ (\A i \in DOMAIN m : HasTtl(m[i].entry)) => \A i \in DOMAIN s : HasTtl(s[i].entry)
  <1> DEFINE s == Entry!Slide(m, l)
             e == Entry!Refreshed(m[l].entry, now)
  <1>1. l \in {1, 2} /\ 1..l \subseteq {1, 2}
    OBVIOUS
  <1>2. \/ s = m
        \/ s = [i \in DOMAIN m \cup 1..l |-> IF i \in 1..l THEN Entry!Refill(i, e) ELSE m[i]]
    BY DEF Entry!Slide, Entry!Set1
  <1>3. WholeEntry(e, now) /\ (HasTtl(m[l].entry) => HasTtl(e))
    BY RefreshedIsWhole DEF KeptSlot
  <1> HIDE DEF s, e
  <1>4. \A i \in {1, 2} : Entry!Refill(i, e).entry = e /\ KeptSlot(Entry!Refill(i, e), now)
    BY <1>3, RefillKeeps
  <1>5. CASE s = m
    BY <1>5 DEF s
  <1>6. CASE s = [i \in DOMAIN m \cup 1..l |-> IF i \in 1..l THEN Entry!Refill(i, e) ELSE m[i]]
    <2>1. DOMAIN s \subseteq {1, 2}
      BY <1>1, <1>6
    <2>2. \A i \in DOMAIN s : KeptSlot(s[i], now)
      BY <1>1, <1>4, <1>6
    <2>3. (\A i \in DOMAIN m : HasTtl(m[i].entry)) => \A i \in DOMAIN s : HasTtl(s[i].entry)
      BY <1>1, <1>3, <1>4, <1>6
    <2> QED BY <2>1, <2>2, <2>3 DEF s
  <1> QED BY <1>2, <1>5, <1>6

\* Stores that keep what they hold.
Keeps(m) == DOMAIN m \subseteq {1, 2} /\ \A l \in DOMAIN m : KeptSlot(m[l], now)
HaveTtls(m) == \A l \in DOMAIN m : HasTtl(m[l].entry)

LEMMA StoreKeeps ==
    ASSUME EntryInv, WithinTenYears, NEW kind \in {"value", "empty"}, NEW o \in WriteOptions,
           Entry!Store(kind, o)
    PROVE  /\ Keeps(store') /\ (WindowsHaveTtls => HaveTtls(store'))
           /\ sets' \in Nat /\ sets' # sets
  <1>1. PICK a \in Entry!LayerEntries(1, kind, o), b \in Entry!LayerEntries(2, kind, o) : store' = <<a, b>>
    BY DEF Entry!Store
  <1>2. /\ KeptSlot(a, now) /\ KeptSlot(b, now)
        /\ WindowsHaveTtls => HasTtl(a.entry) /\ HasTtl(b.entry)
    BY StoredIsKept
  <1>3. DOMAIN store' = {1, 2} /\ store'[1] = a /\ store'[2] = b
    BY <1>1
  <1>4. sets' \in Nat /\ sets' # sets
    BY DEF Entry!Store, EntryInv
  <1> QED BY <1>2, <1>3, <1>4 DEF Keeps, HaveTtls

LEMMA ExpireKeeps ==
    ASSUME EntryInv, Entry!Expire
    PROVE  /\ Keeps(store') /\ (EnvelopeInv => HaveTtls(store'))
           /\ EnvelopeInv => \A l \in DOMAIN store' : Entry!State(store'[l].entry, now) # "fresh"
  <1> DEFINE S(l) == LET e == store[l].entry
                     IN  IF Entry!IsEnvelope(e, now) THEN Entry!Refill(l, Entry!Expired(e, now)) ELSE store[l]
  <1>1. store' = [l \in Entry!Kept(store) |-> S(l)] /\ Entry!Kept(store) \subseteq DOMAIN store
    BY DEF Entry!Expire, Entry!Kept
  <1>2. now \in Nat \ {0} /\ DOMAIN store \subseteq {1, 2}
    BY DEF EntryInv
  <1>3. ASSUME NEW l \in Entry!Kept(store)
        PROVE  /\ KeptSlot(S(l), now)
               /\ EnvelopeInv => HasTtl(S(l).entry) /\ Entry!State(S(l).entry, now) # "fresh"
    <2> DEFINE e == store[l].entry
               x == Entry!Expired(e, now)
    <2>1. l \in DOMAIN store /\ l \in {1, 2} /\ KeptSlot(store[l], now) /\ WholeEntry(e, now)
      BY <1>1, <1>2 DEF EntryInv, KeptSlot
    <2>2. CASE ~Entry!IsEnvelope(e, now)
      <3>1. S(l) = store[l]
        BY <2>2
      <3>2. ~EnvelopeInv
        BY <1>2, <2>1, <2>2, WholeIsEnvelope DEF EnvelopeInv
      <3> QED BY <2>1, <3>1, <3>2
    <2>3. CASE Entry!IsEnvelope(e, now)
      <3>1. S(l) = Entry!Refill(l, x)
        BY <2>3
      <3>2. WholeEntry(x, now) /\ (HasTtl(e) => HasTtl(x)) /\ x.freshUntil # 0 /\ x.freshUntil <= now
        BY <1>2, <2>1, <2>3, ExpiredIsWhole
      <3>3. x.freshUntil \in Nat
        BY <3>2 DEF WholeEntry, EntryFields
      <3> HIDE DEF S, x
      <3>4. S(l).entry = x /\ KeptSlot(S(l), now)
        BY <1>2, <2>1, <3>1, <3>2, RefillKeeps
      <3>5. EnvelopeInv => HasTtl(x) /\ Entry!IsEnvelope(x, now)
        BY <1>2, <2>1, <3>2, WholeIsEnvelope DEF EnvelopeInv
      <3>6. EnvelopeInv => Entry!State(x, now) # "fresh"
        BY <1>2, <3>2, <3>3, <3>5 DEF Entry!State, Entry!Null
      <3> QED BY <3>4, <3>5, <3>6
    <2> QED BY <2>2, <2>3
  <1> HIDE DEF S
  <1>4. DOMAIN store' = Entry!Kept(store) /\ \A l \in DOMAIN store' : store'[l] = S(l)
    BY <1>1
  <1> QED BY <1>1, <1>2, <1>3, <1>4 DEF Keeps, HaveTtls

LEMMA EntryInit == Entry!Init => EntryInv /\ EnvelopeInv
  <1> SUFFICES ASSUME Entry!Init PROVE EntryInv /\ DOMAIN store = {}
    BY DEF EnvelopeInv
  <1> QED BY DEF Entry!Init, EntryInv

\* What a step does to the layers.
LEMMA EntryStep ==
    ASSUME EntryInv, WithinTenYears, Entry!Next, now' = now
    PROVE  Keeps(store') /\ (EnvelopeInv /\ WindowsHaveTtls => HaveTtls(store')) /\ hits' \in Nat /\ sets' \in Nat
  <1>h. /\ hits \in Nat /\ sets \in Nat /\ now \in Nat /\ HotAfter \in Nat
        /\ Entry!Min({hits + 1, 2 * HotAfter}) \in Nat
    BY DurationsAssumption, MinOfTwo DEF EntryInv
  <1>k. Keeps(store) /\ (EnvelopeInv => HaveTtls(store))
    BY DEF EntryInv, EnvelopeInv, Keeps, HaveTtls
  <1>r. \A mode : Keeps(Entry!AfterRead(mode)) /\ (EnvelopeInv => HaveTtls(Entry!AfterRead(mode)))
    BY ReadKeeps DEF Keeps, HaveTtls
  <1>f. ASSUME NEW o \in WriteOptions, Entry!FetchAndPopulate(o)
        PROVE  Keeps(store') /\ (EnvelopeInv /\ WindowsHaveTtls => HaveTtls(store')) /\ sets' \in Nat
    <2>1. CASE UNCHANGED <<store, sets>>
      BY <1>h, <1>k, <2>1 DEF Keeps, HaveTtls
    <2> QED BY <1>f, <2>1, StoreKeeps DEF Entry!FetchAndPopulate
  <1>1. ASSUME NEW fetcher \in BOOLEAN, Entry!GetHit(fetcher)
        PROVE  Keeps(store') /\ (EnvelopeInv /\ WindowsHaveTtls => HaveTtls(store')) /\ hits' \in Nat /\ sets' \in Nat
    <2> DEFINE m == Entry!AfterRead("allow-stale")
               l == Entry!Hit("allow-stale")
    <2>1. store' = Entry!Slide(m, l) /\ Entry!Accepted("allow-stale") # {} /\ sets' = sets
          /\ hits' = Entry!Min({hits + 1, 2 * HotAfter})
      BY <1>1 DEF Entry!GetHit
    <2>2. l \in DOMAIN m
      BY <2>1, ReadLeaves
    <2>3. Keeps(m) /\ (EnvelopeInv => HaveTtls(m))
      BY <1>r
    <2> HIDE DEF m, l
    <2> QED BY <1>h, <2>1, <2>2, <2>3, SlideKeeps DEF Keeps, HaveTtls
  <1>2. ASSUME NEW o \in WriteOptions, Entry!GetStale(o)
        PROVE  Keeps(store') /\ (EnvelopeInv /\ WindowsHaveTtls => HaveTtls(store')) /\ hits' \in Nat /\ sets' \in Nat
    <2>1. hits' = Entry!Min({hits + 1, 2 * HotAfter})
      BY <1>2 DEF Entry!GetStale
    <2>2. \/ sets' = sets /\ \E mode \in {"fresh-only", "allow-stale"} : store' = Entry!AfterRead(mode)
          \/ Entry!FetchAndPopulate(o)
      BY <1>2 DEF Entry!GetStale
    <2> QED BY <1>h, <1>r, <1>f, <2>1, <2>2
  <1>3. ASSUME NEW o \in WriteOptions, Entry!GetMiss(o)
        PROVE  Keeps(store') /\ (EnvelopeInv /\ WindowsHaveTtls => HaveTtls(store')) /\ hits' \in Nat /\ sets' \in Nat
    <2>1. hits' = hits
      BY <1>3 DEF Entry!GetMiss
    <2>2. \/ sets' = sets /\ store' = Entry!AfterRead("allow-stale")
          \/ Entry!FetchAndPopulate(o)
      BY <1>3 DEF Entry!GetMiss
    <2> QED BY <1>h, <1>r, <1>f, <2>1, <2>2
  <1>4. ASSUME NEW o \in WriteOptions, Entry!RefreshEnds(o)
        PROVE  Keeps(store') /\ (EnvelopeInv /\ WindowsHaveTtls => HaveTtls(store')) /\ hits' \in Nat /\ sets' \in Nat
    <2>1. hits' = hits
      BY <1>4 DEF Entry!RefreshEnds
    <2>2. \/ sets' = sets /\ store' = Entry!AfterRead("fresh-only")
          \/ Entry!FetchAndPopulate(o)
      BY <1>4 DEF Entry!RefreshEnds
    <2> QED BY <1>h, <1>r, <1>f, <2>1, <2>2
  <1>5. ASSUME NEW o \in WriteOptions, Entry!Set(o)
        PROVE  Keeps(store') /\ (EnvelopeInv /\ WindowsHaveTtls => HaveTtls(store')) /\ hits' \in Nat /\ sets' \in Nat
    BY <1>h, <1>5, StoreKeeps DEF Entry!Set
  <1>6. CASE Entry!Expire
    <2>1. hits' \in Nat /\ sets' \in Nat
      BY <1>6, <1>h DEF Entry!Expire
    <2> QED BY <1>6, <2>1, ExpireKeeps
  <1>7. CASE Entry!Delete
    <2>1. DOMAIN store' = {} /\ hits' = 0 /\ sets' = sets
      BY <1>7 DEF Entry!Delete
    <2> QED BY <1>h, <2>1 DEF Keeps, HaveTtls
  <1>8. CASE Entry!Tick
    BY <1>8, <1>h DEF Entry!Tick
  <1>9. ASSUME NEW i \in {1, 2}, Entry!Evict(i)
        PROVE  Keeps(store') /\ (EnvelopeInv /\ WindowsHaveTtls => HaveTtls(store')) /\ hits' \in Nat /\ sets' \in Nat
    <2>1. store' = [j \in DOMAIN store \ {i} |-> store[j]] /\ hits' = hits /\ sets' = sets
      BY <1>9 DEF Entry!Evict
    <2> QED BY <1>h, <1>k, <2>1 DEF Keeps, HaveTtls
  <1> QED BY <1>1, <1>2, <1>3, <1>4, <1>5, <1>6, <1>7, <1>8, <1>9 DEF Entry!Next, Entry!Layers

LEMMA EntryNext ==
    EntryInv /\ WithinTenYears /\ [Entry!Next]_(Entry!vars) =>
        EntryInv' /\ (EnvelopeInv /\ WindowsHaveTtls => EnvelopeInv')
  <1> SUFFICES ASSUME EntryInv, WithinTenYears, [Entry!Next]_(Entry!vars)
               PROVE  EntryInv' /\ (EnvelopeInv /\ WindowsHaveTtls => EnvelopeInv')
    OBVIOUS
  <1>1. CASE UNCHANGED Entry!vars
    BY <1>1 DEF Entry!vars, EntryInv, EnvelopeInv
  <1>2. CASE Entry!Next /\ now' = now
    <2>1. Keeps(store') /\ (EnvelopeInv /\ WindowsHaveTtls => HaveTtls(store')) /\ hits' \in Nat /\ sets' \in Nat
      BY <1>2, EntryStep
    <2> QED BY <1>2, <2>1 DEF EntryInv, EnvelopeInv, Keeps, HaveTtls
  <1>3. CASE Entry!Tick
    <2>1. now' = now + 1 /\ store' = store /\ hits' = hits /\ sets' = sets
      BY <1>3 DEF Entry!Tick
    <2>2. \A l \in DOMAIN store : KeptSlot(store[l], now + 1)
      BY SlotsAge DEF EntryInv
    <2> QED BY <2>1, <2>2 DEF EntryInv, EnvelopeInv
  <1>4. Entry!Next => now' = now \/ Entry!Tick
    BY DEF Entry!Next, Entry!GetHit, Entry!GetStale, Entry!GetMiss, Entry!RefreshEnds, Entry!Set, Entry!Expire, Entry!Delete, Entry!Evict
  <1> QED BY <1>1, <1>2, <1>3, <1>4

\* If no TTL with its jitter and window exceeds ten years, a layer keeps every
\* entry to the last deadline of its envelope, after any sets, backfills, slides
\* and expires (remainingStoredTtlMs).
THEOREM WindowsAreSpanned == WithinTenYears /\ Entry!Spec => []LayersSpanWindows
  <1>1. EntryInv => LayersSpanWindows
    <2> SUFFICES ASSUME EntryInv, NEW l \in DOMAIN store, Entry!Deadlines(store[l].entry) # {}
                 PROVE  store[l].until >= Entry!Max(Entry!Deadlines(store[l].entry))
      BY DEF LayersSpanWindows, Entry!LayersSpanWindows
    <2> DEFINE e == store[l].entry
    <2>1. KeptSlot(store[l], now) /\ e.freshUntil \in Nat /\ e.staleUntil \in Nat /\ e.errorUntil \in Nat
      BY DEF EntryInv, KeptSlot, WholeEntry, EntryFields
    <2>2. Entry!Deadlines(e) \subseteq {e.freshUntil, e.staleUntil, e.errorUntil}
      BY DEF Entry!Deadlines
    <2>3. Entry!Max(Entry!Deadlines(e)) \in Entry!Deadlines(e)
      BY <2>1, <2>2, MaxOfDeadlines
    <2> QED BY <2>1, <2>3 DEF KeptSlot, Spanned
  <1>2. WithinTenYears /\ Entry!Init => WithinTenYears /\ EntryInv
    BY EntryInit
  <1>3. WithinTenYears /\ EntryInv /\ [Entry!Next]_(Entry!vars) => WithinTenYears' /\ EntryInv'
    BY EntryNext DEF WithinTenYears
  <1> QED BY <1>1, <1>2, <1>3, PTL DEF Entry!Spec

\* A read that finds no fresh entry leaves none.
LEMMA ReadStaysStale ==
    ASSUME EntryInv, ~Entry!AnyFresh(store), NEW mode
    PROVE  ~Entry!AnyFresh(Entry!AfterRead(mode))
  <1> DEFINE m == Entry!AfterRead(mode)
             h == Entry!Hit(mode)
  <1> SUFFICES ASSUME NEW l \in Entry!Kept(m), Entry!StateIn(m, l) = "fresh" PROVE FALSE
    BY DEF Entry!AnyFresh
  <1>1. l \in DOMAIN m /\ (m[l].until = 0 \/ m[l].until > now)
    BY DEF Entry!Kept, Entry!Null
  <1>2. CASE l \in DOMAIN store /\ m[l] = store[l]
    BY <1>1, <1>2 DEF Entry!AnyFresh, Entry!Kept, Entry!StateIn, Entry!Null
  <1>3. CASE Entry!Accepted(mode) # {} /\ m[l] = Entry!Refill(l, store[h].entry)
    <2>1. h \in Entry!Kept(store)
      BY <1>3, HitIs
    <2>2. m[l].entry = store[h].entry
      BY <1>3 DEF Entry!Refill, Entry!Put
    <2> QED BY <2>1, <2>2 DEF Entry!AnyFresh, Entry!StateIn
  <1> QED BY <1>1, <1>2, <1>3, ReadLeaves

\* A step other than expire that stores no value makes none fresh.
LEMMA StaysStale ==
    ASSUME EntryInv, ~Entry!AnyFresh(store), Entry!Next, now' = now, sets' = sets
    PROVE  ~Entry!AnyFresh(store') \/ Entry!Expire
  <1>s. ASSUME store' = store PROVE ~Entry!AnyFresh(store')
    BY <1>s
  <1>r. ASSUME NEW mode, store' = Entry!AfterRead(mode) PROVE ~Entry!AnyFresh(store')
    BY <1>r, ReadStaysStale
  <1>n. \A kind, o : ~Entry!Store(kind, o)
    BY DEF Entry!Store, EntryInv
  <1>f. ASSUME NEW o, Entry!FetchAndPopulate(o) PROVE ~Entry!AnyFresh(store')
    BY <1>f, <1>n, <1>s DEF Entry!FetchAndPopulate
  <1>1. ASSUME NEW fetcher, Entry!GetHit(fetcher) PROVE ~Entry!AnyFresh(store')
    <2> DEFINE m == Entry!AfterRead("allow-stale")
               l == Entry!Hit("allow-stale")
    <2>1. store' = Entry!Slide(m, l) /\ Entry!Accepted("allow-stale") # {}
      BY <1>1 DEF Entry!GetHit
    <2>2. m[l] = store[l] /\ l \in Entry!Kept(store)
      BY <2>1, ReadLeaves, HitIs
    <2>3. Entry!StateIn(m, l) # "fresh"
      BY <2>2 DEF Entry!AnyFresh, Entry!StateIn
    <2>4. store' = m
      BY <2>1, <2>3 DEF Entry!Slide
    <2> QED BY <2>4, <1>r
  <1>2. ASSUME NEW o, Entry!GetStale(o) PROVE ~Entry!AnyFresh(store')
    BY <1>2, <1>r, <1>f DEF Entry!GetStale
  <1>3. ASSUME NEW o, Entry!GetMiss(o) PROVE ~Entry!AnyFresh(store')
    BY <1>3, <1>r, <1>f DEF Entry!GetMiss
  <1>4. ASSUME NEW o, Entry!RefreshEnds(o) PROVE ~Entry!AnyFresh(store')
    BY <1>4, <1>r, <1>f DEF Entry!RefreshEnds
  <1>5. \A o : ~Entry!Set(o)
    BY <1>n DEF Entry!Set
  <1>6. ASSUME Entry!Delete PROVE ~Entry!AnyFresh(store')
    <2>1. DOMAIN store' = {}
      BY <1>6 DEF Entry!Delete
    <2> QED BY <2>1 DEF Entry!AnyFresh, Entry!Kept
  <1>7. ~Entry!Tick
    BY DEF Entry!Tick, EntryInv
  <1>8. ASSUME NEW i, Entry!Evict(i) PROVE ~Entry!AnyFresh(store')
    <2>1. store' = [j \in DOMAIN store \ {i} |-> store[j]]
      BY <1>8 DEF Entry!Evict
    <2> QED BY <2>1 DEF Entry!AnyFresh, Entry!Kept, Entry!StateIn
  <1> QED BY <1>1, <1>2, <1>3, <1>4, <1>5, <1>6, <1>7, <1>8 DEF Entry!Next

\* If moreover what has a window has a TTL, no read, slide, backfill or failed
\* refresh makes an entry fresh again, and none is fresh after an expire
\* (applyFreshReadPolicies, expireStoredEnvelope).
THEOREM FreshnessStaysLost == WithinTenYears /\ WindowsHaveTtls /\ Entry!Spec => FreshnessNotRegained
  <1> DEFINE WholeInv == WithinTenYears /\ WindowsHaveTtls /\ EntryInv /\ EnvelopeInv
             StaysLost == now' = now /\ sets' = sets /\ (~Entry!AnyFresh(store) \/ Entry!Expire) =>
                            ~Entry!AnyFresh(store')
  <1>1. WholeInv /\ [Entry!Next]_(Entry!vars) => [StaysLost]_(Entry!vars)
    <2> SUFFICES ASSUME WholeInv, Entry!Next, now' = now, sets' = sets, ~Entry!AnyFresh(store) \/ Entry!Expire
                 PROVE  ~Entry!AnyFresh(store')
      OBVIOUS
    <2>1. CASE Entry!Expire
      <3>1. \A l \in DOMAIN store' : Entry!State(store'[l].entry, now) # "fresh"
        BY <2>1, ExpireKeeps
      <3> QED BY <3>1 DEF Entry!AnyFresh, Entry!Kept, Entry!StateIn
    <2> QED BY <2>1, StaysStale
  <1>2. WithinTenYears /\ WindowsHaveTtls /\ Entry!Init => WholeInv
    BY EntryInit
  <1>3. WholeInv /\ [Entry!Next]_(Entry!vars) => WholeInv'
    BY EntryNext DEF WithinTenYears, WindowsHaveTtls
  <1>4. FreshnessNotRegained <=> [][StaysLost]_(Entry!vars)
    BY DEF FreshnessNotRegained, Entry!FreshnessNotRegained
  <1> HIDE DEF WholeInv, StaysLost
  <1> QED BY <1>1, <1>2, <1>3, <1>4, PTL DEF Entry!Spec
=============================================================================
