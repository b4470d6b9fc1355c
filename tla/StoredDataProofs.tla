-------------------------- MODULE StoredDataProofs --------------------------
(***************************************************************************)
(* Of the components that store data outside of one process or say what is *)
(* stored: Instances, SnapshotFile, DiskLayer, RedisLayer and              *)
(* RedisTagIndex, for any number of instances, clients, calls, keys, tags, *)
(* files and commands.                                                     *)
(***************************************************************************)
EXTENDS MCStoredData, FiniteSetTheorems, SequenceTheorems, TLAPS

\* The elements of a sequence to which one was appended.
LEMMA AppendElements ==
    ASSUME NEW S, NEW s \in Seq(S), NEW e \in S, NEW t, t = Append(s, e)
    PROVE  /\ t \in Seq(S) /\ t # << >> /\ Len(t) = Len(s) + 1 /\ DOMAIN t = DOMAIN s \cup {Len(s) + 1} /\ t[Len(s) + 1] = e
           /\ \A i \in DOMAIN s : i \in Nat /\ i < Len(s) + 1 /\ t[i] = s[i] /\ s[i] \in S
           /\ s # << >> => Head(t) = Head(s)
  <1>1. t \in Seq(S) /\ Len(t) = Len(s) + 1 /\ t[Len(s) + 1] = e /\ Len(s) \in Nat
    OBVIOUS
  <1>2. t # << >>
    BY <1>1
  <1>3. DOMAIN t = DOMAIN s \cup {Len(s) + 1}
    BY <1>1
  <1>4. \A i \in DOMAIN s : i \in Nat /\ i < Len(s) + 1 /\ t[i] = s[i] /\ s[i] \in S
    OBVIOUS
  <1>5. s # << >> => Head(t) = Head(s)
    OBVIOUS
  <1> QED BY <1>1, <1>2, <1>3, <1>4, <1>5

\* The elements of a sequence without its first.
LEMMA TailElements ==
    ASSUME NEW S, NEW s \in Seq(S), s # << >>, NEW t, t = Tail(s)
    PROVE  /\ t \in Seq(S) /\ 1 \in DOMAIN s /\ Head(s) = s[1] /\ s[1] \in S
           /\ \A i \in DOMAIN t : i \in Nat /\ i + 1 \in DOMAIN s /\ t[i] = s[i + 1] /\ t[i] \in S /\ i + 1 > 1
           /\ \A i \in DOMAIN s : i # 1 => i - 1 \in DOMAIN t /\ t[i - 1] = s[i]
           /\ Len(s) = 1 => t = << >>
  <1>1. t \in Seq(S) /\ Len(t) = Len(s) - 1 /\ Len(s) \in Nat
    OBVIOUS
  <1>2. 1 \in DOMAIN s /\ Head(s) = s[1] /\ s[1] \in S
    OBVIOUS
  <1>3. \A i \in DOMAIN t : i \in Nat /\ i + 1 \in DOMAIN s /\ t[i] = s[i + 1] /\ t[i] \in S /\ i + 1 > 1
    OBVIOUS
  <1>4. \A i \in DOMAIN s : i # 1 => i - 1 \in DOMAIN t /\ t[i - 1] = s[i]
    <2> SUFFICES ASSUME NEW i \in DOMAIN s, i # 1 PROVE i - 1 \in DOMAIN t /\ t[i - 1] = s[i]
      OBVIOUS
    <2>1. i \in 2..Len(s) /\ i - 1 \in 1..Len(t)
      BY <1>1
    <2>2. i - 1 \in DOMAIN t
      BY <1>1, <2>1
    <2>3. t[i - 1] = s[(i - 1) + 1] /\ (i - 1) + 1 = i
      BY <1>3, <2>1, <2>2
    <2> QED BY <2>2, <2>3
  <1>5. Len(s) = 1 => t = << >>
    BY <1>1
  <1> QED BY <1>1, <1>2, <1>3, <1>4, <1>5

-----------------------------------------------------------------------------
(***************************************************************************)
(* Instances.  At rest nothing is stale if until then whoever holds a      *)
(* value that was overtaken has a message coming (OvertakenHasMail), and   *)
(* whoever disputes the shared value has one coming or the instance that   *)
(* wrote the shared value is about to publish it (DisputesEnd).            *)
(***************************************************************************)
Writes(i) == call[i].op \in {"set", "delete"}
CallsMatch ==
    \A i \in Instance :
        /\ call[i].op = "none" <=> call[i].pc = "idle"
        /\ call[i].op = "get" => call[i].pc \in {"waiting", "answered", "stored"}
        /\ call[i].op = "delete" => call[i].pc \in {"waiting", "answered"} /\ call[i].value = 0
        /\ call[i].op = "set" => call[i].pc \in {"waiting", "answered", "cleaning", "cleaned"}
        /\ status[i] = "starting" => local[i] = 0 /\ call[i].op = "none"

ValuesAreNew ==
    /\ \A i \in Instance : call[i].op = "set" => call[i].value # 0 /\ call[i].value \notin returned
    /\ \A i, j \in Instance :
         call[i].op = "set" /\ call[j].op = "set" /\ i # j => call[i].value # call[j].value

LocalsMatch ==
    \A i \in Instance :
       /\ Writes(i) => local[i] \in {0, call[i].value}
       /\ call[i].fenced => local[i] = 0

RemoteIsLast ==
    /\ remote \notin overtaken
    /\ \A i \in Instance : Writes(i) /\ call[i].pc # "waiting" => remote \notin call[i].prior

Holds(i, v) ==
    \/ local[i] = v
    \/ call[i].op = "get" /\ call[i].pc = "answered" /\ ~call[i].fenced /\ call[i].value = v

Disputes(v) == v # 0 /\ remote # 0 /\ v # remote

Underway(i) ==
    \E j \in Instance \ {i} :
        call[j].op = "set" /\ call[j].pc \in {"answered", "cleaning"} /\ call[j].value = remote

OvertakenHasMail ==
    \A i \in Instance : \A v \in overtaken :
        status[i] = "on" /\ Holds(i, v) => inbox[i] # << >>

DisputesEnd ==
    \A i \in Instance : \A v \in Inst!Values :
        status[i] = "on" /\ Holds(i, v) /\ Disputes(v) =>
            \/ inbox[i] # << >> \/ Underway(i)
            \/ call[i].op = "set" /\ call[i].pc = "waiting"

InstInv ==
    /\ Inst!TypeOK /\ CallsMatch /\ ValuesAreNew /\ LocalsMatch
    /\ RemoteIsLast /\ OvertakenHasMail /\ DisputesEnd

USE DEF Inst!Absent

LEMMA InstInit == Inst!Init => InstInv
  <1> SUFFICES ASSUME Inst!Init PROVE InstInv
    OBVIOUS
  <1>1. Inst!TypeOK
    BY DEF Inst!Init, Inst!TypeOK, Inst!Values, Inst!Call, Inst!Idle
  <1>2. \A i \in Instance : call[i].op = "none" /\ call[i].pc = "idle" /\ local[i] = 0 /\ ~call[i].fenced
    BY DEF Inst!Init, Inst!Idle
  <1>3. remote = 0 /\ overtaken = {}
    BY DEF Inst!Init
  <1> QED BY <1>1, <1>2, <1>3
    DEF InstInv, CallsMatch, ValuesAreNew, LocalsMatch, RemoteIsLast, OvertakenHasMail, DisputesEnd,
        Writes, Disputes

LEMMA UnderwayStays ==
    ASSUME NEW i \in Instance, \A j \in Instance \ {i} : call'[j] = call[j],
           remote' = remote,
           \/ call[i].op # "set" \/ call[i].pc \notin {"answered", "cleaning"}
           \/ call'[i].op = "set" /\ call'[i].pc \in {"answered", "cleaning"} /\ call'[i].value = call[i].value
    PROVE  \A k \in Instance : Underway(k) => Underway(k)'
  <1> SUFFICES ASSUME NEW k \in Instance, Underway(k) PROVE Underway(k)'
    OBVIOUS
  <1>1. PICK j \in Instance \ {k} :
          call[j].op = "set" /\ call[j].pc \in {"answered", "cleaning"} /\ call[j].value = remote
    BY DEF Underway
  <1>2. call'[j].op = "set" /\ call'[j].pc \in {"answered", "cleaning"} /\ call'[j].value = remote'
    BY <1>1
  <1> QED BY <1>2 DEF Underway

LEMMA InstBegin ==
    ASSUME InstInv, NEW i \in Instance, NEW op \in {"set", "delete", "get"}, NEW v \in {0, calls+1},
           op = "set" <=> v = calls + 1,
           Inst!Begin(i, op, v),
           local' = IF op = "get" THEN local ELSE [local EXCEPT ![i] = v]
    PROVE  InstInv'
  <1> DEFINE c == [op |-> op, pc |-> "waiting", value |-> v, fenced |-> FALSE, prior |-> returned]
  <1>1. Inst!TypeOK'
    BY DEF InstInv, Inst!TypeOK, Inst!Begin, Inst!Values, Inst!Call
  <1>2. call' = [call EXCEPT ![i] = c] /\ call[i].op = "none" /\ status[i] = "on"
    BY DEF Inst!Begin, Inst!Idle, Inst!Ready
  <1>3. call'[i] = c /\ \A j \in Instance \ {i} : call'[j] = call[j]
    BY <1>2 DEF InstInv, Inst!TypeOK
  <1>4. CallsMatch' /\ LocalsMatch'
    BY <1>3, <1>2 DEF InstInv, Inst!TypeOK, CallsMatch, LocalsMatch, Writes, Inst!Begin
  <1>5. ValuesAreNew'
    BY <1>3, <1>2 DEF InstInv, Inst!TypeOK, ValuesAreNew, Inst!Begin, Inst!Values, Inst!Call
  <1>6. RemoteIsLast'
    BY <1>3, <1>2 DEF InstInv, Inst!TypeOK, RemoteIsLast, Inst!Begin, Writes
  <1>7. OvertakenHasMail'
    BY <1>3, <1>2 DEF InstInv, Inst!TypeOK, OvertakenHasMail, Inst!Begin, Holds
  <1>8. DisputesEnd'
    <2> SUFFICES ASSUME NEW k \in Instance, NEW u \in Inst!Values', status'[k] = "on", Holds(k, u)', Disputes(u)'
                 PROVE  \/ inbox'[k] # << >> \/ Underway(k)'
                        \/ call'[k].op = "set" /\ call'[k].pc = "waiting"
      BY DEF DisputesEnd
    <2>1. Underway(k) => Underway(k)'
      BY UnderwayStays, <1>2, <1>3 DEF Inst!Begin
    <2>2. CASE k = i /\ op = "set"
      BY <2>2, <1>3
    <2>3. CASE k = i /\ op # "set"
      <3>1. local'[i] = u /\ (op = "get" => local[i] = u) /\ (op = "delete" => u = 0)
        BY <2>3, <1>3 DEF Holds, InstInv, Inst!TypeOK
      <3>2. op = "get" /\ u \in Inst!Values /\ Holds(i, u) /\ Disputes(u)
        BY <2>3, <3>1 DEF Holds, Disputes, InstInv, Inst!TypeOK, Inst!Begin
      <3> QED BY <2>1, <2>3, <3>2, <1>2 DEF InstInv, DisputesEnd, Inst!Begin
    <2>4. CASE k # i
      <3>1. Holds(k, u) /\ u \in Inst!Values
        BY <2>4, <1>3 DEF Holds, InstInv, Inst!TypeOK, Inst!Call
      <3> QED BY <2>1, <2>4, <3>1, <1>3 DEF InstInv, DisputesEnd, Disputes, Inst!Begin
    <2> QED BY <2>2, <2>3, <2>4
  <1> QED BY <1>1, <1>4, <1>5, <1>6, <1>7, <1>8 DEF InstInv

\* What a step that starts no call and lets nothing land does to the disputes.
LEMMA DisputesKept ==
    ASSUME InstInv, NEW i \in Instance, \A j \in Instance \ {i} : call'[j] = call[j],
           remote' \in {remote, 0}, calls' = calls,
           remote' = remote =>
              \/ call[i].op # "set" \/ call[i].pc \notin {"answered", "cleaning"}
              \/ call'[i].op = "set" /\ call'[i].pc \in {"answered", "cleaning"} /\ call'[i].value = call[i].value,
           \A k \in Instance : \A u \in Inst!Values : status'[k] = "on" /\ Holds(k, u)' /\ u # 0 =>
              \/ inbox'[k] # << >>
              \/ /\ status[k] = "on" /\ Holds(k, u) /\ inbox[k] = << >>
                 /\ call[k].op = "set" /\ call[k].pc = "waiting"
                      => call'[k].op = "set" /\ call'[k].pc = "waiting"
    PROVE  DisputesEnd'
  <1> SUFFICES ASSUME NEW k \in Instance, NEW u \in Inst!Values, status'[k] = "on", Holds(k, u)', Disputes(u)',
                      inbox'[k] = << >>
               PROVE  \/ Underway(k)'
                      \/ call'[k].op = "set" /\ call'[k].pc = "waiting"
    BY DEF DisputesEnd, Inst!Values
  <1>1. remote' = remote /\ Disputes(u)
    BY DEF Disputes
  <1>2. Underway(k) => Underway(k)'
    BY UnderwayStays, <1>1
  <1>3. /\ status[k] = "on" /\ Holds(k, u) /\ inbox[k] = << >>
        /\ call[k].op = "set" /\ call[k].pc = "waiting" => call'[k].op = "set" /\ call'[k].pc = "waiting"
    BY DEF Disputes
  <1> QED BY <1>1, <1>2, <1>3 DEF InstInv, DisputesEnd

LEMMA InstLand == ASSUME InstInv, NEW i \in Instance, Inst!Land(i) PROVE InstInv'
  <1> DEFINE c == [call[i] EXCEPT !.pc = IF @ = "cleaning" THEN "cleaned" ELSE "answered",
                                  !.value = IF call[i].op = "get" THEN remote ELSE @]
  <1>0. call[i] \in Inst!Call /\ call[i].op \in {"set", "delete", "get"}
    BY DEF Inst!Land, InstInv, Inst!TypeOK, CallsMatch, Inst!Call
  <1>1. call' = [call EXCEPT ![i] = c]
    BY DEF Inst!Land, InstInv, Inst!TypeOK
  <1>2. call'[i] = c /\ \A j \in Instance \ {i} : call'[j] = call[j]
    BY <1>1 DEF InstInv, Inst!TypeOK
  <1>3. /\ c.op = call[i].op /\ c.fenced = call[i].fenced /\ c.prior = call[i].prior
        /\ c.pc = IF call[i].pc = "cleaning" THEN "cleaned" ELSE "answered"
        /\ c.value = IF call[i].op = "get" THEN remote ELSE call[i].value
    BY <1>0 DEF Inst!Call
  <1>4. /\ call[i].pc \in {"waiting", "cleaning"}
        /\ remote' = IF call[i].op = "get" THEN remote
                     ELSE IF call[i].pc = "cleaning" THEN 0 ELSE call[i].value
        /\ UNCHANGED <<local, status, inbox, calls, returned, overtaken>>
    BY DEF Inst!Land
  <1>5. Inst!TypeOK'
    <2>1. c \in Inst!Call
      BY <1>0 DEF Inst!Call, InstInv, Inst!TypeOK
    <2>2. remote' \in Inst!Values
      BY <1>0, <1>4 DEF InstInv, Inst!TypeOK, Inst!Call, Inst!Values
    <2> QED BY <1>1, <1>4, <2>1, <2>2 DEF InstInv, Inst!TypeOK, Inst!Values, Inst!Call
  <1> HIDE DEF c
  <1>6. CallsMatch' /\ LocalsMatch' /\ ValuesAreNew'
    <2>1. CallsMatch'
      BY <1>0, <1>2, <1>3, <1>4 DEF InstInv, CallsMatch
    <2>2. LocalsMatch'
      BY <1>0, <1>2, <1>3, <1>4 DEF InstInv, LocalsMatch, Writes
    <2>3. ValuesAreNew'
      BY <1>0, <1>2, <1>3, <1>4 DEF InstInv, ValuesAreNew
    <2> QED BY <2>1, <2>2, <2>3
  <1>7. RemoteIsLast'
    <2>1. \A j \in Instance : call'[j].prior = call[j].prior /\ call[j].prior \subseteq returned /\ call'[j].op = call[j].op
      BY <1>2, <1>3 DEF InstInv, Inst!TypeOK, Inst!Call
    <2>2. 0 \notin returned /\ overtaken \subseteq returned
      BY DEF InstInv, Inst!TypeOK
    <2>3. CASE call[i].op = "get"
      BY <2>3, <2>1, <1>2, <1>3, <1>4 DEF InstInv, RemoteIsLast, Writes
    <2>4. CASE call[i].op # "get"
      <3>1. remote' \notin returned
        BY <2>4, <2>2, <1>0, <1>4 DEF InstInv, ValuesAreNew, CallsMatch
      <3> QED BY <2>1, <2>2, <3>1, <1>4 DEF RemoteIsLast
    <2> QED BY <2>3, <2>4
  <1>8. OvertakenHasMail'
    BY <1>2, <1>3, <1>4 DEF InstInv, RemoteIsLast, OvertakenHasMail, Holds
  <1>9. DisputesEnd'
    <2>1. CASE call[i].op = "get" \/ call[i].pc = "cleaning"
      <3>1. call[i].pc = "cleaning" => call[i].op = "set"
        BY <1>0 DEF InstInv, CallsMatch
      <3> SUFFICES ASSUME NEW k \in Instance, NEW u \in Inst!Values, status'[k] = "on", Holds(k, u)', Disputes(u)'
                   PROVE  \/ inbox'[k] # << >> \/ Underway(k)'
                          \/ call'[k].op = "set" /\ call'[k].pc = "waiting"
        BY <1>4 DEF DisputesEnd, Inst!Values
      <3>2. call[i].op = "get" /\ remote' = remote
        BY <2>1, <3>1, <1>4 DEF Disputes
      <3>3. Holds(k, u)
        BY <3>2, <1>2, <1>3, <1>4 DEF Holds, Disputes
      <3>4. Underway(k) => Underway(k)'
        BY <3>2, UnderwayStays, <1>2
      <3> QED BY <3>2, <3>3, <3>4, <1>2, <1>4 DEF InstInv, DisputesEnd, Disputes
    <2>2. CASE call[i].op = "delete"
      BY <2>2, <1>4 DEF DisputesEnd, Disputes, InstInv, CallsMatch
    <2>3. CASE call[i].op = "set" /\ call[i].pc = "waiting"
      <3> SUFFICES ASSUME NEW k \in Instance, NEW u \in Inst!Values, status'[k] = "on", Holds(k, u)', Disputes(u)'
                   PROVE  Underway(k)'
        BY <1>4 DEF DisputesEnd, Inst!Values
      <3>1. remote' = call[i].value /\ call'[i].value = call[i].value /\ call'[i].op = "set" /\ call'[i].pc = "answered"
        BY <2>3, <1>2, <1>3, <1>4
      <3>2. k # i
        <4> SUFFICES ASSUME k = i PROVE FALSE
          OBVIOUS
        <4>1. local[i] = u /\ u # 0 /\ u # call[i].value
          BY <3>1, <1>4 DEF Holds, Disputes
        <4> QED BY <2>3, <4>1 DEF InstInv, LocalsMatch, Writes
      <3> QED BY <3>1, <3>2 DEF Underway
    <2> QED BY <2>1, <2>2, <2>3, <1>0, <1>4
  <1> QED BY <1>5, <1>6, <1>7, <1>8, <1>9 DEF InstInv

\* A call ends.
LEMMA InstReturn ==
    ASSUME InstInv, NEW i \in Instance, NEW over \in SUBSET returned, Inst!Return(i, over), calls' = calls
    PROVE  /\ call'[i] = Inst!Idle /\ \A j \in Instance \ {i} : call'[j] = call[j]
           /\ call' \in [Instance -> Inst!Call']
           /\ call[i].op = "set" => returned' = returned \cup {call[i].value}
           /\ call[i].op # "set" => returned' = returned
           /\ returned' \subseteq 1..calls /\ overtaken' = overtaken \cup over /\ overtaken' \subseteq returned'
  <1>1. call' = [call EXCEPT ![i] = Inst!Idle] /\ overtaken' = overtaken \cup over
    BY DEF Inst!Return
  <1>2. call[i].value \in Inst!Values /\ (call[i].op = "set" => call[i].value # 0) /\ calls \in Nat
    BY DEF InstInv, Inst!TypeOK, Inst!Call, ValuesAreNew
  <1>3. /\ returned' = IF call[i].op = "set" THEN returned \cup {call[i].value} ELSE returned
        /\ returned \subseteq 1..calls /\ overtaken \subseteq returned
    BY DEF Inst!Return, InstInv, Inst!TypeOK
  <1>4. call[i].op = "set" => call[i].value \in 1..calls
    BY <1>2 DEF Inst!Values
  <1>5. returned \subseteq returned' /\ returned' \subseteq 1..calls
    BY <1>3, <1>4
  <1>6. \A j \in Instance : call[j] \in Inst!Call' /\ Inst!Idle \in Inst!Call'
    <2>1. Inst!Values' = Inst!Values /\ 0 \in Inst!Values
      BY DEF Inst!Values, InstInv, Inst!TypeOK
    <2>2. \A c \in Inst!Call : c \in Inst!Call'
      BY <1>5, <2>1 DEF Inst!Call
    <2>3. Inst!Idle \in Inst!Call'
      BY <2>1 DEF Inst!Call, Inst!Idle
    <2> QED BY <2>2, <2>3 DEF InstInv, Inst!TypeOK
  <1>7. call' \in [Instance -> Inst!Call']
    BY <1>1, <1>6 DEF InstInv, Inst!TypeOK
  <1> QED BY <1>1, <1>3, <1>5, <1>7 DEF InstInv, Inst!TypeOK

LEMMA InstPublish == ASSUME InstInv, NEW i \in Instance, Inst!Publish(i) PROVE InstInv'
  <1> DEFINE c == call[i]
  <1>1. /\ c.pc = "answered" /\ c.op \in {"set", "delete"} /\ (c.op = "set" => ~c.fenced)
        /\ UNCHANGED <<remote, local, status, calls>>
        /\ inbox' = [j \in Instance |-> IF status[j] = "on" /\ j # i THEN Append(inbox[j], i) ELSE inbox[j]]
        /\ Inst!Return(i, c.prior) /\ c.prior \in SUBSET returned
    BY DEF Inst!Publish, Inst!Send, InstInv, Inst!TypeOK, Inst!Call, CallsMatch
  <1>2. /\ call'[i] = Inst!Idle /\ \A j \in Instance \ {i} : call'[j] = call[j]
        /\ call' \in [Instance -> Inst!Call']
        /\ c.op = "set" => returned' = returned \cup {c.value}
        /\ c.op # "set" => returned' = returned
        /\ returned' \subseteq 1..calls /\ overtaken' = overtaken \cup c.prior /\ overtaken' \subseteq returned'
    BY <1>1, InstReturn
  <1> HIDE DEF c
  <1>3. \A j \in Instance : inbox[j] \in Seq(Instance)
    BY DEF InstInv, Inst!TypeOK
  <1>4. \A j \in Instance : j # i /\ status[j] = "on" => inbox'[j] # << >>
    BY <1>1, <1>3
  <1>5. Inst!TypeOK'
    <2>1. inbox' \in [Instance -> Seq(Instance)]
      BY <1>1, <1>3
    <2>2. \A j \in Instance : inbox'[j] # << >> => status'[j] = "on"
      BY <1>1 DEF InstInv, Inst!TypeOK
    <2> QED BY <1>1, <1>2, <2>1, <2>2 DEF InstInv, Inst!TypeOK, Inst!Values
  <1>6. CallsMatch' /\ LocalsMatch' /\ ValuesAreNew'
    <2>1. CallsMatch'
      <3>1. Inst!Idle.op = "none" /\ Inst!Idle.pc = "idle"
        BY DEF Inst!Idle
      <3> QED BY <1>1, <1>2, <3>1 DEF InstInv, CallsMatch
    <2>2. LocalsMatch'
      BY <1>1, <1>2 DEF InstInv, LocalsMatch, Writes, Inst!Idle
    <2>3. ValuesAreNew'
      BY <1>1, <1>2 DEF InstInv, ValuesAreNew, Inst!Idle, c
    <2> QED BY <2>1, <2>2, <2>3
  <1>7. RemoteIsLast'
    BY <1>1, <1>2 DEF InstInv, RemoteIsLast, Writes, Inst!Idle, c
  <1>8. OvertakenHasMail'
    <2>1. \A v : Holds(i, v)' => v \in {0, c.value}
      BY <1>1, <1>2 DEF InstInv, LocalsMatch, Writes, Holds, Inst!Idle, c
    <2>2. c.value \notin overtaken'
      <3>1. c.value \notin returned
        <4>1. 0 \notin returned
          BY DEF InstInv, Inst!TypeOK
        <4> QED BY <1>1, <4>1 DEF InstInv, ValuesAreNew, CallsMatch, c
      <3> QED BY <1>1, <1>2, <3>1 DEF InstInv, Inst!TypeOK
    <2> QED BY <1>1, <1>2, <1>4, <2>1, <2>2 DEF OvertakenHasMail
  <1>9. DisputesEnd'
    <2> SUFFICES ASSUME NEW k \in Instance, NEW u \in Inst!Values, status'[k] = "on", Holds(k, u)', Disputes(u)'
                 PROVE  \/ inbox'[k] # << >> \/ Underway(k)'
      BY <1>1 DEF DisputesEnd, Inst!Values
    <2>1. CASE k # i
      BY <2>1, <1>1, <1>4
    <2>2. CASE k = i
      <3>1. Holds(i, u) /\ Disputes(u) /\ inbox' [i] = inbox[i]
        BY <2>2, <1>1, <1>2 DEF Holds, Disputes, Inst!Idle
      <3>2. inbox[i] # << >> \/ Underway(i)
        BY <2>2, <3>1, <1>1 DEF InstInv, DisputesEnd, c
      <3>3. Underway(i) => Underway(i)'
        BY <1>1, <1>2 DEF Underway
      <3> QED BY <2>2, <3>1, <3>2, <3>3
    <2> QED BY <2>1, <2>2
  <1> QED BY <1>5, <1>6, <1>7, <1>8, <1>9 DEF InstInv

LEMMA InstCleanUp == ASSUME InstInv, NEW i \in Instance, Inst!CleanUp(i) PROVE InstInv'
  <1> DEFINE c == [call[i] EXCEPT !.pc = "cleaning"]
  <1>1. /\ call[i].pc = "answered" /\ call[i].op = "set" /\ call[i].fenced
        /\ local' = [local EXCEPT ![i] = 0]
        /\ UNCHANGED <<remote, status, inbox, calls, returned, overtaken>>
    BY DEF Inst!CleanUp
  <1>2. call[i] \in Inst!Call
    BY DEF InstInv, Inst!TypeOK
  <1>3. call' = [call EXCEPT ![i] = c]
    BY DEF Inst!CleanUp, InstInv, Inst!TypeOK
  <1>4. call'[i] = c /\ \A j \in Instance \ {i} : call'[j] = call[j] /\ local'[j] = local[j]
    BY <1>1, <1>3 DEF InstInv, Inst!TypeOK
  <1>5. c \in Inst!Call /\ c.pc = "cleaning" /\ c.op = "set" /\ c.value = call[i].value /\ c.prior = call[i].prior
    BY <1>1, <1>2 DEF Inst!Call
  <1> HIDE DEF c
  <1>6. Inst!TypeOK' /\ local'[i] = 0
    BY <1>1, <1>3, <1>5 DEF InstInv, Inst!TypeOK, Inst!Values, Inst!Call
  <1>7. CallsMatch' /\ LocalsMatch' /\ ValuesAreNew'
    <2>1. CallsMatch'
      BY <1>1, <1>4, <1>5 DEF InstInv, CallsMatch
    <2>2. LocalsMatch'
      BY <1>4, <1>6 DEF InstInv, LocalsMatch, Writes
    <2>3. ValuesAreNew'
      BY <1>1, <1>4, <1>5 DEF InstInv, ValuesAreNew
    <2> QED BY <2>1, <2>2, <2>3
  <1>8. RemoteIsLast'
    BY <1>1, <1>4, <1>5 DEF InstInv, RemoteIsLast, Writes
  <1>9. OvertakenHasMail'
    BY <1>1, <1>4, <1>5, <1>6 DEF InstInv, OvertakenHasMail, Holds, Inst!TypeOK
  <1>10. DisputesEnd'
    <2>1. \A k \in Instance : \A u : Holds(k, u)' /\ u # 0 => k # i /\ Holds(k, u)
      BY <1>4, <1>5, <1>6 DEF Holds
    <2> QED BY <2>1, <1>1, <1>4, <1>5, DisputesKept
  <1> QED BY <1>6, <1>7, <1>8, <1>9, <1>10 DEF InstInv

LEMMA InstBackfill == ASSUME InstInv, NEW i \in Instance, Inst!Backfill(i) PROVE InstInv'
  <1> DEFINE c == [call[i] EXCEPT !.pc = "stored"]
  <1>1. /\ call[i].pc = "answered" /\ call[i].op = "get" /\ ~call[i].fenced
        /\ local' = [local EXCEPT ![i] = call[i].value]
        /\ UNCHANGED <<remote, status, inbox, calls, returned, overtaken>>
    BY DEF Inst!Backfill
  <1>2. call[i] \in Inst!Call
    BY DEF InstInv, Inst!TypeOK
  <1>3. call' = [call EXCEPT ![i] = c]
    BY DEF Inst!Backfill, InstInv, Inst!TypeOK
  <1>4. call'[i] = c /\ \A j \in Instance \ {i} : call'[j] = call[j] /\ local'[j] = local[j]
    BY <1>1, <1>3 DEF InstInv, Inst!TypeOK
  <1>5. c \in Inst!Call /\ c.pc = "stored" /\ c.op = "get" /\ ~c.fenced
    BY <1>1, <1>2 DEF Inst!Call
  <1> HIDE DEF c
  <1>6. Inst!TypeOK' /\ local'[i] = call[i].value
    BY <1>1, <1>2, <1>3, <1>5 DEF InstInv, Inst!TypeOK, Inst!Values, Inst!Call
  <1>7. CallsMatch' /\ LocalsMatch' /\ ValuesAreNew'
    <2>1. CallsMatch'
      BY <1>1, <1>4, <1>5 DEF InstInv, CallsMatch
    <2>2. LocalsMatch'
      BY <1>4, <1>5, <1>6 DEF InstInv, LocalsMatch, Writes
    <2>3. ValuesAreNew'
      BY <1>1, <1>4, <1>5 DEF InstInv, ValuesAreNew
    <2> QED BY <2>1, <2>2, <2>3
  <1>8. RemoteIsLast'
    BY <1>1, <1>4, <1>5 DEF InstInv, RemoteIsLast, Writes
  <1>9. \A k \in Instance : \A u : Holds(k, u)' => Holds(k, u)
    BY <1>1, <1>4, <1>5, <1>6 DEF Holds
  <1>10. OvertakenHasMail'
    BY <1>1, <1>9 DEF InstInv, OvertakenHasMail
  <1>11. DisputesEnd'
    BY <1>9, <1>1, <1>4, <1>5, DisputesKept
  <1> QED BY <1>6, <1>7, <1>8, <1>10, <1>11 DEF InstInv

LEMMA InstFinish == ASSUME InstInv, NEW i \in Instance, Inst!Finish(i) PROVE InstInv'
  <1>1. /\ UNCHANGED <<remote, status, inbox, calls>>
        /\ local' \in {local, [local EXCEPT ![i] = 0]}
        /\ Inst!Return(i, {})
        /\ call[i].op = "set" => call[i].pc = "cleaned"
        /\ call[i].op # "delete"
    BY DEF Inst!Finish, InstInv, CallsMatch
  <1>2. /\ call'[i] = Inst!Idle /\ \A j \in Instance \ {i} : call'[j] = call[j]
        /\ call' \in [Instance -> Inst!Call']
        /\ call[i].op = "set" => returned' = returned \cup {call[i].value}
        /\ call[i].op # "set" => returned' = returned
        /\ returned' \subseteq 1..calls /\ overtaken' = overtaken /\ overtaken' \subseteq returned'
    <2>1. {} \in SUBSET returned
      OBVIOUS
    <2> QED BY <1>1, <2>1, InstReturn
  <1>3. Inst!TypeOK'
    <2>1. local' \in [Instance -> Inst!Values]
      BY <1>1 DEF InstInv, Inst!TypeOK, Inst!Values
    <2> QED BY <1>1, <1>2, <2>1 DEF InstInv, Inst!TypeOK, Inst!Values
  <1>4. \A k \in Instance : local'[k] \in {0, local[k]}
    BY <1>1 DEF InstInv, Inst!TypeOK
  <1>5. CallsMatch' /\ LocalsMatch' /\ ValuesAreNew'
    <2>1. CallsMatch'
      BY <1>1, <1>2, <1>4 DEF InstInv, CallsMatch, Inst!Idle
    <2>2. LocalsMatch'
      BY <1>1, <1>2, <1>4 DEF InstInv, LocalsMatch, Writes, Inst!Idle
    <2>3. ValuesAreNew'
      BY <1>1, <1>2 DEF InstInv, ValuesAreNew, Inst!Idle
    <2> QED BY <2>1, <2>2, <2>3
  <1>6. RemoteIsLast'
    BY <1>1, <1>2 DEF InstInv, RemoteIsLast, Writes, Inst!Idle
  <1>7. \A k \in Instance : \A u : Holds(k, u)' /\ u # 0 => Holds(k, u)
    BY <1>2, <1>4 DEF Holds, Inst!Idle
  <1>8. OvertakenHasMail'
    BY <1>1, <1>2, <1>7 DEF InstInv, OvertakenHasMail, Inst!TypeOK
  <1>9. DisputesEnd'
    BY <1>7, <1>1, <1>2, DisputesKept
  <1> QED BY <1>3, <1>5, <1>6, <1>8, <1>9 DEF InstInv

LEMMA InstReceive == ASSUME InstInv, NEW i \in Instance, Inst!Receive(i) PROVE InstInv'
  <1> DEFINE c == [call[i] EXCEPT !.fenced = call[i] # Inst!Idle]
  <1>1. /\ inbox[i] # << >> /\ inbox' = [inbox EXCEPT ![i] = Tail(@)]
        /\ local' = [local EXCEPT ![i] = 0]
        /\ UNCHANGED <<remote, status, calls, returned, overtaken>>
        /\ call' = [call EXCEPT ![i] = c]
    BY DEF Inst!Receive, InstInv, Inst!TypeOK
  <1>2. call[i] \in Inst!Call
    BY DEF InstInv, Inst!TypeOK
  <1>3. call'[i] = c /\ \A j \in Instance \ {i} : call'[j] = call[j] /\ local'[j] = local[j] /\ inbox'[j] = inbox[j]
    BY <1>1 DEF InstInv, Inst!TypeOK
  <1>4. /\ c \in Inst!Call /\ c.pc = call[i].pc /\ c.op = call[i].op /\ c.value = call[i].value
        /\ c.prior = call[i].prior /\ (c.fenced <=> call[i] # Inst!Idle)
    BY <1>2 DEF Inst!Call
  <1> HIDE DEF c
  <1>5. Inst!TypeOK' /\ local'[i] = 0
    <2>1. inbox' \in [Instance -> Seq(Instance)]
      BY <1>1 DEF InstInv, Inst!TypeOK
    <2>2. \A j \in Instance : inbox'[j] # << >> => status'[j] = "on"
      BY <1>1, <1>3 DEF InstInv, Inst!TypeOK
    <2> QED BY <1>1, <1>4, <2>1, <2>2 DEF InstInv, Inst!TypeOK, Inst!Values, Inst!Call
  <1>6. CallsMatch' /\ LocalsMatch' /\ ValuesAreNew'
    <2>1. CallsMatch'
      BY <1>1, <1>3, <1>4, <1>5 DEF InstInv, CallsMatch
    <2>2. LocalsMatch'
      BY <1>3, <1>4, <1>5 DEF InstInv, LocalsMatch, Writes
    <2>3. ValuesAreNew'
      BY <1>1, <1>3, <1>4 DEF InstInv, ValuesAreNew
    <2> QED BY <2>1, <2>2, <2>3
  <1>7. RemoteIsLast'
    BY <1>1, <1>3, <1>4 DEF InstInv, RemoteIsLast, Writes
  <1>8. \A k \in Instance : \A u : Holds(k, u)' /\ u # 0 => k # i /\ Holds(k, u)
    <2>1. call[i].op = "get" => c.fenced
      BY <1>4 DEF Inst!Idle
    <2> QED BY <2>1, <1>3, <1>4, <1>5 DEF Holds
  <1>9. OvertakenHasMail'
    BY <1>1, <1>3, <1>8 DEF InstInv, OvertakenHasMail, Inst!TypeOK
  <1>10. DisputesEnd'
    BY <1>8, <1>1, <1>3, <1>4, DisputesKept
  <1> QED BY <1>5, <1>6, <1>7, <1>9, <1>10 DEF InstInv

LEMMA InstLose == ASSUME InstInv, Inst!Lose PROVE InstInv'
  <1>1. /\ UNCHANGED <<status, call, inbox, calls, returned, overtaken>>
        /\ remote' \in {remote, 0}
        /\ \/ local' = local
           \/ \E i \in Instance : local' = [local EXCEPT ![i] = 0]
    BY DEF Inst!Lose
  <1>2. \A k \in Instance : local'[k] \in {0, local[k]}
    BY <1>1 DEF InstInv, Inst!TypeOK
  <1>3. Inst!TypeOK'
    <2>1. 0 \in Inst!Values
      BY DEF InstInv, Inst!TypeOK, Inst!Values
    <2>2. local' \in [Instance -> Inst!Values]
      BY <1>1, <2>1 DEF InstInv, Inst!TypeOK
    <2> QED BY <1>1, <2>1, <2>2 DEF InstInv, Inst!TypeOK, Inst!Values, Inst!Call
  <1>4. CallsMatch' /\ LocalsMatch' /\ ValuesAreNew'
    BY <1>1, <1>2 DEF InstInv, CallsMatch, LocalsMatch, ValuesAreNew, Writes
  <1>5. RemoteIsLast'
    BY <1>1 DEF InstInv, Inst!TypeOK, RemoteIsLast, Writes, Inst!Call
  <1>6. \A k \in Instance : \A u : Holds(k, u)' /\ u # 0 => Holds(k, u)
    BY <1>1, <1>2 DEF Holds
  <1>7. OvertakenHasMail'
    BY <1>1, <1>6 DEF InstInv, OvertakenHasMail, Inst!TypeOK
  <1>8. DisputesEnd'
    <2> SUFFICES ASSUME NEW k \in Instance, NEW u \in Inst!Values, status'[k] = "on", Holds(k, u)', Disputes(u)'
                 PROVE  \/ inbox'[k] # << >> \/ Underway(k)'
                        \/ call'[k].op = "set" /\ call'[k].pc = "waiting"
      BY <1>1 DEF DisputesEnd, Inst!Values
    <2>1. remote' = remote /\ Disputes(u) /\ Holds(k, u)
      BY <1>1, <1>6 DEF Disputes
    <2> QED BY <1>1, <2>1 DEF InstInv, DisputesEnd, Underway
  <1> QED BY <1>3, <1>4, <1>5, <1>7, <1>8 DEF InstInv

\* A step of the lifecycle of an instance that leaves its call alone.
LEMMA InstStatus ==
    ASSUME InstInv, NEW i \in Instance,
           NEW s \in {"starting", "on", "off"}, status' = [status EXCEPT ![i] = s],
           local' \in {local, [local EXCEPT ![i] = 0]},
           inbox' \in {inbox, [inbox EXCEPT ![i] = << >>]},
           UNCHANGED <<remote, call, calls, returned, overtaken>>,
           s = "starting" => local'[i] = 0 /\ call[i].op = "none",
           s = "on" => status[i] = "starting",
           s # "on" => inbox'[i] = << >>
    PROVE  InstInv'
  <1>1. /\ status'[i] = s /\ \A j \in Instance \ {i} : status'[j] = status[j] /\ inbox'[j] = inbox[j]
        /\ \A j \in Instance : local'[j] \in {0, local[j]}
    BY DEF InstInv, Inst!TypeOK
  <1>2. Inst!TypeOK'
    <2>1. local' \in [Instance -> Inst!Values]
      <3>1. 0 \in Inst!Values
        BY DEF InstInv, Inst!TypeOK, Inst!Values
      <3> QED BY <3>1 DEF InstInv, Inst!TypeOK
    <2>2. status' \in [Instance -> {"starting", "on", "off"}]
      BY DEF InstInv, Inst!TypeOK
    <2>3. inbox' \in [Instance -> Seq(Instance)]
      <3>1. << >> \in Seq(Instance)
        OBVIOUS
      <3> QED BY <3>1 DEF InstInv, Inst!TypeOK
    <2>4. \A j \in Instance : inbox'[j] # <<>> => status'[j] = "on"
      BY <1>1 DEF InstInv, Inst!TypeOK
    <2> QED BY <2>1, <2>2, <2>3, <2>4 DEF InstInv, Inst!TypeOK, Inst!Values, Inst!Call
  <1>3. CallsMatch' /\ LocalsMatch' /\ ValuesAreNew'
    <2>1. CallsMatch'
      BY <1>1 DEF InstInv, CallsMatch
    <2>2. LocalsMatch'
      BY <1>1 DEF InstInv, LocalsMatch, Writes
    <2>3. ValuesAreNew'
      BY DEF InstInv, ValuesAreNew
    <2> QED BY <2>1, <2>2, <2>3
  <1>4. RemoteIsLast'
    BY DEF InstInv, RemoteIsLast, Writes
  <1>5. \A k \in Instance : \A u : status'[k] = "on" /\ Holds(k, u)' /\ u # 0 => k # i /\ Holds(k, u)
    <2>1. s = "on" => local'[i] = 0 /\ call[i].op = "none"
      BY <1>1 DEF InstInv, CallsMatch
    <2> QED BY <1>1, <2>1 DEF Holds
  <1>6. OvertakenHasMail'
    BY <1>1, <1>5 DEF InstInv, OvertakenHasMail, Inst!TypeOK
  <1>7. DisputesEnd'
    BY <1>1, <1>5, DisputesKept
  <1> QED BY <1>2, <1>3, <1>4, <1>6, <1>7 DEF InstInv

LEMMA InstNext == InstInv /\ [Inst!Next]_(Inst!vars) => InstInv'
  <1> SUFFICES ASSUME InstInv, [Inst!Next]_(Inst!vars) PROVE InstInv'
    OBVIOUS
  <1>1. ASSUME NEW i \in Instance, Inst!Subscribe(i) PROVE InstInv'
    BY <1>1, InstStatus DEF Inst!Subscribe
  <1>2. ASSUME NEW i \in Instance, Inst!Disconnect(i) PROVE InstInv'
    <2>1. inbox'[i] = << >>
      BY <1>2 DEF Inst!Disconnect, InstInv, Inst!TypeOK
    <2> QED BY <1>2, <2>1, InstStatus DEF Inst!Disconnect
  <1>3. ASSUME NEW i \in Instance, Inst!Restart(i) PROVE InstInv'
    <2>1. inbox'[i] = << >> /\ local'[i] = 0 /\ call[i].op = "none"
      BY <1>3 DEF Inst!Restart, InstInv, Inst!TypeOK, Inst!Idle
    <2> QED BY <1>3, <2>1, InstStatus DEF Inst!Restart
  <1>4. ASSUME NEW i \in Instance, Inst!Set(i) PROVE InstInv'
    <2>1. calls + 1 # 0
      BY DEF InstInv, Inst!TypeOK
    <2> QED BY <1>4, <2>1, InstBegin DEF Inst!Set
  <1>5. ASSUME NEW i \in Instance, Inst!Delete(i) \/ Inst!Get(i) PROVE InstInv'
    <2>1. calls + 1 # 0
      BY DEF InstInv, Inst!TypeOK
    <2>2. CASE Inst!Delete(i)
      BY <2>1, <2>2, InstBegin DEF Inst!Delete
    <2>3. CASE Inst!Get(i)
      BY <2>1, <2>3, InstBegin DEF Inst!Get
    <2> QED BY <1>5, <2>2, <2>3
  <1>6. CASE UNCHANGED Inst!vars
    BY <1>6 DEF Inst!vars, InstInv, Inst!TypeOK, Inst!Values, Inst!Call, CallsMatch, LocalsMatch, ValuesAreNew, RemoteIsLast,
       OvertakenHasMail, DisputesEnd, Holds, Disputes, Underway, Writes
  <1> QED BY <1>1, <1>2, <1>3, <1>4, <1>5, <1>6, InstLand, InstPublish, InstCleanUp, InstBackfill, InstFinish,
         InstReceive, InstLose DEF Inst!Next

\* Once all calls have returned and all messages were handled, neither a running
\* instance nor the shared layer keeps a value that a later write or delete
\* replaced, and as long as there is a shared value no instance has another one
\* (the publish after each write, the fence of a backfill).
THEOREM InstancesAgree == Inst!Spec => []NoOvertakenValueAtRest
  <1>1. InstInv => NoOvertakenValueAtRest
    <2> SUFFICES ASSUME InstInv, Inst!AtRest, NEW i \in Instance, status[i] = "on"
                 PROVE  /\ local[i] \notin overtaken /\ remote \notin overtaken
                        /\ remote # 0 => local[i] \in {0, remote}
      BY DEF NoOvertakenValueAtRest, Inst!NoOvertakenValueAtRest
    <2>1. inbox[i] = << >> /\ (\A j \in Instance : call[j].op = "none") /\ Holds(i, local[i])
          /\ local[i] \in Inst!Values
      BY DEF Inst!AtRest, Inst!Idle, Holds, InstInv, Inst!TypeOK
    <2>2. local[i] \notin overtaken /\ remote \notin overtaken
      BY <2>1 DEF InstInv, OvertakenHasMail, RemoteIsLast
    <2>3. ~Underway(i)
      BY <2>1 DEF Underway
    <2> QED BY <2>1, <2>2, <2>3 DEF InstInv, DisputesEnd, Disputes
  <1> QED BY InstInit, InstNext, <1>1, PTL DEF Inst!Spec

-----------------------------------------------------------------------------
(***************************************************************************)
(* SnapshotFile.  A path refers to a file of a persist that was answered   *)
(* with success, and those are whole.                                      *)
(***************************************************************************)
USE DEF File!Old

Snapshots == Calls \cup {0}

FileTypeOK ==
    /\ inodes \in [Snapshots -> Seq(Snapshots)]
    /\ target \in Snapshots
    /\ persist \in [Calls -> {"called", "open", "written", "ended"}]
    /\ restore \in [pc : {"closed", "reading", "parsing"}, file : Snapshots, read : Seq(Snapshots)]
    /\ done \subseteq Calls

\* A file has parts of its own snapshot only.
FilesAreOwn ==
    \A c \in Snapshots : /\ Len(inodes[c]) <= Parts
                         /\ \A i \in DOMAIN inodes[c] : inodes[c][i] = c

\* Who has written the file, or was answered with success, has written it all.
DoneIsWhole ==
    /\ \A c \in done \cup {0} : Len(inodes[c]) = Parts
    /\ \A c \in done : persist[c] = "ended"
    /\ \A c \in Calls : persist[c] = "written" => Len(inodes[c]) = Parts

\* What a path or a restore refers to is whole, and so is what is parsed.
ReadsAreOfDone ==
    /\ target \in done \cup {0} /\ restore.file \in done \cup {0}
    /\ \A i \in DOMAIN restore.read : restore.read[i] = restore.file
    /\ restore.pc = "parsing" => Len(restore.read) = Parts

FileInv == FileTypeOK /\ FilesAreOwn /\ DoneIsWhole /\ ReadsAreOfDone

LEMMA FileInit == File!Init => FileInv
  <1> SUFFICES ASSUME File!Init PROVE FileInv
    OBVIOUS
  <1> DEFINE old == [i \in 1..Parts |-> 0]
  <1>1. /\ inodes = [c \in Snapshots |-> IF c = 0 THEN old ELSE << >>]
        /\ target = 0 /\ persist = [c \in Calls |-> "called"] /\ restore = [pc |-> "closed", file |-> 0, read |-> << >>]
        /\ done = {}
    BY DEF File!Init, File!Closed, Snapshots
  <1>2. old \in Seq(Snapshots) /\ Len(old) = Parts /\ DOMAIN old = 1..Parts /\ \A i \in 1..Parts : old[i] = 0
    BY PartsAssumption DEF Snapshots
  <1> HIDE DEF old
  <1>3. << >> \in Seq(Snapshots) /\ 0 \in Snapshots
    BY DEF Snapshots
  <1>4. FileTypeOK
    BY <1>1, <1>2, <1>3 DEF FileTypeOK
  <1>5. FilesAreOwn
    BY <1>1, <1>2, PartsAssumption DEF FilesAreOwn
  <1>6. DoneIsWhole
    BY <1>1, <1>2, <1>3 DEF DoneIsWhole
  <1>7. ReadsAreOfDone
    BY <1>1 DEF ReadsAreOfDone
  <1> QED BY <1>4, <1>5, <1>6, <1>7 DEF FileInv

LEMMA FileOpenTemp == ASSUME FileInv, NEW c \in Calls, File!OpenTemp(c) PROVE FileInv'
  <1>1. persist[c] = "called" /\ persist' = [persist EXCEPT ![c] = "open"] /\ UNCHANGED <<inodes, target, restore, done>>
    BY DEF File!OpenTemp
  <1> QED BY <1>1 DEF FileInv, FileTypeOK, FilesAreOwn, DoneIsWhole, ReadsAreOfDone

LEMMA FileWritePart == ASSUME FileInv, NEW c \in Calls, File!WritePart(c) PROVE FileInv'
  <1>1. /\ persist[c] = "open" /\ Len(inodes[c]) < Parts /\ inodes' = [inodes EXCEPT ![c] = Append(@, c)]
        /\ UNCHANGED <<target, temps, persist, restore, done>>
    BY DEF File!WritePart
  <1>2. c \in Snapshots /\ c # 0 /\ c \notin done /\ inodes[c] \in Seq(Snapshots)
    BY <1>1, CallsAssumption DEF FileInv, FileTypeOK, DoneIsWhole, Snapshots
  <1>3. /\ inodes'[c] \in Seq(Snapshots) /\ Len(inodes'[c]) <= Parts
        /\ \A i \in DOMAIN inodes'[c] : inodes'[c][i] = c
    <2>1. inodes'[c] = Append(inodes[c], c)
      BY <1>1, <1>2 DEF FileInv, FileTypeOK
    <2>2. \A i \in DOMAIN inodes[c] : inodes[c][i] = c
      BY <1>2 DEF FileInv, FilesAreOwn
    <2> QED BY <1>1, <1>2, <2>1, <2>2, PartsAssumption
  <1>4. \A d \in Snapshots : d # c => inodes'[d] = inodes[d]
    BY <1>1 DEF FileInv, FileTypeOK
  <1>5. FileTypeOK'
    BY <1>1, <1>2, <1>3 DEF FileInv, FileTypeOK
  <1>6. FilesAreOwn'
    BY <1>3, <1>4 DEF FileInv, FilesAreOwn
  <1>7. DoneIsWhole'
    <2>1. \A d \in done \cup {0} : d \in Snapshots /\ d # c
      BY <1>2 DEF FileInv, FileTypeOK, Snapshots
    <2> QED BY <1>1, <1>4, <2>1 DEF FileInv, FileTypeOK, DoneIsWhole, Snapshots
  <1>8. ReadsAreOfDone'
    BY <1>1 DEF FileInv, ReadsAreOfDone
  <1> QED BY <1>5, <1>6, <1>7, <1>8 DEF FileInv

LEMMA FileClose == ASSUME FileInv, NEW c \in Calls, File!Close(c) PROVE FileInv'
  <1>1. /\ persist[c] = "open" /\ Len(inodes[c]) = Parts /\ persist' = [persist EXCEPT ![c] = "written"]
        /\ UNCHANGED <<inodes, target, restore, done>>
    BY DEF File!Close
  <1> QED BY <1>1 DEF FileInv, FileTypeOK, FilesAreOwn, DoneIsWhole, ReadsAreOfDone

LEMMA FileCommit == ASSUME FileInv, NEW c \in Calls, File!Commit(c) PROVE FileInv'
  <1>1. /\ persist[c] = "written" /\ persist' = [persist EXCEPT ![c] = "ended"] /\ target' = c
        /\ done' = done \cup {c} /\ UNCHANGED <<inodes, restore>>
    BY DEF File!Commit
  <1>2. FileTypeOK' /\ FilesAreOwn'
    BY <1>1 DEF FileInv, FileTypeOK, FilesAreOwn, Snapshots
  <1>3. DoneIsWhole'
    BY <1>1 DEF FileInv, FileTypeOK, DoneIsWhole
  <1>4. ReadsAreOfDone'
    BY <1>1 DEF FileInv, ReadsAreOfDone
  <1> QED BY <1>2, <1>3, <1>4 DEF FileInv

LEMMA FilePersistEnds == ASSUME FileInv, NEW c \in Calls, File!PersistFails(c) \/ File!Crash(c) PROVE FileInv'
  <1>1. persist' = [persist EXCEPT ![c] = "ended"] /\ UNCHANGED <<inodes, target, restore, done>>
    BY DEF File!PersistFails, File!Crash
  <1> QED BY <1>1 DEF FileInv, FileTypeOK, FilesAreOwn, DoneIsWhole, ReadsAreOfDone

LEMMA FileOpenSnapshot == ASSUME FileInv, File!OpenSnapshot \/ File!EndRestore PROVE FileInv'
  <1>1. /\ UNCHANGED <<inodes, target, persist, done>>
        /\ \E pc \in {"closed", "reading"}, file \in {0, target} : restore' = [pc |-> pc, file |-> file, read |-> << >>]
    BY DEF File!OpenSnapshot, File!EndRestore, File!Closed
  <1>2. << >> \in Seq(Snapshots) /\ DOMAIN << >> = {} /\ 0 \in Snapshots
    BY DEF Snapshots
  <1>3. FileTypeOK' /\ FilesAreOwn' /\ DoneIsWhole'
    BY <1>1, <1>2 DEF FileInv, FileTypeOK, FilesAreOwn, DoneIsWhole
  <1>4. ReadsAreOfDone'
    BY <1>1, <1>2 DEF FileInv, ReadsAreOfDone
  <1> QED BY <1>3, <1>4 DEF FileInv

LEMMA FileReadPart == ASSUME FileInv, File!ReadPart PROVE FileInv'
  <1>1. /\ restore.pc = "reading" /\ Len(restore.read) < Len(inodes[restore.file])
        /\ restore' = [restore EXCEPT !.read = Append(restore.read, inodes[restore.file][Len(restore.read) + 1])]
        /\ UNCHANGED <<inodes, target, persist, done>>
    BY DEF File!ReadPart
  <1>2. /\ restore.read \in Seq(Snapshots) /\ restore.file \in Snapshots /\ inodes[restore.file] \in Seq(Snapshots)
    BY DEF FileInv, FileTypeOK
  <1>3. inodes[restore.file][Len(restore.read) + 1] = restore.file
    BY <1>1, <1>2 DEF FileInv, FilesAreOwn
  <1>4. /\ restore'.read = Append(restore.read, restore.file)
        /\ restore' = [pc |-> "reading", file |-> restore.file, read |-> restore'.read]
    BY <1>1, <1>3 DEF FileInv, FileTypeOK
  <1>5. restore'.read \in Seq(Snapshots) /\ \A i \in DOMAIN restore'.read : restore'.read[i] = restore.file
    BY <1>2, <1>4 DEF FileInv, ReadsAreOfDone
  <1>6. FileTypeOK' /\ FilesAreOwn' /\ DoneIsWhole'
    BY <1>1, <1>2, <1>4, <1>5 DEF FileInv, FileTypeOK, FilesAreOwn, DoneIsWhole
  <1>7. ReadsAreOfDone'
    BY <1>1, <1>4, <1>5 DEF FileInv, ReadsAreOfDone
  <1> QED BY <1>6, <1>7 DEF FileInv

LEMMA FileReadEnd == ASSUME FileInv, File!ReadEnd PROVE FileInv'
  <1>1. /\ Len(restore.read) = Len(inodes[restore.file])
        /\ restore' = [restore EXCEPT !.pc = "parsing"]
        /\ UNCHANGED <<inodes, target, persist, done>>
    BY DEF File!ReadEnd
  <1>2. Len(restore.read) = Parts
    BY <1>1 DEF FileInv, DoneIsWhole, ReadsAreOfDone
  <1>3. restore' = [pc |-> "parsing", file |-> restore.file, read |-> restore.read]
    BY <1>1 DEF FileInv, FileTypeOK
  <1>4. FileTypeOK' /\ FilesAreOwn' /\ DoneIsWhole'
    BY <1>1, <1>3 DEF FileInv, FileTypeOK, FilesAreOwn, DoneIsWhole
  <1>5. ReadsAreOfDone'
    BY <1>1, <1>2, <1>3 DEF FileInv, ReadsAreOfDone
  <1> QED BY <1>4, <1>5 DEF FileInv

LEMMA FileNext == FileInv /\ [File!Next]_(File!vars) => FileInv'
  <1> SUFFICES ASSUME FileInv, [File!Next]_(File!vars) PROVE FileInv'
    OBVIOUS
  <1>1. CASE UNCHANGED File!vars
    BY <1>1 DEF File!vars, FileInv, FileTypeOK, FilesAreOwn, DoneIsWhole, ReadsAreOfDone
  <1> QED BY <1>1, FileOpenTemp, FileWritePart, FileClose, FileCommit, FilePersistEnds, FileOpenSnapshot, FileReadPart,
      FileReadEnd DEF File!Next

\* restoreFromFile parses one whole snapshot, whatever persists to the path
\* write, fail or crash at the same time: the file is written under a name of
\* its own and renamed when it is complete.
THEOREM RestoresAreWhole == File!Spec => []RestoresReadWholeSnapshots
  <1>1. FileInv => RestoresReadWholeSnapshots
    <2> SUFFICES ASSUME FileInv, restore.pc = "parsing" PROVE \E c \in done \cup {0} : restore.read = [i \in 1..Parts |-> c]
      BY DEF RestoresReadWholeSnapshots, File!RestoresReadWholeSnapshots
    <2>1. restore.read \in Seq(Snapshots) /\ Len(restore.read) = Parts /\ restore.file \in done \cup {0}
      BY DEF FileInv, FileTypeOK, ReadsAreOfDone
    <2>2. restore.read = [i \in 1..Parts |-> restore.file]
      BY <2>1 DEF FileInv, ReadsAreOfDone
    <2> QED BY <2>1, <2>2
  <1> QED BY FileInit, FileNext, <1>1, PTL DEF File!Spec

-----------------------------------------------------------------------------
(***************************************************************************)
(* DiskLayer.  The write queue is in the order of the calls, and so no     *)
(* file is older than the last answered write of its key (FilesAreNew);    *)
(* what the running write has done so far is in WorkMatches.               *)
(***************************************************************************)
LEMMA DiskCardinality == \A S : Disk!Cardinality(S) = Cardinality(S)
  BY DEF Disk!Cardinality, Cardinality

DiskOp == [op : {"set", "delete", "clear"}, keys : SUBSET Keys, big : BOOLEAN, id : Nat]

FilesTyped ==
    /\ IsFiniteSet(DOMAIN files) /\ DOMAIN files \subseteq Keys
    /\ \A k \in DOMAIN files :
         /\ files[k] = [by |-> files[k].by, state |-> files[k].state]
         /\ files[k].by \in Nat

DiskTypeOK ==
    /\ FilesTyped
    /\ queue \in Seq(DiskOp)
    /\ \A i \in DOMAIN queue : queue[i].op = "set" => IsFiniteSet(queue[i].keys)
    /\ writing \in {"idle", "written", "renamed", "listed", "unlinking"}
    /\ writes \in Nat /\ latest \in [Keys -> Nat]
    /\ reader \in [pc : {"idle", "opening", "returned", "unusable"}, op : {"none", "get", "ttl"},
                   key : Keys \cup {"none"}, by : Nat, floor : Nat]
    /\ reader.pc # "idle" => reader.key \in Keys

\* The writes run in the order of their calls.
WritesInOrder ==
    /\ \A k \in Keys : latest[k] <= writes
    /\ \A i \in DOMAIN queue :
         /\ queue[i].id <= writes
         /\ \A k \in Keys : latest[k] < queue[i].id
         /\ \A j \in DOMAIN queue : i < j => queue[i].id < queue[j].id

\* No file is older than the last write to its key that was answered.
FilesAreNew == \A k \in DOMAIN files : files[k].by >= latest[k]

\* What the running write has done to the files.
WorkMatches ==
    /\ writing # "idle" => queue # << >>
    /\ writing \in {"written", "renamed", "listed"} => Head(queue).op = "set"
    /\ writing \in {"renamed", "listed", "unlinking"} /\ Head(queue).op = "set" =>
         \A k \in DOMAIN files \cap Head(queue).keys : files[k].by = Head(queue).id
    /\ writing = "listed" => IsFiniteSet(work) /\ DOMAIN files \subseteq work
    /\ writing = "unlinking" =>
         IF Head(queue).op = "set"
         THEN Cardinality(DOMAIN files \ (work \cup left)) <= MaxFiles
         ELSE DOMAIN files \cap Head(queue).keys \subseteq work \cup left

\* A read that began after a write was answered finds nothing older.
ReadsAreNew ==
    /\ reader.pc = "opening" => reader.floor <= latest[reader.key]
    /\ Disk!NoOldReads

DiskInv == DiskTypeOK /\ WritesInOrder /\ FilesAreNew /\ WorkMatches /\ ReadsAreNew

LEMMA DiskInit == Disk!Init => DiskInv
  <1> SUFFICES ASSUME Disk!Init PROVE DiskInv
    OBVIOUS
  <1>1. /\ files = << >> /\ queue = << >> /\ writing = "idle" /\ work = {} /\ writes = 0
        /\ latest = [k \in Keys |-> 0]
        /\ reader = [pc |-> "idle", op |-> "none", key |-> "none", by |-> 0, floor |-> 0]
    BY DEF Disk!Init, Disk!NoRead
  <1>2. DOMAIN files = {} /\ DOMAIN queue = {} /\ queue \in Seq(DiskOp)
    BY <1>1
  <1>3. DiskTypeOK
    BY <1>1, <1>2, FS_EmptySet DEF DiskTypeOK, FilesTyped
  <1>4. WritesInOrder /\ FilesAreNew /\ WorkMatches /\ ReadsAreNew
    BY <1>1, <1>2 DEF WritesInOrder, FilesAreNew, WorkMatches, ReadsAreNew, Disk!NoOldReads
  <1> QED BY <1>3, <1>4 DEF DiskInv

\* Files are removed, or run out, and nothing else happens to them.
FilesShrink ==
    /\ DOMAIN files' \subseteq DOMAIN files
    /\ \A k \in DOMAIN files' :
         /\ files'[k] = [by |-> files'[k].by, state |-> files'[k].state]
         /\ files'[k].by = files[k].by

LEMMA ShrinkingKeeps ==
    ASSUME DiskInv, FilesShrink
    PROVE  /\ FilesTyped'
           /\ latest' = latest => FilesAreNew'
           /\ UNCHANGED <<queue, writing>> /\ DOMAIN files' \ (work' \cup left') \subseteq DOMAIN files \ (work \cup left)
                 /\ (writing = "listed" => work' = work) => WorkMatches'
  <1>1. IsFiniteSet(DOMAIN files')
    BY FS_Subset DEF FilesShrink, DiskInv, DiskTypeOK, FilesTyped
  <1>2. FilesTyped'
    BY <1>1 DEF FilesShrink, DiskInv, DiskTypeOK, FilesTyped
  <1>3. latest' = latest => FilesAreNew'
    BY DEF FilesShrink, DiskInv, FilesAreNew
  <1>4. ASSUME UNCHANGED <<queue, writing>>, DOMAIN files' \ (work' \cup left') \subseteq DOMAIN files \ (work \cup left),
               writing = "listed" => work' = work
        PROVE  WorkMatches'
    <2>1. Cardinality(DOMAIN files' \ (work' \cup left')) <= Cardinality(DOMAIN files \ (work \cup left))
      <3>1. IsFiniteSet(DOMAIN files \ (work \cup left))
        BY FS_Subset DEF DiskInv, DiskTypeOK, FilesTyped
      <3> QED BY <1>4, <3>1, FS_Subset
    <2>2. Cardinality(DOMAIN files' \ (work' \cup left')) \in Nat /\ Cardinality(DOMAIN files \ (work \cup left)) \in Nat
      <3>1. IsFiniteSet(DOMAIN files \ (work \cup left)) /\ IsFiniteSet(DOMAIN files' \ (work' \cup left'))
        BY <1>1, FS_Subset DEF DiskInv, DiskTypeOK, FilesTyped
      <3> QED BY <3>1, FS_CardinalityType
    <2>3. writing = "unlinking" /\ Head(queue).op = "set" => Cardinality(DOMAIN files' \ (work' \cup left')) <= MaxFiles
      BY <2>1, <2>2, MaxFilesAssumption DEF DiskInv, WorkMatches
    <2>4. writing = "unlinking" /\ Head(queue).op # "set" => DOMAIN files' \cap Head(queue).keys \subseteq work' \cup left'
      BY <1>4 DEF FilesShrink, DiskInv, WorkMatches
    <2> QED BY <1>4, <2>3, <2>4 DEF FilesShrink, DiskInv, WorkMatches
  <1> QED BY <1>2, <1>3, <1>4

LEMMA WithoutShrinks == ASSUME DiskInv, NEW K, files' = Disk!Without(K) PROVE FilesShrink /\ DOMAIN files' = DOMAIN files \ K
  BY DEF Disk!Without, FilesShrink, DiskInv, DiskTypeOK, FilesTyped

LEMMA FilesStay == ASSUME DiskInv, UNCHANGED files PROVE FilesShrink
  BY DEF FilesShrink, DiskInv, DiskTypeOK, FilesTyped

\* A step of the readers or of time.
LEMMA ReadsKeep ==
    ASSUME DiskInv, UNCHANGED <<files, queue, writing, work, left, writes, latest>>,
           reader' \in [pc : {"idle", "opening", "returned", "unusable"}, op : {"none", "get", "ttl"},
                        key : Keys \cup {"none"}, by : Nat, floor : Nat],
           reader'.pc # "idle" => reader'.key \in Keys,
           ReadsAreNew'
    PROVE  DiskInv'
  BY DEF DiskInv, DiskTypeOK, FilesTyped, WritesInOrder, FilesAreNew, WorkMatches

LEMMA ReaderKept ==
    ASSUME DiskInv, UNCHANGED <<latest, reader>> PROVE ReadsAreNew'
  BY DEF DiskInv, ReadsAreNew, Disk!NoOldReads

LEMMA DiskStartRead ==
    ASSUME DiskInv, NEW op \in {"get", "ttl"}, NEW k \in Keys, Disk!StartRead(op, k) PROVE DiskInv'
  <1>1. /\ reader' = [pc |-> "opening", op |-> op, key |-> k, by |-> 0, floor |-> latest[k]]
        /\ UNCHANGED <<files, queue, writing, work, left, writes, latest>>
    BY DEF Disk!StartRead
  <1>2. latest[k] \in Nat
    BY DEF DiskInv, DiskTypeOK
  <1>3. ReadsAreNew'
    BY <1>1, <1>2 DEF ReadsAreNew, Disk!NoOldReads
  <1> QED BY <1>1, <1>2, <1>3, ReadsKeep

LEMMA DiskGet == ASSUME DiskInv, Disk!GetEntry \/ Disk!Ttl PROVE DiskInv'
  <1>1. /\ reader.pc = "opening" /\ UNCHANGED <<files, queue, writing, work, left, writes, latest>>
        /\ \/ reader.key \in DOMAIN files /\ reader' = [reader EXCEPT !.pc = "returned", !.by = files[reader.key].by]
           \/ reader' = [reader EXCEPT !.pc = "unusable"]
           \/ reader' = [pc |-> "idle", op |-> "none", key |-> "none", by |-> 0, floor |-> 0]
    BY DEF Disk!GetEntry, Disk!Ttl, Disk!Readable, Disk!NoRead
  <1>2. /\ reader \in [pc : {"idle", "opening", "returned", "unusable"}, op : {"none", "get", "ttl"},
                       key : Keys \cup {"none"}, by : Nat, floor : Nat]
        /\ reader.key \in Keys
    BY <1>1 DEF DiskInv, DiskTypeOK
  <1>3. CASE reader.key \in DOMAIN files /\ reader' = [reader EXCEPT !.pc = "returned", !.by = files[reader.key].by]
    <2>1. /\ files[reader.key].by \in Nat /\ files[reader.key].by >= latest[reader.key]
          /\ latest[reader.key] \in Nat /\ reader.floor <= latest[reader.key]
      BY <1>1, <1>2, <1>3 DEF DiskInv, DiskTypeOK, FilesTyped, FilesAreNew, ReadsAreNew
    <2>2. ReadsAreNew'
      BY <1>2, <1>3, <2>1 DEF ReadsAreNew, Disk!NoOldReads
    <2> QED BY <1>1, <1>2, <1>3, <2>1, <2>2, ReadsKeep
  <1>4. CASE reader' = [reader EXCEPT !.pc = "unusable"]
    BY <1>1, <1>2, <1>4, ReadsKeep DEF ReadsAreNew, Disk!NoOldReads
  <1>5. CASE reader' = [pc |-> "idle", op |-> "none", key |-> "none", by |-> 0, floor |-> 0]
    BY <1>1, <1>5, ReadsKeep DEF ReadsAreNew, Disk!NoOldReads
  <1> QED BY <1>1, <1>3, <1>4, <1>5

LEMMA DiskReturned == ASSUME DiskInv, Disk!Returned PROVE DiskInv'
  <1>1. /\ reader' = [pc |-> "idle", op |-> "none", key |-> "none", by |-> 0, floor |-> 0]
        /\ UNCHANGED <<files, queue, writing, work, left, writes, latest>>
    BY DEF Disk!Returned, Disk!NoRead
  <1> QED BY <1>1, ReadsKeep DEF ReadsAreNew, Disk!NoOldReads

LEMMA DiskSafeDelete == ASSUME DiskInv, Disk!SafeDelete PROVE DiskInv'
  <1>1. /\ files' \in {Disk!Without({reader.key}), files} /\ UNCHANGED <<queue, writing, work, left, writes, latest>>
        /\ reader' = [pc |-> "idle", op |-> "none", key |-> "none", by |-> 0, floor |-> 0]
    BY DEF Disk!SafeDelete, Disk!NoRead
  <1>2. FilesShrink
    BY <1>1, WithoutShrinks, FilesStay
  <1>3. FilesTyped' /\ FilesAreNew' /\ WorkMatches'
    BY <1>1, <1>2, ShrinkingKeeps DEF FilesShrink
  <1>4. ReadsAreNew'
    BY <1>1 DEF ReadsAreNew, Disk!NoOldReads
  <1>5. WritesInOrder'
    BY <1>1 DEF DiskInv, WritesInOrder
  <1> QED BY <1>1, <1>3, <1>4, <1>5 DEF DiskInv, DiskTypeOK

LEMMA DiskExpire == ASSUME DiskInv, NEW k \in Keys, Disk!Expire(k) PROVE DiskInv'
  <1>1. /\ k \in DOMAIN files /\ files' = [files EXCEPT ![k].state = "expired"]
        /\ UNCHANGED <<queue, writing, work, left, writes, latest, reader>>
    BY DEF Disk!Expire
  <1>2. FilesShrink
    <2>1. DOMAIN files' = DOMAIN files /\ \A j \in DOMAIN files : j # k => files'[j] = files[j]
      BY <1>1
    <2>2. files'[k] = [by |-> files[k].by, state |-> "expired"]
      BY <1>1 DEF DiskInv, DiskTypeOK, FilesTyped
    <2> QED BY <2>1, <2>2 DEF FilesShrink, DiskInv, DiskTypeOK, FilesTyped
  <1>3. FilesTyped' /\ FilesAreNew' /\ WorkMatches'
    BY <1>1, <1>2, ShrinkingKeeps DEF FilesShrink
  <1>4. WritesInOrder' /\ ReadsAreNew'
    BY <1>1 DEF DiskInv, WritesInOrder, ReadsAreNew, Disk!NoOldReads
  <1> QED BY <1>1, <1>3, <1>4 DEF DiskInv, DiskTypeOK

LEMMA DiskEnqueue ==
    ASSUME DiskInv, NEW op \in {"set", "delete", "clear"}, NEW K \in SUBSET Keys, NEW big \in BOOLEAN,
           op = "set" => IsFiniteSet(K), Disk!EnqueueWrite(op, K, big)
    PROVE  DiskInv'
  <1> DEFINE new == [op |-> op, keys |-> K, big |-> big, id |-> writes + 1]
  <1>1. /\ writes' = writes + 1 /\ queue' \in {queue, Append(queue, new)}
        /\ UNCHANGED <<files, writing, work, left, latest, reader>>
    BY DEF Disk!EnqueueWrite
  <1>2. writes \in Nat /\ latest \in [Keys -> Nat] /\ queue \in Seq(DiskOp)
    BY DEF DiskInv, DiskTypeOK
  <1>3. new \in DiskOp /\ new.op = op /\ new.keys = K /\ new.id = writes + 1
    BY <1>2 DEF DiskOp
  <1> HIDE DEF new
  <1>4. CASE queue' = queue
    <2>1. \A i \in DOMAIN queue : queue[i].id \in Nat
      <3>1. \A i \in DOMAIN queue : queue[i] \in DiskOp
        BY <1>2
      <3> QED BY <3>1 DEF DiskOp
    <2>2. WritesInOrder'
      BY <1>1, <1>2, <1>4, <2>1 DEF DiskInv, WritesInOrder
    <2>3. DiskTypeOK'
      BY <1>1, <1>2, <1>4 DEF DiskInv, DiskTypeOK, FilesTyped
    <2> QED BY <1>1, <1>4, <2>2, <2>3 DEF DiskInv, FilesAreNew, WorkMatches, ReadsAreNew, Disk!NoOldReads
  <1>5. CASE queue' = Append(queue, new)
    <2>1. /\ queue' \in Seq(DiskOp) /\ queue' # << >> /\ (queue # << >> => Head(queue') = Head(queue))
          /\ \A i \in DOMAIN queue' : (i \in DOMAIN queue /\ queue'[i] = queue[i]) \/ (i = Len(queue) + 1 /\ queue'[i] = new)
          /\ \A i \in DOMAIN queue : i \in Nat /\ i <= Len(queue) /\ queue[i].id \in Nat
      <3>1. /\ queue' \in Seq(DiskOp) /\ queue' # << >>
            /\ \A i \in DOMAIN queue' : (i \in DOMAIN queue /\ queue'[i] = queue[i]) \/ (i = Len(queue) + 1 /\ queue'[i] = new)
        <4>1. /\ queue' \in Seq(DiskOp) /\ queue' # << >> /\ DOMAIN queue' = DOMAIN queue \cup {Len(queue) + 1}
              /\ queue'[Len(queue) + 1] = new /\ \A i \in DOMAIN queue : queue'[i] = queue[i]
          BY <1>2, <1>3, <1>5, AppendElements
        <4> QED BY <4>1
      <3>2. queue # << >> => Head(queue') = Head(queue)
        BY <1>2, <1>3, <1>5
      <3>3. \A i \in DOMAIN queue : i \in Nat /\ i <= Len(queue) /\ queue[i] \in DiskOp
        BY <1>2
      <3>4. \A i \in DOMAIN queue : queue[i].id \in Nat
        BY <3>3 DEF DiskOp
      <3> QED BY <3>1, <3>2, <3>3, <3>4
    <2>2. DiskTypeOK'
      <3>1. FilesTyped'
        BY <1>1 DEF DiskInv, DiskTypeOK, FilesTyped
      <3>2. \A i \in DOMAIN queue' : queue'[i].op = "set" => IsFiniteSet(queue'[i].keys)
        BY <1>3, <2>1 DEF DiskInv, DiskTypeOK
      <3> QED BY <1>1, <2>1, <3>1, <3>2 DEF DiskInv, DiskTypeOK
    <2>3. WritesInOrder'
      <3>1. \A k \in Keys : latest'[k] <= writes' /\ latest'[k] < writes' /\ latest[k] = latest'[k]
        BY <1>1, <1>2 DEF DiskInv, WritesInOrder
      <3>2. \A i \in DOMAIN queue : queue[i].id < writes'
        BY <1>1, <1>2, <2>1 DEF DiskInv, WritesInOrder
      <3>3. \A i \in DOMAIN queue' : queue'[i].id <= writes' /\ \A k \in Keys : latest'[k] < queue'[i].id
        BY <1>1, <1>2, <1>3, <2>1, <3>1, <3>2 DEF DiskInv, WritesInOrder
      <3>4. \A i, j \in DOMAIN queue' : i < j => queue'[i].id < queue'[j].id
        BY <1>1, <1>2, <1>3, <2>1, <3>2 DEF DiskInv, WritesInOrder
      <3> QED BY <3>1, <3>3, <3>4 DEF WritesInOrder
    <2>4. FilesAreNew' /\ WorkMatches' /\ ReadsAreNew'
      BY <1>1, <2>1 DEF DiskInv, FilesAreNew, WorkMatches, ReadsAreNew, Disk!NoOldReads
    <2> QED BY <2>2, <2>3, <2>4 DEF DiskInv
  <1> QED BY <1>1, <1>4, <1>5

\* The first write of the queue.
LEMMA FirstWrite ==
    ASSUME DiskInv, queue # << >>
    PROVE  /\ 1 \in DOMAIN queue /\ Head(queue) = queue[1] /\ Head(queue) \in DiskOp
           /\ Head(queue).id \in Nat /\ Head(queue).keys \subseteq Keys /\ Head(queue).id <= writes
           /\ Head(queue).op \in {"set", "delete", "clear"}
           /\ Head(queue).op = "set" => IsFiniteSet(Head(queue).keys)
           /\ \A k \in Keys : latest[k] < Head(queue).id
  <1>1. queue \in Seq(DiskOp)
    BY DEF DiskInv, DiskTypeOK
  <1>2. 1 \in DOMAIN queue /\ Head(queue) = queue[1] /\ Head(queue) \in DiskOp
    BY <1>1
  <1> QED BY <1>2 DEF DiskOp, DiskInv, DiskTypeOK, WritesInOrder

\* What holds of the queue behind a write that is over.
LEMMA QueueAdvances ==
    ASSUME DiskInv, queue # << >>, queue' = Tail(queue), writes' = writes,
           latest' \in [Keys -> Nat],
           \A k \in Keys : latest'[k] \in {latest[k], Head(queue).id}
    PROVE  /\ WritesInOrder' /\ queue' \in Seq(DiskOp) /\ latest' \in [Keys -> Nat]
           /\ \A i \in DOMAIN queue' : queue'[i].op = "set" => IsFiniteSet(queue'[i].keys)
           /\ \A k \in Keys : latest[k] <= latest'[k]
  <1>1. queue \in Seq(DiskOp) /\ writes \in Nat /\ latest \in [Keys -> Nat]
    BY DEF DiskInv, DiskTypeOK
  <1>2. Head(queue).id \in Nat /\ Head(queue).id <= writes /\ \A k \in Keys : latest[k] < Head(queue).id
    BY FirstWrite
  <1>3. /\ queue' \in Seq(DiskOp)
        /\ \A i \in DOMAIN queue' : i \in Nat /\ i + 1 > 1 /\ i + 1 \in DOMAIN queue /\ queue'[i] = queue[i + 1]
    BY <1>1
  <1>4. latest' \in [Keys -> Nat] /\ \A k \in Keys : latest[k] <= latest'[k] /\ latest'[k] <= Head(queue).id
    <2>1. ASSUME NEW k \in Keys PROVE latest[k] <= latest'[k] /\ latest'[k] <= Head(queue).id
      <3>1. latest[k] \in Nat /\ latest[k] < Head(queue).id /\ latest'[k] \in {latest[k], Head(queue).id}
        BY <1>1, <1>2
      <3> QED BY <1>2, <3>1
    <2> QED BY <2>1
  <1>5. \A i \in DOMAIN queue' : queue'[i].id \in Nat /\ Head(queue).id < queue'[i].id
    <2>1. \A i \in DOMAIN queue' : queue'[i] \in DiskOp
      BY <1>3
    <2>2. \A i \in DOMAIN queue' : queue'[i].id \in Nat
      BY <2>1 DEF DiskOp
    <2>3. 1 \in DOMAIN queue /\ Head(queue) = queue[1]
      BY <1>1
    <2> QED BY <1>3, <2>2, <2>3 DEF DiskInv, WritesInOrder
  <1>6. \A i, j \in DOMAIN queue' : i < j => queue'[i].id < queue'[j].id
    BY <1>3 DEF DiskInv, WritesInOrder
  <1>7. WritesInOrder'
    <2>1. \A k \in Keys : latest'[k] <= writes'
      BY <1>1, <1>2, <1>4
    <2>2. \A i \in DOMAIN queue' : queue'[i].id <= writes'
      BY <1>3 DEF DiskInv, WritesInOrder
    <2>3. \A i \in DOMAIN queue' : \A k \in Keys : latest'[k] < queue'[i].id
      BY <1>2, <1>4, <1>5
    <2> QED BY <1>6, <2>1, <2>2, <2>3 DEF WritesInOrder
  <1>8. \A i \in DOMAIN queue' : queue'[i].op = "set" => IsFiniteSet(queue'[i].keys)
    BY <1>3 DEF DiskInv, DiskTypeOK
  <1> QED BY <1>3, <1>4, <1>7, <1>8

\* An answer: the files of the keys are the write's own, or it could not
\* unlink them.
LEMMA Answered ==
    ASSUME DiskInv, queue # << >>, Disk!Answer, UNCHANGED files,
           \A k \in DOMAIN files \cap Head(queue).keys :
               files[k].by = Head(queue).id \/ (Head(queue).op # "set" /\ k \in left)
    PROVE  DiskInv'
  <1>1. /\ queue' = Tail(queue) /\ writing' = "idle" /\ work' = {} /\ UNCHANGED <<writes, reader>>
        /\ latest' = [k \in Keys |-> IF k \in Head(queue).keys /\ (Head(queue).op = "set" \/ k \notin left)
                                      THEN Head(queue).id ELSE latest[k]]
    BY DEF Disk!Answer, Disk!Running
  <1>2. /\ WritesInOrder' /\ queue' \in Seq(DiskOp) /\ latest' \in [Keys -> Nat]
        /\ \A i \in DOMAIN queue' : queue'[i].op = "set" => IsFiniteSet(queue'[i].keys)
        /\ \A k \in Keys : latest[k] <= latest'[k]
    <2>1. Head(queue).id \in Nat /\ latest \in [Keys -> Nat]
      BY FirstWrite DEF DiskInv, DiskTypeOK
    <2>2. latest' \in [Keys -> Nat] /\ \A k \in Keys : latest'[k] \in {latest[k], Head(queue).id}
      BY <1>1, <2>1
    <2> QED BY <1>1, <2>2, QueueAdvances
  <1>3. FilesTyped'
    BY DEF DiskInv, DiskTypeOK, FilesTyped
  <1>4. FilesAreNew'
    <2> SUFFICES ASSUME NEW k \in DOMAIN files' PROVE files'[k].by >= latest'[k]
      BY DEF FilesAreNew
    <2>1. k \in Keys /\ k \in DOMAIN files /\ files'[k].by = files[k].by /\ files[k].by >= latest[k] /\ Head(queue).id \in Nat
      BY FirstWrite DEF DiskInv, DiskTypeOK, FilesTyped, FilesAreNew
    <2> QED BY <1>1, <2>1
  <1>5. WorkMatches'
    BY <1>1 DEF WorkMatches
  <1>6. ReadsAreNew'
    <2>1. /\ reader' = reader /\ reader.floor \in Nat /\ latest \in [Keys -> Nat]
          /\ reader.pc # "idle" => reader.key \in Keys
      BY <1>1 DEF DiskInv, DiskTypeOK
    <2>2. reader.pc = "opening" => reader.floor <= latest'[reader.key]
      BY <1>2, <2>1 DEF DiskInv, ReadsAreNew
    <2> QED BY <2>1, <2>2 DEF DiskInv, ReadsAreNew, Disk!NoOldReads
  <1>7. DiskTypeOK'
    BY <1>1, <1>2, <1>3 DEF DiskInv, DiskTypeOK
  <1> QED BY <1>2, <1>4, <1>5, <1>6, <1>7 DEF DiskInv

LEMMA DiskWriteTemp == ASSUME DiskInv, Disk!WriteTemp PROVE DiskInv'
  <1>1. /\ queue # << >> /\ Head(queue).op = "set" /\ writing' = "written"
        /\ UNCHANGED <<files, queue, work, left, writes, latest, reader>>
    BY DEF Disk!WriteTemp, Disk!Running
  <1>2. WorkMatches' /\ ReadsAreNew'
    BY <1>1, ReaderKept DEF WorkMatches
  <1> QED BY <1>1, <1>2 DEF DiskInv, DiskTypeOK, FilesTyped, WritesInOrder, FilesAreNew

LEMMA DiskWriteFails == ASSUME DiskInv, Disk!WriteFails PROVE DiskInv'
  <1>1. /\ writing = "written" /\ queue' = Tail(queue) /\ writing' = "idle"
        /\ UNCHANGED <<files, work, left, writes, latest, reader>>
    BY DEF Disk!WriteFails
  <1>2. queue # << >>
    BY <1>1 DEF DiskInv, WorkMatches
  <1>3. /\ WritesInOrder' /\ queue' \in Seq(DiskOp)
        /\ \A i \in DOMAIN queue' : queue'[i].op = "set" => IsFiniteSet(queue'[i].keys)
    <2>1. latest' \in [Keys -> Nat] /\ \A k \in Keys : latest'[k] \in {latest[k], Head(queue).id}
      BY <1>1 DEF DiskInv, DiskTypeOK
    <2> QED BY <1>1, <1>2, <2>1, QueueAdvances
  <1>4. WorkMatches' /\ ReadsAreNew'
    BY <1>1, ReaderKept DEF WorkMatches
  <1> QED BY <1>1, <1>3, <1>4 DEF DiskInv, DiskTypeOK, FilesTyped, FilesAreNew

LEMMA DiskRename == ASSUME DiskInv, Disk!Rename PROVE DiskInv'
  <1>1. /\ writing = "written" /\ writing' = "renamed" /\ UNCHANGED <<queue, work, left, writes, latest, reader>>
        /\ \E s : files' = [k \in DOMAIN files \cup Head(queue).keys |->
                              IF k \in Head(queue).keys THEN [by |-> Head(queue).id, state |-> s] ELSE files[k]]
    <2>1. \E s : s = (IF Head(queue).big THEN "unreadable" ELSE "good")
      OBVIOUS
    <2> QED BY <2>1 DEF Disk!Rename, Disk!Running
  <1>2. queue # << >> /\ Head(queue).op = "set"
    BY <1>1 DEF DiskInv, WorkMatches
  <1>3. /\ IsFiniteSet(Head(queue).keys) /\ Head(queue).id \in Nat /\ Head(queue).keys \subseteq Keys
        /\ \A k \in Keys : latest[k] < Head(queue).id
    BY <1>2, FirstWrite
  <1>4. /\ DOMAIN files' = DOMAIN files \cup Head(queue).keys
        /\ \A k \in Head(queue).keys : /\ files'[k].by = Head(queue).id
                                       /\ files'[k] = [by |-> files'[k].by, state |-> files'[k].state]
        /\ \A k \in DOMAIN files \ Head(queue).keys : files'[k] = files[k]
    BY <1>1
  <1>5. IsFiniteSet(DOMAIN files')
    <2>1. IsFiniteSet(DOMAIN files)
      BY DEF DiskInv, DiskTypeOK, FilesTyped
    <2>2. IsFiniteSet(DOMAIN files \cup Head(queue).keys)
      BY <1>3, <2>1, FS_Union
    <2> QED BY <1>4, <2>2
  <1>6. FilesTyped'
    BY <1>3, <1>4, <1>5 DEF DiskInv, DiskTypeOK, FilesTyped
  <1>7. FilesAreNew'
    <2>1. latest \in [Keys -> Nat]
      BY DEF DiskInv, DiskTypeOK
    <2> QED BY <1>1, <1>3, <1>4, <2>1 DEF DiskInv, FilesAreNew
  <1>8. WorkMatches' /\ ReadsAreNew'
    BY <1>1, <1>2, <1>4, ReaderKept DEF WorkMatches
  <1> QED BY <1>1, <1>6, <1>7, <1>8 DEF DiskInv, DiskTypeOK, WritesInOrder

\* A write that could not list the directory leaves every file.
LEMMA DiskUnlisted ==
    ASSUME DiskInv, Disk!Unlisted, queue # << >>,
           Head(queue).op = "set" => writing = "renamed"
    PROVE  DiskInv'
  <1>1. /\ writing' = "unlinking" /\ work' = {} /\ left' = DOMAIN files
        /\ UNCHANGED <<files, queue, writes, latest, reader>>
    BY DEF Disk!Unlisted
  <1>2. DOMAIN files' \ (work' \cup left') = {} /\ Cardinality({}) = 0
    BY <1>1, FS_EmptySet
  <1>3. WorkMatches'
    <2>1. Cardinality(DOMAIN files' \ (work' \cup left')) = 0
      BY <1>2
    <2>2. MaxFiles \in Nat
      BY MaxFilesAssumption
    <2>3. Cardinality(DOMAIN files' \ (work' \cup left')) <= MaxFiles
      BY <2>1, <2>2
    <2>4. Head(queue).op = "set" => \A k \in DOMAIN files \cap Head(queue).keys : files[k].by = Head(queue).id
      BY DEF DiskInv, WorkMatches
    <2> QED BY <1>1, <2>3, <2>4 DEF WorkMatches
  <1>4. ReadsAreNew'
    BY <1>1, ReaderKept
  <1> QED BY <1>1, <1>3, <1>4 DEF DiskInv, DiskTypeOK, FilesTyped, WritesInOrder, FilesAreNew

LEMMA DiskListFiles == ASSUME DiskInv, Disk!ListFiles PROVE DiskInv'
  <1>1. writing = "renamed" /\ queue # << >>
    BY DEF Disk!ListFiles, DiskInv, WorkMatches
  <1>2. CASE Disk!Answer /\ UNCHANGED files
    <2>1. \A k \in DOMAIN files \cap Head(queue).keys : files[k].by = Head(queue).id
      BY <1>1 DEF DiskInv, WorkMatches
    <2> QED BY <1>1, <1>2, <2>1, Answered
  <1>3. CASE writing' = "listed" /\ work' = DOMAIN files /\ UNCHANGED <<files, queue, left, writes, latest, reader>>
    <2>1. WorkMatches' /\ ReadsAreNew'
      BY <1>1, <1>3, ReaderKept DEF DiskInv, DiskTypeOK, FilesTyped, WorkMatches
    <2> QED BY <1>3, <2>1 DEF DiskInv, DiskTypeOK, FilesTyped, WritesInOrder, FilesAreNew
  <1>4. CASE Disk!Unlisted
    BY <1>1, <1>4, DiskUnlisted
  <1> QED BY <1>2, <1>3, <1>4 DEF Disk!ListFiles

\* Without the victims the limit holds.
LEMMA VictimsBound ==
    ASSUME DiskInv, writing = "listed", NEW V \in Disk!Victims
    PROVE  Cardinality(DOMAIN files \ (V \cup left)) <= MaxFiles
  <1>1. IsFiniteSet(work) /\ DOMAIN files \subseteq work
    BY DEF DiskInv, WorkMatches
  <1>2. V \subseteq work /\ Cardinality(V) + MaxFiles = Cardinality(work)
    BY DiskCardinality DEF Disk!Victims
  <1>3. DOMAIN files \ (V \cup left) \subseteq work \ V
    BY <1>1
  <1>4. IsFiniteSet(work \ V) /\ Cardinality(work \ V) = Cardinality(work) - Cardinality(work \cap V)
    BY <1>1, FS_Difference
  <1>5. work \cap V = V /\ IsFiniteSet(V)
    BY <1>1, <1>2, FS_Subset
  <1>6. Cardinality(work \ V) = MaxFiles
    <2>1. Cardinality(V) \in Nat /\ Cardinality(work) \in Nat
      BY <1>1, <1>5, FS_CardinalityType
    <2>2. Cardinality(work \ V) = Cardinality(work) - Cardinality(V)
      BY <1>4, <1>5
    <2> QED BY <1>2, <2>1, <2>2, MaxFilesAssumption
  <1> QED BY <1>3, <1>4, <1>6, FS_Subset

LEMMA DiskEvictFiles == ASSUME DiskInv, Disk!EvictFiles PROVE DiskInv'
  <1>1. /\ writing = "listed" /\ writing' = "unlinking" /\ work' \in Disk!Victims
        /\ UNCHANGED <<files, queue, left, writes, latest, reader>>
    BY DEF Disk!EvictFiles
  <1>2. Cardinality(DOMAIN files' \ (work' \cup left')) <= MaxFiles
    BY <1>1, VictimsBound
  <1>3. WorkMatches' /\ ReadsAreNew'
    BY <1>1, <1>2, ReaderKept DEF DiskInv, WorkMatches
  <1> QED BY <1>1, <1>3 DEF DiskInv, DiskTypeOK, FilesTyped, WritesInOrder, FilesAreNew

LEMMA DiskStartDelete == ASSUME DiskInv, Disk!StartDelete PROVE DiskInv'
  <1>1. queue # << >> /\ Head(queue).op \in {"delete", "clear"}
    BY DEF Disk!StartDelete, Disk!Running
  <1>2. CASE /\ writing' = "unlinking"
             /\ work' = (IF Head(queue).op = "clear" THEN DOMAIN files ELSE Head(queue).keys)
             /\ UNCHANGED <<files, queue, left, writes, latest, reader>>
    <2>1. WorkMatches' /\ ReadsAreNew'
      BY <1>1, <1>2, ReaderKept DEF WorkMatches
    <2> QED BY <1>2, <2>1 DEF DiskInv, DiskTypeOK, FilesTyped, WritesInOrder, FilesAreNew
  <1>3. CASE Disk!Unlisted
    BY <1>1, <1>3, DiskUnlisted
  <1> QED BY <1>2, <1>3 DEF Disk!StartDelete, Disk!Running

LEMMA DiskUnlink == ASSUME DiskInv, NEW k \in Keys, Disk!Unlink(k) PROVE DiskInv'
  <1>1. /\ writing = "unlinking" /\ work' = work \ {k}
        /\ \/ files' = Disk!Without({k}) /\ UNCHANGED left
           \/ left' = left \cup {k} /\ UNCHANGED files
        /\ UNCHANGED <<queue, writing, writes, latest, reader>>
    BY DEF Disk!Unlink
  <1>2. FilesShrink /\ DOMAIN files' \ (work' \cup left') \subseteq DOMAIN files \ (work \cup left)
    BY <1>1, WithoutShrinks, FilesStay
  <1>3. FilesTyped' /\ FilesAreNew' /\ WorkMatches'
    BY <1>1, <1>2, ShrinkingKeeps
  <1>4. ReadsAreNew'
    BY <1>1, ReaderKept
  <1> QED BY <1>1, <1>3, <1>4 DEF DiskInv, DiskTypeOK, WritesInOrder

LEMMA DiskUnlinked == ASSUME DiskInv, Disk!Unlinked PROVE DiskInv'
  <1>1. writing = "unlinking" /\ work = {} /\ Disk!Answer /\ UNCHANGED files
    BY DEF Disk!Unlinked
  <1>2. queue # << >>
    BY <1>1 DEF DiskInv, WorkMatches
  <1>3. \A k \in DOMAIN files \cap Head(queue).keys :
            files[k].by = Head(queue).id \/ (Head(queue).op # "set" /\ k \in left)
    BY <1>1 DEF DiskInv, WorkMatches
  <1> QED BY <1>1, <1>2, <1>3, Answered

LEMMA DiskCrash == ASSUME DiskInv, Disk!Crash PROVE DiskInv'
  <1>1. /\ queue' = << >> /\ writing' = "idle" /\ UNCHANGED <<files, writes, latest>>
        /\ reader' = [pc |-> "idle", op |-> "none", key |-> "none", by |-> 0, floor |-> 0]
    BY DEF Disk!Crash, Disk!NoRead
  <1>2. queue' \in Seq(DiskOp) /\ DOMAIN queue' = {}
    BY <1>1
  <1>3. WritesInOrder' /\ WorkMatches' /\ ReadsAreNew' /\ FilesAreNew'
    BY <1>1, <1>2 DEF DiskInv, WritesInOrder, WorkMatches, ReadsAreNew, FilesAreNew, Disk!NoOldReads
  <1> QED BY <1>1, <1>2, <1>3 DEF DiskInv, DiskTypeOK, FilesTyped

LEMMA DiskWork == ASSUME DiskInv, Disk!Work PROVE DiskInv'
  BY DiskWriteTemp, DiskRename, DiskListFiles, DiskEvictFiles, DiskStartDelete, DiskUnlinked, DiskUnlink DEF Disk!Work

LEMMA DiskNext == DiskInv /\ [Disk!Next]_(Disk!vars) => DiskInv'
  <1> SUFFICES ASSUME DiskInv, [Disk!Next]_(Disk!vars) PROVE DiskInv'
    OBVIOUS
  <1>1. CASE UNCHANGED Disk!vars
    BY <1>1 DEF Disk!vars, DiskInv, DiskTypeOK, FilesTyped, WritesInOrder, FilesAreNew, WorkMatches, ReadsAreNew, Disk!NoOldReads
  <1>2. CASE \/ \E k \in Keys, big \in BOOLEAN : Disk!EnqueueWrite("set", {k}, big)
             \/ \E K \in SUBSET Keys \ {{}} : Disk!EnqueueWrite("delete", K, FALSE)
             \/ Disk!EnqueueWrite("clear", Keys, FALSE)
    <2>1. \A k \in Keys : IsFiniteSet({k}) /\ {k} \in SUBSET Keys
      BY FS_Singleton
    <2> QED BY <1>2, <2>1, DiskEnqueue
  <1>3. CASE Disk!Work \/ Disk!WriteFails \/ Disk!Crash
    BY <1>3, DiskWork, DiskWriteFails, DiskCrash
  <1>4. CASE \/ \E op \in {"get", "ttl"}, k \in Keys : Disk!StartRead(op, k)
             \/ Disk!GetEntry \/ Disk!Ttl \/ Disk!SafeDelete \/ Disk!Returned \/ \E k \in Keys : Disk!Expire(k)
    BY <1>4, DiskStartRead, DiskGet, DiskSafeDelete, DiskReturned, DiskExpire
  <1> QED BY <1>1, <1>2, <1>3, <1>4 DEF Disk!Next

\* What getEntry finds on disk is no older than the last write of the key that
\* was answered before the read began, though reads pass the write queue. A
\* delete or clear that could not list or unlink a file counts as a write of
\* the key only where the file went (safeDelete, clear).
THEOREM DiskReadsAreNew == Disk!Spec => []NoOldReads
  <1>1. DiskInv => NoOldReads
    BY DEF DiskInv, ReadsAreNew, NoOldReads
  <1> QED BY DiskInit, DiskNext, <1>1, PTL DEF Disk!Spec

LEMMA AnswersBoundFiles ==
    DiskInv /\ [Disk!Next]_(Disk!vars) =>
        [latest' # latest /\ Disk!Running.op = "set" => Disk!Cardinality(DOMAIN files' \ left) <= MaxFiles]_(Disk!vars)
  <1> SUFFICES ASSUME DiskInv, Disk!Next, latest' # latest, Head(queue).op = "set"
               PROVE  Disk!Cardinality(DOMAIN files' \ left) <= MaxFiles
    BY DEF Disk!Running
  <1>1. CASE Disk!ListFiles
    <2>1. files' = files /\ Cardinality(DOMAIN files) <= MaxFiles
      BY <1>1, DiskCardinality DEF Disk!ListFiles, Disk!Unlisted
    <2>2. IsFiniteSet(DOMAIN files)
      BY DEF DiskInv, DiskTypeOK, FilesTyped
    <2>3. /\ Cardinality(DOMAIN files \ left) <= Cardinality(DOMAIN files) /\ IsFiniteSet(DOMAIN files \ left)
      BY <2>2, FS_Subset
    <2>4. Cardinality(DOMAIN files \ left) \in Nat /\ Cardinality(DOMAIN files) \in Nat
      BY <2>2, <2>3, FS_CardinalityType
    <2> QED BY <2>1, <2>3, <2>4, DiskCardinality, MaxFilesAssumption
  <1>2. CASE Disk!Unlinked
    <2>1. files' = files /\ work \cup left = left /\ writing = "unlinking"
      BY <1>2 DEF Disk!Unlinked
    <2>2. Cardinality(DOMAIN files \ (work \cup left)) <= MaxFiles
      BY <2>1 DEF DiskInv, WorkMatches
    <2> QED BY <2>1, <2>2, DiskCardinality
  <1>3. /\ ~Disk!WriteTemp /\ ~Disk!Rename /\ ~Disk!StartDelete /\ ~\E k \in Keys : Disk!Unlink(k)
        /\ ~Disk!EvictFiles
        /\ ~Disk!WriteFails /\ ~Disk!Crash /\ ~\E op \in {"get", "ttl"}, k \in Keys : Disk!StartRead(op, k)
        /\ ~Disk!GetEntry /\ ~Disk!Ttl /\ ~Disk!SafeDelete /\ ~Disk!Returned /\ ~\E k \in Keys : Disk!Expire(k)
        /\ ~\E k \in Keys, big \in BOOLEAN : Disk!EnqueueWrite("set", {k}, big)
        /\ ~\E K \in SUBSET Keys \ {{}} : Disk!EnqueueWrite("delete", K, FALSE)
        /\ ~Disk!EnqueueWrite("clear", Keys, FALSE)
    BY DEF Disk!WriteTemp, Disk!Rename, Disk!StartDelete, Disk!Unlink, Disk!Unlisted, Disk!EvictFiles, Disk!WriteFails, Disk!Crash,
       Disk!StartRead, Disk!GetEntry, Disk!Ttl, Disk!SafeDelete, Disk!Returned, Disk!Expire, Disk!EnqueueWrite
  <1> QED BY <1>1, <1>2, <1>3 DEF Disk!Next, Disk!Work

\* When a set is answered the directory has no more than maxFiles entries
\* besides the ones that enforceMaxFiles could not list or unlink.
THEOREM SetsKeepTheLimit == Disk!Spec => SetsBoundFiles
  <1> QED BY DiskInit, DiskNext, AnswersBoundFiles, PTL DEF Disk!Spec, SetsBoundFiles, Disk!SetsBoundFiles

-----------------------------------------------------------------------------
(***************************************************************************)
(* RedisLayer.  Of the commands in flight none stores a value older than   *)
(* the last answered write, rewrites apart, and the writer's own is the    *)
(* last that stores one (CommandsInOrder).                                 *)
(***************************************************************************)
Payload == [by : Nat, format : {"none", "json", "msgpack", "garbage", Redis!Primary}, ttl : BOOLEAN, rewritten : BOOLEAN]
RedisCommand == [op : {"get", "set", "pttl"}, from : {"writer", "reader", "nobody"}, value : Payload]

RedisTypeOK ==
    /\ value \in Payload /\ conn \in Seq(RedisCommand)
    /\ writer \in [op : {"none", "set", "delete"}, id : Nat, pc : {"idle", "encoding", "sent"}]
    /\ redisReader \in [pc : {"idle", "getting", "decoding", "asking", "rewriting", "ending"}, value : Payload]
    /\ redisWrites \in Nat /\ answered \in Nat

\* The command leaves the value of a write in Redis.
Stores(cmd) == cmd.op = "set" /\ cmd.value # Redis!Missing /\ ~cmd.value.rewritten

\* The writes are answered in the order of their calls.
AnswersInOrder ==
    /\ answered <= redisWrites /\ writer.id <= redisWrites
    /\ writer.pc # "idle" => answered <= writer.id

\* No command brings back a write before the last answered one, and the
\* writer's own is the last one that stores a value.
CommandsInOrder ==
    \A i \in DOMAIN conn :
        /\ Stores(conn[i]) => conn[i].value.by >= answered
        /\ conn[i].from = "writer" =>
             /\ writer.pc = "sent" /\ conn[i].op = "set"
             /\ Stores(conn[i]) => conn[i].value.by = writer.id
             /\ \A j \in DOMAIN conn : i < j => ~Stores(conn[j]) /\ conn[j].from # "writer"

RedisInv == RedisTypeOK /\ AnswersInOrder /\ CommandsInOrder /\ Redis!AnsweredWritesAreLast

LEMMA MissingIsPayload == Redis!Missing \in Payload
  BY DEF Redis!Missing, Payload

LEMMA RedisInit == Redis!Init => RedisInv
  <1> SUFFICES ASSUME Redis!Init PROVE RedisInv
    OBVIOUS
  <1>1. PICK f \in {"json", "msgpack", "garbage"}, b \in BOOLEAN : value = [by |-> 0, format |-> f, ttl |-> b, rewritten |-> FALSE]
    BY DEF Redis!Init, Redis!Missing
  <1>2. /\ conn = << >> /\ writer = [op |-> "none", id |-> 0, pc |-> "idle"] /\ redisReader = [pc |-> "idle", value |-> Redis!Missing]
        /\ redisWrites = 0 /\ answered = 0
    BY DEF Redis!Init, Redis!NoWrite, Redis!NoRead
  <1>3. conn \in Seq(RedisCommand) /\ DOMAIN conn = {}
    BY <1>2
  <1>4. value \in Payload /\ value.by = 0
    BY <1>1 DEF Payload
  <1>5. RedisTypeOK
    BY <1>2, <1>3, <1>4, MissingIsPayload DEF RedisTypeOK
  <1>6. AnswersInOrder /\ CommandsInOrder /\ Redis!AnsweredWritesAreLast
    BY <1>2, <1>3, <1>4 DEF AnswersInOrder, CommandsInOrder, Redis!AnsweredWritesAreLast
  <1> QED BY <1>5, <1>6 DEF RedisInv

\* A command is sent that the server has not run yet.
LEMMA CommandSent ==
    ASSUME RedisInv, NEW cmd \in RedisCommand, conn' = Append(conn, cmd), answered' = answered,
           \/ ~Stores(cmd) /\ (cmd.from # "writer" => writer' = writer)
           \/ cmd.from = "writer",
           Stores(cmd) => cmd.value.by >= answered,
           cmd.from = "writer" => /\ writer.pc # "sent" /\ writer'.pc = "sent" /\ cmd.op = "set"
                                  /\ Stores(cmd) => cmd.value.by = writer'.id
    PROVE  conn' \in Seq(RedisCommand) /\ CommandsInOrder'
  <1>1. /\ conn' \in Seq(RedisCommand) /\ DOMAIN conn' = DOMAIN conn \cup {Len(conn) + 1}
        /\ conn'[Len(conn) + 1] = cmd /\ \A i \in DOMAIN conn : conn'[i] = conn[i] /\ i \in Nat /\ i < Len(conn) + 1
    BY AppendElements DEF RedisInv, RedisTypeOK
  <1>2. Len(conn) \in Nat
    BY DEF RedisInv, RedisTypeOK
  <1>3. \A i \in DOMAIN conn : conn[i].from = "writer" => cmd.from # "writer" /\ writer' = writer /\ ~Stores(cmd)
    BY DEF RedisInv, CommandsInOrder
  <1>4. ASSUME NEW i \in DOMAIN conn'
        PROVE  /\ Stores(conn'[i]) => conn'[i].value.by >= answered'
               /\ conn'[i].from = "writer" =>
                    /\ writer'.pc = "sent" /\ conn'[i].op = "set"
                    /\ Stores(conn'[i]) => conn'[i].value.by = writer'.id
                    /\ \A j \in DOMAIN conn' : i < j => ~Stores(conn'[j]) /\ conn'[j].from # "writer"
    <2>1. CASE i \in DOMAIN conn
      <3>1. conn'[i] = conn[i]
        BY <1>1, <2>1
      <3>2. Stores(conn[i]) => conn[i].value.by >= answered
        BY <2>1 DEF RedisInv, CommandsInOrder
      <3>3. CASE conn[i].from = "writer"
        <4>1. writer' = writer /\ ~Stores(cmd) /\ cmd.from # "writer"
          BY <1>3, <2>1, <3>3
        <4>2. /\ writer.pc = "sent" /\ conn[i].op = "set" /\ (Stores(conn[i]) => conn[i].value.by = writer.id)
              /\ \A j \in DOMAIN conn : i < j => ~Stores(conn[j]) /\ conn[j].from # "writer"
          BY <2>1, <3>3 DEF RedisInv, CommandsInOrder
        <4>3. \A j \in DOMAIN conn' : i < j => ~Stores(conn'[j]) /\ conn'[j].from # "writer"
          BY <1>1, <4>1, <4>2
        <4> QED BY <3>1, <3>2, <4>1, <4>2, <4>3
      <3> QED BY <3>1, <3>2, <3>3
    <2>2. CASE i = Len(conn) + 1
      <3>1. conn'[i] = cmd
        BY <1>1, <2>2
      <3>2. \A j \in DOMAIN conn' : ~(i < j)
        BY <1>1, <1>2, <2>2
      <3> QED BY <3>1, <3>2
    <2> QED BY <1>1, <2>1, <2>2
  <1> QED BY <1>1, <1>4 DEF CommandsInOrder, Stores

LEMMA RedisSet == ASSUME RedisInv, Redis!Set PROVE RedisInv'
  <1>1. /\ writer.pc = "idle" /\ redisWrites' = redisWrites + 1
        /\ writer' = [op |-> "set", id |-> redisWrites + 1, pc |-> "encoding"]
        /\ UNCHANGED <<value, conn, redisReader, answered>>
    BY DEF Redis!Set, Redis!MayWrite
  <1>2. RedisTypeOK' /\ AnswersInOrder'
    BY <1>1 DEF RedisInv, RedisTypeOK, AnswersInOrder
  <1>3. CommandsInOrder'
    BY <1>1 DEF RedisInv, CommandsInOrder, Stores
  <1> QED BY <1>1, <1>2, <1>3 DEF RedisInv, Redis!AnsweredWritesAreLast

LEMMA RedisSendSet == ASSUME RedisInv, NEW b \in BOOLEAN, Redis!SendSet(b) PROVE RedisInv'
  <1> DEFINE v == [by |-> writer.id, format |-> Redis!Primary, ttl |-> b, rewritten |-> FALSE]
             cmd == [op |-> "set", from |-> "writer", value |-> v]
  <1>1. /\ writer.pc = "encoding" /\ conn' = Append(conn, cmd) /\ writer' = [writer EXCEPT !.pc = "sent"]
        /\ UNCHANGED <<value, redisReader, redisWrites, answered>>
    BY DEF Redis!SendSet, Redis!Send, Redis!Command
  <1>2. writer' = [op |-> writer.op, id |-> writer.id, pc |-> "sent"] /\ writer.id \in Nat /\ writer.op \in {"none", "set", "delete"}
    BY <1>1 DEF RedisInv, RedisTypeOK
  <1>3. v \in Payload
    BY <1>2 DEF Payload
  <1>4. cmd \in RedisCommand /\ cmd.from = "writer" /\ cmd.op = "set" /\ cmd.value.by = writer.id
    BY <1>3 DEF RedisCommand
  <1>5. writer.id >= answered
    BY <1>1, <1>2 DEF RedisInv, RedisTypeOK, AnswersInOrder
  <1> HIDE DEF cmd
  <1>6. conn' \in Seq(RedisCommand) /\ CommandsInOrder'
    BY <1>1, <1>2, <1>4, <1>5, CommandSent
  <1> QED BY <1>1, <1>2, <1>6 DEF RedisInv, RedisTypeOK, AnswersInOrder, Redis!AnsweredWritesAreLast

LEMMA RedisDelete == ASSUME RedisInv, Redis!Delete PROVE RedisInv'
  <1> DEFINE cmd == [op |-> "set", from |-> "writer", value |-> Redis!Missing]
  <1>1. /\ writer.pc = "idle" /\ redisWrites' = redisWrites + 1
        /\ writer' = [op |-> "delete", id |-> redisWrites + 1, pc |-> "sent"] /\ conn' = Append(conn, cmd)
        /\ UNCHANGED <<value, redisReader, answered>>
    BY DEF Redis!Delete, Redis!MayWrite, Redis!Send, Redis!Command
  <1>2. cmd \in RedisCommand /\ cmd.from = "writer" /\ cmd.op = "set" /\ ~Stores(cmd)
    BY MissingIsPayload DEF RedisCommand, Stores
  <1> HIDE DEF cmd
  <1>3. conn' \in Seq(RedisCommand) /\ CommandsInOrder'
    BY <1>1, <1>2, CommandSent
  <1>4. redisWrites \in Nat /\ answered <= redisWrites /\ answered \in Nat
    BY DEF RedisInv, RedisTypeOK, AnswersInOrder
  <1> QED BY <1>1, <1>3, <1>4 DEF RedisInv, RedisTypeOK, AnswersInOrder, Redis!AnsweredWritesAreLast

\* A command of a reader stores nothing.
LEMMA ReaderSends ==
    ASSUME RedisInv, NEW cmd \in RedisCommand, cmd.from = "reader", ~Stores(cmd), conn' \in {conn, Append(conn, cmd)},
           redisReader' \in [pc : {"idle", "getting", "decoding", "asking", "rewriting", "ending"}, value : Payload],
           UNCHANGED <<value, writer, redisWrites, answered>>
    PROVE  RedisInv'
  <1>1. conn' \in Seq(RedisCommand) /\ CommandsInOrder'
    <2>1. CASE conn' = conn
      BY <2>1 DEF RedisInv, RedisTypeOK, CommandsInOrder, Stores
    <2>2. CASE conn' = Append(conn, cmd)
      BY <2>2, CommandSent
    <2> QED BY <2>1, <2>2
  <1> QED BY <1>1 DEF RedisInv, RedisTypeOK, AnswersInOrder, Redis!AnsweredWritesAreLast

LEMMA RedisRead == ASSUME RedisInv, Redis!Read PROVE RedisInv'
  <1> DEFINE cmd == [op |-> "get", from |-> "reader", value |-> Redis!Missing]
  <1>1. cmd \in RedisCommand /\ cmd.from = "reader" /\ ~Stores(cmd)
    BY MissingIsPayload DEF RedisCommand, Stores
  <1>2. /\ conn' = Append(conn, cmd) /\ redisReader' = [pc |-> "getting", value |-> Redis!Missing]
        /\ UNCHANGED <<value, writer, redisWrites, answered>>
    BY DEF Redis!Read, Redis!Send, Redis!Command, Redis!NoRead
  <1> QED BY <1>1, <1>2, ReaderSends, MissingIsPayload

LEMMA RedisDecode == ASSUME RedisInv, Redis!Decode PROVE RedisInv'
  <1> DEFINE deletion == [op |-> "set", from |-> "reader", value |-> Redis!Missing]
             question == [op |-> "pttl", from |-> "reader", value |-> Redis!Missing]
  <1>1. /\ deletion \in RedisCommand /\ deletion.from = "reader" /\ ~Stores(deletion)
        /\ question \in RedisCommand /\ question.from = "reader" /\ ~Stores(question)
    BY MissingIsPayload DEF RedisCommand, Stores
  <1>2. UNCHANGED <<value, writer, redisWrites, answered>> /\ redisReader.value \in Payload
    BY DEF Redis!Decode, RedisInv, RedisTypeOK
  <1>3. \/ conn' = Append(conn, deletion) /\ redisReader' = [redisReader EXCEPT !.pc = "ending"]
        \/ conn' = Append(conn, question) /\ redisReader' = [redisReader EXCEPT !.pc = "asking"]
        \/ conn' = conn /\ redisReader' = [pc |-> "idle", value |-> Redis!Missing]
    <2>1. CASE ~Redis!Readable(redisReader.value)
      BY <2>1 DEF Redis!Decode, Redis!Send, Redis!Command, Redis!NoRead
    <2>2. CASE Redis!Readable(redisReader.value) /\ redisReader.value.format # Redis!Primary
      BY <2>2 DEF Redis!Decode, Redis!Send, Redis!Command, Redis!NoRead
    <2>3. CASE Redis!Readable(redisReader.value) /\ redisReader.value.format = Redis!Primary
      BY <2>3 DEF Redis!Decode, Redis!Send, Redis!Command, Redis!NoRead
    <2> QED BY <2>1, <2>2, <2>3
  <1>4. redisReader' \in [pc : {"idle", "getting", "decoding", "asking", "rewriting", "ending"}, value : Payload]
    BY <1>3, MissingIsPayload DEF RedisInv, RedisTypeOK
  <1> QED BY <1>1, <1>2, <1>3, <1>4, ReaderSends

LEMMA RedisRewrite == ASSUME RedisInv, Redis!Rewrite PROVE RedisInv'
  <1> DEFINE v == [redisReader.value EXCEPT !.format = Redis!Primary, !.rewritten = TRUE]
             cmd == [op |-> "set", from |-> "reader", value |-> v]
  <1>1. v \in Payload /\ v.rewritten
    BY DEF RedisInv, RedisTypeOK, Payload
  <1> HIDE DEF v
  <1>2. cmd \in RedisCommand /\ cmd.from = "reader" /\ ~Stores(cmd)
    BY <1>1 DEF RedisCommand, Stores
  <1>3. /\ conn' = Append(conn, cmd) /\ redisReader' = [redisReader EXCEPT !.pc = "ending"]
        /\ UNCHANGED <<value, writer, redisWrites, answered>>
    BY DEF Redis!Rewrite, Redis!Send, Redis!Command, v
  <1>4. redisReader' \in [pc : {"idle", "getting", "decoding", "asking", "rewriting", "ending"}, value : Payload]
    BY <1>3 DEF RedisInv, RedisTypeOK
  <1> QED BY <1>2, <1>3, <1>4, ReaderSends

\* The caller of a command waits for it no longer.
LEMMA DesertedCommands ==
    ASSUME RedisInv, NEW from, conn' = Redis!Deserted(from)
    PROVE  /\ conn' \in Seq(RedisCommand) /\ DOMAIN conn' = DOMAIN conn
           /\ \A i \in DOMAIN conn : /\ conn'[i].op = conn[i].op /\ conn'[i].value = conn[i].value
                                     /\ from # "nobody" => conn'[i].from \in {"nobody", conn[i].from} \ {from}
  <1>1. conn \in Seq(RedisCommand) /\ DOMAIN conn = 1..Len(conn) /\ Len(conn) \in Nat
    BY DEF RedisInv, RedisTypeOK
  <1>2. DOMAIN conn' = DOMAIN conn
    BY DEF Redis!Deserted
  <1>3. ASSUME NEW i \in DOMAIN conn
        PROVE  /\ conn'[i] \in RedisCommand /\ conn'[i].op = conn[i].op /\ conn'[i].value = conn[i].value
               /\ from # "nobody" => conn'[i].from \in {"nobody", conn[i].from} \ {from}
    <2>1. conn[i] \in RedisCommand
      BY <1>1
    <2>2. conn'[i] = IF conn[i].from = from THEN [conn[i] EXCEPT !.from = "nobody"] ELSE conn[i]
      BY DEF Redis!Deserted
    <2> QED BY <2>1, <2>2 DEF RedisCommand
  <1>4. conn' = [i \in 1..Len(conn) |-> conn'[i]]
    BY <1>1 DEF Redis!Deserted
  <1>5. conn' \in Seq(RedisCommand)
    BY <1>1, <1>3, <1>4
  <1> QED BY <1>2, <1>3, <1>5

LEMMA RedisTimeOutWrite == ASSUME RedisInv, Redis!TimeOutWrite PROVE RedisInv'
  <1>1. /\ conn' = Redis!Deserted("writer") /\ writer' = [op |-> "none", id |-> 0, pc |-> "idle"]
        /\ UNCHANGED <<value, redisReader, redisWrites, answered>>
    BY DEF Redis!TimeOutWrite, Redis!NoWrite
  <1>2. /\ conn' \in Seq(RedisCommand) /\ DOMAIN conn' = DOMAIN conn
        /\ \A i \in DOMAIN conn : /\ conn'[i].op = conn[i].op /\ conn'[i].value = conn[i].value
                                  /\ conn'[i].from # "writer"
    BY <1>1, DesertedCommands
  <1>3. CommandsInOrder'
    BY <1>1, <1>2 DEF RedisInv, CommandsInOrder, Stores
  <1> QED BY <1>1, <1>2, <1>3 DEF RedisInv, RedisTypeOK, AnswersInOrder, Redis!AnsweredWritesAreLast

LEMMA RedisTimeOutRead == ASSUME RedisInv, Redis!TimeOutRead PROVE RedisInv'
  <1>1. /\ conn' = Redis!Deserted("reader") /\ redisReader' = [pc |-> "idle", value |-> Redis!Missing]
        /\ UNCHANGED <<value, writer, redisWrites, answered>>
    BY DEF Redis!TimeOutRead, Redis!NoRead
  <1>2. /\ conn' \in Seq(RedisCommand) /\ DOMAIN conn' = DOMAIN conn
        /\ \A i \in DOMAIN conn : /\ conn'[i].op = conn[i].op /\ conn'[i].value = conn[i].value
                                  /\ conn'[i].from = "writer" => conn[i].from = "writer"
    BY <1>1, DesertedCommands
  <1>3. CommandsInOrder'
    BY <1>1, <1>2 DEF RedisInv, CommandsInOrder, Stores
  <1> QED BY <1>1, <1>2, <1>3, MissingIsPayload DEF RedisInv, RedisTypeOK, AnswersInOrder, Redis!AnsweredWritesAreLast

LEMMA RedisRun == ASSUME RedisInv, Redis!Run PROVE RedisInv'
  <1> DEFINE cmd == Head(conn)
  <1>1. /\ conn # << >> /\ conn' = Tail(conn) /\ redisWrites' = redisWrites
        /\ value' = (IF cmd.op = "set" THEN cmd.value ELSE value)
        /\ redisReader' = (IF cmd.from = "reader" THEN Redis!Replied(cmd) ELSE redisReader)
        /\ cmd.from = "writer" => writer' = [op |-> "none", id |-> 0, pc |-> "idle"] /\ answered' = writer.id
        /\ cmd.from # "writer" => UNCHANGED <<writer, answered>>
    BY DEF Redis!Run, Redis!NoWrite
  <1>2. /\ conn' \in Seq(RedisCommand) /\ 1 \in DOMAIN conn /\ cmd = conn[1] /\ cmd \in RedisCommand
        /\ \A i \in DOMAIN conn' : i \in Nat /\ i + 1 \in DOMAIN conn /\ conn'[i] = conn[i + 1] /\ i + 1 > 1
    BY <1>1, TailElements DEF RedisInv, RedisTypeOK
  <1> HIDE DEF cmd
  <1>3. cmd.value \in Payload /\ cmd.op \in {"get", "set", "pttl"}
    BY <1>2 DEF RedisCommand
  <1>4. redisReader' \in [pc : {"idle", "getting", "decoding", "asking", "rewriting", "ending"}, value : Payload]
    <2>1. value.ttl \in BOOLEAN /\ [redisReader.value EXCEPT !.ttl = value.ttl] \in Payload
      BY DEF RedisInv, RedisTypeOK, Payload
    <2>2. Redis!Replied(cmd) \in [pc : {"idle", "getting", "decoding", "asking", "rewriting", "ending"}, value : Payload]
      BY <1>3, <2>1, MissingIsPayload DEF RedisInv, RedisTypeOK, Redis!Replied, Redis!NoRead
    <2> QED BY <1>1, <2>2 DEF RedisInv, RedisTypeOK
  <1>5. RedisTypeOK'
    BY <1>1, <1>2, <1>3, <1>4 DEF RedisInv, RedisTypeOK
  <1>6. /\ Stores(cmd) => cmd.value.by >= answered
        /\ cmd.from = "writer" => /\ writer.pc = "sent" /\ cmd.op = "set"
                                  /\ Stores(cmd) => cmd.value.by = writer.id
                                  /\ \A i \in DOMAIN conn' : ~Stores(conn'[i]) /\ conn'[i].from # "writer"
    BY <1>2 DEF RedisInv, CommandsInOrder
  <1>7. writer.id \in Nat /\ cmd.value.by \in Nat /\ writer.id <= redisWrites /\ answered \in Nat
    BY <1>3 DEF RedisInv, RedisTypeOK, AnswersInOrder, Payload
  <1>8. CASE cmd.from = "writer"
    <2>1. value' = cmd.value /\ answered' = writer.id /\ writer' = [op |-> "none", id |-> 0, pc |-> "idle"]
      BY <1>1, <1>6, <1>8
    <2>2. Redis!AnsweredWritesAreLast'
      BY <1>6, <1>7, <1>8, <2>1 DEF Redis!AnsweredWritesAreLast, Stores
    <2>3. AnswersInOrder'
      BY <1>1, <1>7, <2>1 DEF AnswersInOrder, RedisInv, RedisTypeOK
    <2>4. CommandsInOrder'
      <3>1. \A i \in DOMAIN conn' : ~Stores(conn'[i]) /\ conn'[i].from # "writer"
        BY <1>6, <1>8
      <3> QED BY <3>1 DEF CommandsInOrder, Stores
    <2> QED BY <1>5, <2>2, <2>3, <2>4 DEF RedisInv
  <1>9. CASE cmd.from # "writer"
    <2>1. UNCHANGED <<writer, answered>>
      BY <1>1, <1>9
    <2>2. Redis!AnsweredWritesAreLast'
      BY <1>1, <1>6, <2>1 DEF RedisInv, Redis!AnsweredWritesAreLast, Stores
    <2>3. AnswersInOrder'
      BY <1>1, <2>1 DEF AnswersInOrder, RedisInv
    <2>4. CommandsInOrder'
      BY <1>2, <2>1 DEF RedisInv, CommandsInOrder, Stores
    <2> QED BY <1>5, <2>2, <2>3, <2>4 DEF RedisInv
  <1> QED BY <1>8, <1>9

LEMMA RedisExpire == ASSUME RedisInv, Redis!Expire PROVE RedisInv'
  <1>1. value' = Redis!Missing /\ UNCHANGED <<conn, writer, redisReader, redisWrites, answered>>
    BY DEF Redis!Expire
  <1> QED BY <1>1, MissingIsPayload DEF RedisInv, RedisTypeOK, AnswersInOrder, CommandsInOrder, Stores, Redis!AnsweredWritesAreLast

LEMMA RedisNext == RedisInv /\ [Redis!Next]_(Redis!vars) => RedisInv'
  <1> SUFFICES ASSUME RedisInv, [Redis!Next]_(Redis!vars) PROVE RedisInv'
    OBVIOUS
  <1>1. CASE UNCHANGED Redis!vars
    BY <1>1 DEF Redis!vars, RedisInv, RedisTypeOK, AnswersInOrder, CommandsInOrder, Stores, Redis!AnsweredWritesAreLast
  <1> QED BY <1>1, RedisSet, RedisSendSet, RedisDelete, RedisTimeOutWrite, RedisRead, RedisDecode, RedisRewrite,
      RedisTimeOutRead, RedisRun, RedisExpire DEF Redis!Next

\* Redis never again holds a value older than the last answered write, other
\* than by a rewrite of an old payload: commands whose callers were told that
\* they timed out still take effect, but not behind those of later calls.
THEOREM WritesStayAnswered == Redis!Spec => []AnsweredWritesAreLast
  <1>1. RedisInv => AnsweredWritesAreLast
    BY DEF RedisInv, AnsweredWritesAreLast
  <1> QED BY RedisInit, RedisNext, <1>1, PTL DEF Redis!Spec

-----------------------------------------------------------------------------
(***************************************************************************)
(* RedisTagIndex.  The sets that the commands change one after the other   *)
(* are right at the end because of what is still to come: a pipeline that  *)
(* adds tags to a key adds the key to those tags afterwards (Pipeline), so *)
(* that what is missing is on its way (TagsWillMatch, KnownAreListed), and *)
(* a key whose tags are deleted gets none back before it is removed from   *)
(* their sets (HalfRemovedHaveNoTags).  A search reads the shards last,    *)
(* and the keys move there (SearchesWillFind).                             *)
(***************************************************************************)
LEMMA ConcatElements ==
    ASSUME NEW S, NEW s \in Seq(S), NEW u \in Seq(S), NEW q, q = s \o u
    PROVE  /\ q \in Seq(S) /\ Len(s) \in Nat
           /\ \A i \in DOMAIN s : i \in DOMAIN q /\ q[i] = s[i] /\ i \in Nat /\ i <= Len(s)
           /\ \A i \in DOMAIN u : i + Len(s) \in DOMAIN q /\ q[i + Len(s)] = u[i] /\ i \in Nat
           /\ \A i \in DOMAIN q : i \in Nat /\ (i \notin DOMAIN s => i > Len(s) /\ i - Len(s) \in DOMAIN u)
  <1>1. q \in Seq(S) /\ Len(q) = Len(s) + Len(u) /\ Len(s) \in Nat /\ Len(u) \in Nat
    OBVIOUS
  <1>2. \A i \in 1..Len(s) + Len(u) : q[i] = IF i <= Len(s) THEN s[i] ELSE u[i - Len(s)]
    BY ConcatProperties
  <1>3. DOMAIN s = 1..Len(s) /\ DOMAIN u = 1..Len(u) /\ DOMAIN q = 1..(Len(s) + Len(u))
    BY <1>1
  <1>4. \A i \in DOMAIN s : i \in DOMAIN q /\ q[i] = s[i] /\ i \in Nat /\ i <= Len(s)
    BY <1>1, <1>2, <1>3
  <1>5. ASSUME NEW i \in DOMAIN u PROVE i + Len(s) \in DOMAIN q /\ q[i + Len(s)] = u[i] /\ i \in Nat
    <2>1. i \in Nat /\ i > 0 /\ i + Len(s) \in 1..Len(s) + Len(u) /\ ~(i + Len(s) <= Len(s)) /\ (i + Len(s)) - Len(s) = i
      BY <1>1, <1>3
    <2> QED BY <1>2, <1>3, <2>1
  <1>6. \A i \in DOMAIN q : i \in Nat /\ (i \notin DOMAIN s => i > Len(s) /\ i - Len(s) \in DOMAIN u)
    BY <1>1, <1>3
  <1> QED BY <1>1, <1>4, <1>5, <1>6

\* One element of the sequence for each element of the set.
LEMMA SetToSeqElements ==
    ASSUME NEW S, IsFiniteSet(S), NEW q, q = RTags!Seqs!SetToSeq(S)
    PROVE  q \in Seq(S) /\ \A x \in S : \E i \in DOMAIN q : q[i] = x
  <1> DEFINE n == Cardinality(S)
  <1>1. n \in Nat /\ ExistsBijection(1..n, S)
    BY FS_CardinalityType
  <1>2. RTags!Seqs!Cardinality(S) = n
    BY DEF RTags!Seqs!Cardinality, Cardinality
  <1>3. \E f \in [1..n -> S] : RTags!Seqs!IsInjective(f)
    BY <1>1 DEF ExistsBijection, Bijection, Injection, Surjection, RTags!Seqs!IsInjective, IsInjective
  <1>4. q = CHOOSE f \in [1..n -> S] : RTags!Seqs!IsInjective(f)
    BY <1>2 DEF RTags!Seqs!SetToSeq
  <1> HIDE DEF n
  <1>5. q \in [1..n -> S] /\ RTags!Seqs!IsInjective(q)
    BY <1>3, <1>4
  <1>6. q \in Injection(1..n, S)
    BY <1>5 DEF Injection, IsInjective, RTags!Seqs!IsInjective
  <1>7. IsFiniteSet(1..n) /\ Cardinality(1..n) = n
    BY <1>1, FS_Interval
  <1>8. q \in Surjection(1..n, S)
    BY <1>6, <1>7, FS_Injection DEF n
  <1>9. \A x \in S : \E i \in DOMAIN q : q[i] = x
    BY <1>8 DEF Surjection
  <1> QED BY <1>1, <1>5, <1>9

TagMembers == TagKeys \cup Tags
TagNames == {RTags!Legacy, RTags!Shards} \cup {RTags!TagsOf(k) : k \in TagKeys} \cup {RTags!KeysOf(t) : t \in TagMembers}
TagCommand == [op : {"sadd", "srem"}, name : TagNames, members : SUBSET TagMembers]
                \cup [op : {"del", "clear"}, names : SUBSET TagNames]

\* A command that adds a key to tags, or to the keys of a tag.
AddsTags(cmd, k) == cmd.op = "sadd" /\ cmd.name = RTags!TagsOf(k)
AddsKey(cmd, k, t) == cmd.op = "sadd" /\ cmd.name = RTags!KeysOf(t) /\ k \in cmd.members
RemovesKey(cmd, k) == cmd.op = "srem" /\ k \in cmd.members
DeletesTags(cmd, k) == cmd.op = "del" /\ cmd.names = {RTags!TagsOf(k)}

\* After such a command a key is in the shards, or not known any more.
Settles(cmd, k) == cmd.op \in {"sadd", "srem"} /\ cmd.name = RTags!Shards /\ k \in cmd.members
LeavesLegacy(cmd, k) ==
    \/ cmd.op = "srem" /\ cmd.name = RTags!Legacy /\ k \in cmd.members
    \/ cmd.op = "del" /\ RTags!Legacy \in cmd.names

\* The commands of one call, or what is left of them: who adds tags to a key
\* adds the key to these tags later, and removes nothing later.
Pipeline(q) ==
    /\ q \in Seq(TagCommand)
    /\ \A i \in DOMAIN q :
         /\ q[i].op = "sadd" => q[i].name # RTags!Legacy
         /\ q[i].op = "del" => q[i].names = {RTags!Legacy} \/ \E k \in TagKeys : DeletesTags(q[i], k)
         /\ \A k \in TagKeys : AddsTags(q[i], k) =>
              /\ \A t \in q[i].members : \E j \in DOMAIN q : i < j /\ AddsKey(q[j], k, t)
              /\ \A j \in DOMAIN q : i < j => ~RemovesKey(q[j], k)

TagsTypeOK ==
    /\ tagSets \subseteq TagNames \X TagMembers
    /\ todo \in [Clients -> Seq(TagCommand)]
    /\ \A c \in Clients : Pipeline(todo[c])
    /\ search = [pc |-> search.pc, key |-> search.key, names |-> search.names,
                 found |-> search.found, owed |-> search.owed]
    /\ search.found \in BOOLEAN /\ search.owed \in BOOLEAN

HasTag(k, t) == <<RTags!TagsOf(k), t>> \in tagSets
HasKey(k, t) == <<RTags!KeysOf(t), k>> \in tagSets
InShards(k) == <<RTags!Shards, k>> \in tagSets
InLegacy(k) == <<RTags!Legacy, k>> \in tagSets

\* The set of a tag lists its keys unless a pipeline is about to change that.
TagsWillMatch ==
    \A k \in TagKeys \ damaged : \A t \in TagMembers :
        HasTag(k, t) =>
            \/ HasKey(k, t)
            \/ \E c \in Clients : \E i \in DOMAIN todo[c] : AddsKey(todo[c][i], k, t) \/ DeletesTags(todo[c][i], k)

\* The key whose tags a remove has deleted gets no tags before it ends.
Half(q, k) == (\E i \in DOMAIN q : RemovesKey(q[i], k)) /\ ~\E i \in DOMAIN q : DeletesTags(q[i], k)
HalfRemovedHaveNoTags ==
    \A k \in TagKeys \ damaged : \A t \in TagMembers :
        (\E c \in Clients : Half(todo[c], k)) => ~HasTag(k, t)

\* A known key is in a known-key set, in the shards when it leaves the other.
KnownAreListed ==
    /\ \A k \in owed : InShards(k) \/ InLegacy(k)
    /\ \A c \in Clients : \A i \in DOMAIN todo[c] : \A k \in owed :
         LeavesLegacy(todo[c][i], k) =>
             InShards(k) \/ \E j \in DOMAIN todo[c] : j < i /\ Settles(todo[c][j], k)
    /\ \A c \in Clients : \A i \in DOMAIN todo[c] : \A k \in TagMembers :
         todo[c][i].op = "clear" /\ InLegacy(k) => RTags!Legacy \in todo[c][i].names

\* A search that has not found its key will find it in the shards.
SearchesWillFind ==
    search.pc = "scanning" /\ search.owed =>
        /\ search.key \in owed
        /\ search.names \in {<<RTags!Legacy, RTags!Shards>>, <<RTags!Shards>>, << >>}
        /\ search.names = <<RTags!Shards>> => search.found \/ InShards(search.key)
        /\ search.names = << >> => search.found

TagInv == TagsTypeOK /\ TagsWillMatch /\ HalfRemovedHaveNoTags /\ KnownAreListed /\ SearchesWillFind

LEMMA NamesDiffer ==
    /\ \A k : /\ RTags!TagsOf(k) # RTags!Legacy /\ RTags!TagsOf(k) # RTags!Shards
              /\ RTags!KeysOf(k) # RTags!Legacy /\ RTags!KeysOf(k) # RTags!Shards
    /\ \A k, t : RTags!TagsOf(k) # RTags!KeysOf(t) /\ (RTags!TagsOf(k) = RTags!TagsOf(t) => k = t)
    /\ RTags!Legacy # RTags!Shards
  BY DEF RTags!TagsOf, RTags!KeysOf, RTags!Legacy, RTags!Shards

LEMMA CommandsMade ==
    /\ \A n \in TagNames, M \in SUBSET TagMembers :
         /\ RTags!SAdd(n, M) \in TagCommand /\ RTags!SAdd(n, M).op = "sadd"
         /\ RTags!SAdd(n, M).name = n /\ RTags!SAdd(n, M).members = M
    /\ \A n \in TagNames, m \in TagMembers :
         /\ RTags!SRem(n, m) \in TagCommand /\ RTags!SRem(n, m).op = "srem"
         /\ RTags!SRem(n, m).name = n /\ RTags!SRem(n, m).members = {m}
    /\ \A N \in SUBSET TagNames :
         /\ RTags!Del(N) \in TagCommand /\ RTags!Del(N).op = "del" /\ RTags!Del(N).names = N
         /\ RTags!ClearDel(N) \in TagCommand /\ RTags!ClearDel(N).op = "clear" /\ RTags!ClearDel(N).names = N
  BY DEF TagCommand, RTags!SAdd, RTags!SRem, RTags!Del, RTags!ClearDel

LEMMA CommandFields ==
    ASSUME NEW cmd \in TagCommand
    PROVE  /\ cmd.op \in {"sadd", "srem", "del", "clear"}
           /\ cmd.op \in {"sadd", "srem"} => cmd.name \in TagNames /\ cmd.members \subseteq TagMembers
           /\ cmd.op \in {"del", "clear"} => cmd.names \subseteq TagNames
           /\ \A k \in TagKeys : cmd = RTags!Del({RTags!TagsOf(k)}) <=> DeletesTags(cmd, k)
  <1>1. CASE cmd \in [op : {"sadd", "srem"}, name : TagNames, members : SUBSET TagMembers]
    BY <1>1 DEF RTags!Del, DeletesTags
  <1>2. CASE cmd \in [op : {"del", "clear"}, names : SUBSET TagNames]
    BY <1>2 DEF RTags!Del, DeletesTags
  <1> QED BY <1>1, <1>2 DEF TagCommand

LEMMA NamesKnown ==
    /\ RTags!Legacy \in TagNames /\ RTags!Shards \in TagNames
    /\ \A k \in TagKeys : RTags!TagsOf(k) \in TagNames /\ k \in TagMembers
    /\ \A t \in TagMembers : RTags!KeysOf(t) \in TagNames
  BY DEF TagNames, TagMembers

LEMMA MembersFinite == \A S \in SUBSET TagMembers : IsFiniteSet(S)
  <1>1. IsFiniteSet(TagMembers)
    BY TagDataAssumption, FS_Union DEF TagMembers
  <1> QED BY <1>1, FS_Subset

LEMMA MembersOf ==
    ASSUME TagsTypeOK, NEW n
    PROVE  RTags!SMembers(n) \subseteq TagMembers /\ \A m : m \in RTags!SMembers(n) <=> <<n, m>> \in tagSets
  <1>1. \A e \in tagSets : e = <<e[1], e[2]>> /\ e[2] \in TagMembers
    BY DEF TagsTypeOK
  <1>2. \A m : <<n, m>>[1] = n /\ <<n, m>>[2] = m
    OBVIOUS
  <1>3. RTags!SMembers(n) = {e[2] : e \in {x \in tagSets : x[1] = n}}
    BY DEF RTags!SMembers
  <1>4. ASSUME NEW m \in RTags!SMembers(n) PROVE m \in TagMembers /\ <<n, m>> \in tagSets
    <2>1. PICK e \in tagSets : e[1] = n /\ e[2] = m
      BY <1>3, <1>4
    <2> QED BY <1>1, <2>1
  <1>5. ASSUME NEW m, <<n, m>> \in tagSets PROVE m \in RTags!SMembers(n)
    BY <1>2, <1>3, <1>5
  <1> QED BY <1>4, <1>5

\* A sequence of commands none of which adds tags to a key.
Plain(q) ==
    /\ q \in Seq(TagCommand)
    /\ \A i \in DOMAIN q :
         /\ q[i].op = "sadd" => q[i].name # RTags!Legacy /\ \A k \in TagKeys : ~AddsTags(q[i], k)
         /\ q[i].op = "del" => q[i].names = {RTags!Legacy} \/ \E k \in TagKeys : DeletesTags(q[i], k)

LEMMA PlainConcat == ASSUME NEW s, NEW u, Plain(s), Plain(u) PROVE Plain(s \o u)
  <1> DEFINE q == s \o u
  <1>1. q \in Seq(TagCommand) /\ \A i \in DOMAIN q : (i \in DOMAIN s /\ q[i] = s[i]) \/ (i - Len(s) \in DOMAIN u /\ q[i] = u[i - Len(s)])
    <2>1. /\ q \in Seq(TagCommand) /\ Len(s) \in Nat
          /\ \A i \in DOMAIN s : q[i] = s[i]
          /\ \A i \in DOMAIN u : q[i + Len(s)] = u[i] /\ i \in Nat
          /\ \A i \in DOMAIN q : i \in Nat /\ (i \notin DOMAIN s => i - Len(s) \in DOMAIN u)
      BY ConcatElements DEF Plain
    <2> HIDE DEF q
    <2>2. \A i \in DOMAIN q : i \notin DOMAIN s => q[i] = u[i - Len(s)]
      <3> SUFFICES ASSUME NEW i \in DOMAIN q, i \notin DOMAIN s PROVE q[i] = u[i - Len(s)]
        OBVIOUS
      <3>1. i - Len(s) \in DOMAIN u /\ (i - Len(s)) + Len(s) = i
        BY <2>1
      <3> QED BY <2>1, <3>1
    <2> QED BY <2>1, <2>2
  <1> HIDE DEF q
  <1>2. Plain(q)
    BY <1>1 DEF Plain
  <1> QED BY <1>2 DEF q

LEMMA PlainThenPipeline == ASSUME NEW s, NEW u, Plain(s), Pipeline(u) PROVE Pipeline(s \o u)
  <1> DEFINE q == s \o u
  <1>1. /\ q \in Seq(TagCommand) /\ Len(s) \in Nat
        /\ \A i \in DOMAIN s : q[i] = s[i] /\ i <= Len(s)
        /\ \A i \in DOMAIN u : i + Len(s) \in DOMAIN q /\ q[i + Len(s)] = u[i] /\ i \in Nat
        /\ \A i \in DOMAIN q : i \in Nat /\ (i \notin DOMAIN s => i > Len(s) /\ i - Len(s) \in DOMAIN u)
    BY ConcatElements DEF Plain, Pipeline
  <1> HIDE DEF q
  <1>2. ASSUME NEW i \in DOMAIN q
        PROVE  /\ q[i].op = "sadd" => q[i].name # RTags!Legacy
               /\ q[i].op = "del" => q[i].names = {RTags!Legacy} \/ \E k \in TagKeys : DeletesTags(q[i], k)
               /\ \A k \in TagKeys : AddsTags(q[i], k) =>
                    /\ \A t \in q[i].members : \E j \in DOMAIN q : i < j /\ AddsKey(q[j], k, t)
                    /\ \A j \in DOMAIN q : i < j => ~RemovesKey(q[j], k)
    <2>1. CASE i \in DOMAIN s
      <3>1. q[i] = s[i]
        BY <1>1, <2>1
      <3> QED BY <2>1, <3>1 DEF Plain, AddsTags
    <2>2. CASE i \notin DOMAIN s
      <3> DEFINE h == i - Len(s)
      <3>1. h \in DOMAIN u /\ h \in Nat /\ i = h + Len(s) /\ q[i] = u[h] /\ i > Len(s)
        <4>1. h \in DOMAIN u /\ i \in Nat /\ i > Len(s)
          BY <1>1, <2>2
        <4>2. h \in Nat /\ i = h + Len(s)
          BY <1>1, <4>1
        <4> QED BY <1>1, <4>1, <4>2
      <3> HIDE DEF h
      <3>2. ASSUME NEW k \in TagKeys, AddsTags(u[h], k)
            PROVE  /\ \A t \in u[h].members : \E j \in DOMAIN q : i < j /\ AddsKey(q[j], k, t)
                   /\ \A j \in DOMAIN q : i < j => ~RemovesKey(q[j], k)
        <4>1. /\ \A t \in u[h].members : \E j \in DOMAIN u : h < j /\ AddsKey(u[j], k, t)
              /\ \A j \in DOMAIN u : h < j => ~RemovesKey(u[j], k)
          BY <3>1, <3>2 DEF Pipeline
        <4>2. ASSUME NEW t \in u[h].members PROVE \E j \in DOMAIN q : i < j /\ AddsKey(q[j], k, t)
          <5>1. PICK j \in DOMAIN u : h < j /\ AddsKey(u[j], k, t)
            BY <4>1
          <5>2. j + Len(s) \in DOMAIN q /\ i < j + Len(s) /\ q[j + Len(s)] = u[j]
            BY <1>1, <3>1, <5>1
          <5> QED BY <5>1, <5>2
        <4>3. ASSUME NEW j \in DOMAIN q, i < j PROVE ~RemovesKey(q[j], k)
          <5>1. j \in Nat /\ j \notin DOMAIN s
            BY <1>1, <3>1, <4>3
          <5>2. j - Len(s) \in DOMAIN u /\ h < j - Len(s) /\ (j - Len(s)) + Len(s) = j
            BY <1>1, <3>1, <4>3, <5>1
          <5>3. q[j] = u[j - Len(s)]
            BY <1>1, <5>2
          <5> QED BY <4>1, <5>2, <5>3
        <4> QED BY <4>2, <4>3
      <3>3. /\ u[h].op = "sadd" => u[h].name # RTags!Legacy
            /\ u[h].op = "del" => u[h].names = {RTags!Legacy} \/ \E k \in TagKeys : DeletesTags(u[h], k)
        BY <3>1 DEF Pipeline
      <3> QED BY <3>1, <3>2, <3>3
    <2> QED BY <2>1, <2>2
  <1>3. Pipeline(q)
    BY <1>1, <1>2 DEF Pipeline
  <1> QED BY <1>3 DEF q

LEMMA PlainIsPipeline == \A q : Plain(q) => Pipeline(q)
  BY DEF Plain, Pipeline, AddsTags

LEMMA PipelineGoesOn == ASSUME NEW q, Pipeline(q), q # << >> PROVE Pipeline(Tail(q))
  <1> DEFINE u == Tail(q)
  <1>1. /\ u \in Seq(TagCommand)
        /\ \A i \in DOMAIN u : i \in Nat /\ i + 1 \in DOMAIN q /\ u[i] = q[i + 1]
        /\ \A i \in DOMAIN q : i # 1 => i - 1 \in DOMAIN u /\ u[i - 1] = q[i]
    BY TailElements DEF Pipeline
  <1>2. \A i \in DOMAIN q : i \in Nat
    BY DEF Pipeline
  <1> HIDE DEF u
  <1>3. ASSUME NEW i \in DOMAIN u
        PROVE  /\ u[i].op = "sadd" => u[i].name # RTags!Legacy
               /\ u[i].op = "del" => u[i].names = {RTags!Legacy} \/ \E k \in TagKeys : DeletesTags(u[i], k)
               /\ \A k \in TagKeys : AddsTags(u[i], k) =>
                    /\ \A t \in u[i].members : \E j \in DOMAIN u : i < j /\ AddsKey(u[j], k, t)
                    /\ \A j \in DOMAIN u : i < j => ~RemovesKey(u[j], k)
    <2>1. i \in Nat /\ i + 1 \in DOMAIN q /\ u[i] = q[i + 1]
      BY <1>1
    <2>2. ASSUME NEW k \in TagKeys, AddsTags(q[i + 1], k)
          PROVE  /\ \A t \in q[i + 1].members : \E j \in DOMAIN u : i < j /\ AddsKey(u[j], k, t)
                 /\ \A j \in DOMAIN u : i < j => ~RemovesKey(u[j], k)
      <3>1. /\ \A t \in q[i + 1].members : \E j \in DOMAIN q : i + 1 < j /\ AddsKey(q[j], k, t)
            /\ \A j \in DOMAIN q : i + 1 < j => ~RemovesKey(q[j], k)
        BY <2>1, <2>2 DEF Pipeline
      <3>2. ASSUME NEW t \in q[i + 1].members PROVE \E j \in DOMAIN u : i < j /\ AddsKey(u[j], k, t)
        <4>1. PICK j \in DOMAIN q : i + 1 < j /\ AddsKey(q[j], k, t)
          BY <3>1
        <4>2. j - 1 \in DOMAIN u /\ i < j - 1 /\ u[j - 1] = q[j]
          BY <1>1, <1>2, <2>1, <4>1
        <4> QED BY <4>1, <4>2
      <3>3. ASSUME NEW j \in DOMAIN u, i < j PROVE ~RemovesKey(u[j], k)
        <4>1. j + 1 \in DOMAIN q /\ i + 1 < j + 1 /\ u[j] = q[j + 1]
          BY <1>1, <2>1, <3>3
        <4> QED BY <3>1, <4>1
      <3> QED BY <3>2, <3>3
    <2> QED BY <2>1, <2>2 DEF Pipeline
  <1>4. Pipeline(u)
    BY <1>1, <1>3 DEF Pipeline
  <1> QED BY <1>4 DEF u

\* The commands that a call repeats for each tag, and a migration for each key.
RemovesFrom(S, k) == RTags!ForEach(S, LAMBDA t : RTags!SRem(RTags!KeysOf(t), k))
AddsTo(S, k) == RTags!ForEach(S, LAMBDA t : RTags!SAdd(RTags!KeysOf(t), {k}))
Copies(S) == RTags!ForEach(S, LAMBDA k : RTags!SAdd(RTags!Shards, {k}))

LEMMA MappedSeq ==
    ASSUME NEW S, NEW o \in Seq(S), NEW R, NEW q, q = [i \in DOMAIN o |-> q[i]], \A i \in DOMAIN o : q[i] \in R
    PROVE  q \in Seq(R) /\ DOMAIN q = DOMAIN o
  <1>1. DOMAIN o = 1..Len(o) /\ Len(o) \in Nat
    OBVIOUS
  <1>2. q \in [1..Len(o) -> R]
    BY <1>1
  <1> QED BY <1>1, <1>2

LEMMA RemovesAreKeys ==
    ASSUME NEW k \in TagKeys, NEW S \in SUBSET TagMembers
    PROVE  /\ Plain(RemovesFrom(S, k))
           /\ \A i \in DOMAIN RemovesFrom(S, k) :
                /\ RemovesFrom(S, k)[i].op = "srem" /\ RemovesFrom(S, k)[i].members = {k}
                /\ RemovesFrom(S, k)[i].name # RTags!Legacy
  <1> DEFINE o == RTags!Seqs!SetToSeq(S)
             q == RemovesFrom(S, k)
  <1>1. o \in Seq(S) /\ q = [i \in DOMAIN o |-> RTags!SRem(RTags!KeysOf(o[i]), k)]
    BY SetToSeqElements, MembersFinite DEF RTags!ForEach, RemovesFrom
  <1> HIDE DEF o, q
  <1>2. ASSUME NEW i \in DOMAIN o
        PROVE  q[i] \in TagCommand /\ q[i].op = "srem" /\ q[i].members = {k} /\ q[i].name # RTags!Legacy
    <2>1. o[i] \in TagMembers /\ q[i] = RTags!SRem(RTags!KeysOf(o[i]), k)
      BY <1>1
    <2>2. RTags!KeysOf(o[i]) \in TagNames /\ k \in TagMembers /\ RTags!KeysOf(o[i]) # RTags!Legacy
      BY <2>1, NamesKnown, NamesDiffer
    <2> QED BY <2>1, <2>2, CommandsMade
  <1>3. q = [i \in DOMAIN o |-> q[i]]
    BY <1>1
  <1>4. q \in Seq(TagCommand) /\ DOMAIN q = DOMAIN o
    <2>1. o \in Seq(S)
      BY <1>1
    <2>2. \A i \in DOMAIN o : q[i] \in TagCommand
      BY <1>2
    <2> QED BY <1>3, <2>1, <2>2, MappedSeq
  <1>5. Plain(q) /\ \A i \in DOMAIN q : q[i].op = "srem" /\ q[i].members = {k} /\ q[i].name # RTags!Legacy
    BY <1>2, <1>4 DEF Plain
  <1> QED BY <1>5 DEF q

LEMMA AddsAreKeys ==
    ASSUME NEW k \in TagKeys, NEW S \in SUBSET TagMembers
    PROVE  /\ Plain(AddsTo(S, k)) /\ \A i \in DOMAIN AddsTo(S, k) : AddsTo(S, k)[i].op = "sadd"
           /\ \A t \in S : \E i \in DOMAIN AddsTo(S, k) : AddsKey(AddsTo(S, k)[i], k, t)
  <1> DEFINE o == RTags!Seqs!SetToSeq(S)
             q == AddsTo(S, k)
  <1>1. /\ o \in Seq(S) /\ q = [i \in DOMAIN o |-> RTags!SAdd(RTags!KeysOf(o[i]), {k})]
        /\ \A t \in S : \E i \in DOMAIN o : o[i] = t
    BY SetToSeqElements, MembersFinite DEF RTags!ForEach, AddsTo
  <1> HIDE DEF o, q
  <1>2. ASSUME NEW i \in DOMAIN o
        PROVE  q[i] \in TagCommand /\ q[i].op = "sadd" /\ q[i].members = {k} /\ q[i].name = RTags!KeysOf(o[i])
    <2>1. o[i] \in TagMembers /\ q[i] = RTags!SAdd(RTags!KeysOf(o[i]), {k})
      BY <1>1
    <2>2. RTags!KeysOf(o[i]) \in TagNames /\ {k} \in SUBSET TagMembers
      BY <2>1, NamesKnown
    <2> QED BY <2>1, <2>2, CommandsMade
  <1>3. q = [i \in DOMAIN o |-> q[i]]
    BY <1>1
  <1>4. q \in Seq(TagCommand) /\ DOMAIN q = DOMAIN o
    <2>1. o \in Seq(S)
      BY <1>1
    <2>2. \A i \in DOMAIN o : q[i] \in TagCommand
      BY <1>2
    <2> QED BY <1>3, <2>1, <2>2, MappedSeq
  <1>5. Plain(q) /\ \A i \in DOMAIN q : q[i].op = "sadd"
    BY <1>2, <1>4, NamesDiffer DEF Plain, AddsTags
  <1>6. \A t \in S : \E i \in DOMAIN q : AddsKey(q[i], k, t)
    <2> SUFFICES ASSUME NEW t \in S PROVE \E i \in DOMAIN q : AddsKey(q[i], k, t)
      OBVIOUS
    <2>1. PICK i \in DOMAIN o : o[i] = t
      BY <1>1
    <2> QED BY <1>2, <1>4, <2>1 DEF AddsKey
  <1> QED BY <1>5, <1>6 DEF q

LEMMA CopiesAreKnown ==
    ASSUME NEW S \in SUBSET TagMembers
    PROVE  /\ Plain(Copies(S)) /\ \A i \in DOMAIN Copies(S) : Copies(S)[i].op = "sadd"
           /\ \A k \in S : \E i \in DOMAIN Copies(S) : Settles(Copies(S)[i], k)
  <1> DEFINE o == RTags!Seqs!SetToSeq(S)
             q == Copies(S)
  <1>1. /\ o \in Seq(S) /\ q = [i \in DOMAIN o |-> RTags!SAdd(RTags!Shards, {o[i]})]
        /\ \A t \in S : \E i \in DOMAIN o : o[i] = t
    BY SetToSeqElements, MembersFinite DEF RTags!ForEach, Copies
  <1> HIDE DEF o, q
  <1>2. ASSUME NEW i \in DOMAIN o
        PROVE  q[i] \in TagCommand /\ q[i].op = "sadd" /\ q[i].members = {o[i]} /\ q[i].name = RTags!Shards
    <2>1. {o[i]} \in SUBSET TagMembers /\ q[i] = RTags!SAdd(RTags!Shards, {o[i]})
      BY <1>1
    <2> QED BY <2>1, CommandsMade, NamesKnown
  <1>3. q = [i \in DOMAIN o |-> q[i]]
    BY <1>1
  <1>4. q \in Seq(TagCommand) /\ DOMAIN q = DOMAIN o
    <2>1. o \in Seq(S)
      BY <1>1
    <2>2. \A i \in DOMAIN o : q[i] \in TagCommand
      BY <1>2
    <2> QED BY <1>3, <2>1, <2>2, MappedSeq
  <1>5. Plain(q) /\ \A i \in DOMAIN q : q[i].op = "sadd"
    BY <1>2, <1>4, NamesDiffer DEF Plain, AddsTags
  <1>6. \A k \in S : \E i \in DOMAIN q : Settles(q[i], k)
    <2> SUFFICES ASSUME NEW k \in S PROVE \E i \in DOMAIN q : Settles(q[i], k)
      OBVIOUS
    <2>1. PICK i \in DOMAIN o : o[i] = k
      BY <1>1
    <2> QED BY <1>2, <1>4, <2>1 DEF Settles
  <1> QED BY <1>5, <1>6 DEF q

LEMMA OneCommand == ASSUME NEW cmd \in TagCommand
    PROVE <<cmd>> \in Seq(TagCommand) /\ DOMAIN <<cmd>> = {1} /\ <<cmd>>[1] = cmd /\ Len(<<cmd>>) = 1
  OBVIOUS

\* What the commands of a call that begins must be like.
Sound(q) ==
    /\ Pipeline(q)
    /\ \A k \in TagKeys : (\E i \in DOMAIN q : RemovesKey(q[i], k)) => \E i \in DOMAIN q : DeletesTags(q[i], k)
    /\ \A i \in DOMAIN q : \A k \in owed : LeavesLegacy(q[i], k) =>
         InShards(k) \/ \E j \in DOMAIN q : j < i /\ Settles(q[j], k)
    /\ \A i \in DOMAIN q : \A k \in TagMembers : q[i].op = "clear" /\ InLegacy(k) => RTags!Legacy \in q[i].names

LEMMA TouchIsSound == ASSUME NEW k \in TagKeys PROVE Sound(<<RTags!SAdd(RTags!Shards, {k})>>)
  <1> DEFINE cmd == RTags!SAdd(RTags!Shards, {k})
  <1>1. cmd \in TagCommand /\ cmd.op = "sadd" /\ cmd.name = RTags!Shards /\ cmd.members = {k}
    <2>1. {k} \in SUBSET TagMembers
      BY NamesKnown
    <2> QED BY <2>1, CommandsMade, NamesKnown
  <1> HIDE DEF cmd
  <1> DEFINE q == <<cmd>>
  <1>2. q \in Seq(TagCommand) /\ DOMAIN q = {1} /\ q[1] = cmd
    BY <1>1, OneCommand
  <1> HIDE DEF q
  <1>3. Plain(q)
    BY <1>1, <1>2, NamesDiffer DEF Plain, AddsTags
  <1>4. Sound(q)
    BY <1>1, <1>2, <1>3, PlainIsPipeline DEF Sound, RemovesKey, LeavesLegacy
  <1> QED BY <1>4 DEF q, cmd

LEMMA ClearIsSound == ASSUME TagsTypeOK PROVE Sound(RTags!ClearCommands)
  <1> DEFINE N == {e[1] : e \in tagSets}
             cmd == RTags!ClearDel(N)
             q == <<cmd>>
  <1>1. N \subseteq TagNames /\ \A k : InLegacy(k) => RTags!Legacy \in N
    <2>1. \A e \in tagSets : e[1] \in TagNames
      BY DEF TagsTypeOK
    <2>2. \A k : <<RTags!Legacy, k>>[1] = RTags!Legacy
      OBVIOUS
    <2> QED BY <2>1, <2>2 DEF InLegacy
  <1>2. cmd \in TagCommand /\ cmd.op = "clear" /\ cmd.names = N
    <2> HIDE DEF N
    <2> QED BY <1>1, CommandsMade
  <1> HIDE DEF N, cmd
  <1>3. q \in Seq(TagCommand) /\ DOMAIN q = {1} /\ q[1] = cmd
    BY <1>2, OneCommand
  <1> HIDE DEF q
  <1>4. Plain(q)
    BY <1>2, <1>3 DEF Plain
  <1>5. Sound(q)
    BY <1>1, <1>2, <1>3, <1>4, PlainIsPipeline DEF Sound, RemovesKey, LeavesLegacy
  <1> QED BY <1>5 DEF q, cmd, N, RTags!ClearCommands

LEMMA MigrateIsSound == ASSUME TagInv PROVE Sound(RTags!MigrateCommands)
  <1> DEFINE S == RTags!SMembers(RTags!Legacy)
             copies == Copies(S)
             del == RTags!Del({RTags!Legacy})
             last == IF S = {} THEN << >> ELSE <<del>>
             q == copies \o last
  <1>1. S \subseteq TagMembers /\ \A m : m \in S <=> InLegacy(m)
    BY MembersOf DEF TagInv, InLegacy
  <1>2. /\ Plain(copies) /\ \A i \in DOMAIN copies : copies[i].op = "sadd"
        /\ \A k \in S : \E i \in DOMAIN copies : Settles(copies[i], k)
    BY <1>1, CopiesAreKnown
  <1>3. del \in TagCommand /\ del.op = "del" /\ del.names = {RTags!Legacy}
    BY CommandsMade, NamesKnown
  <1> HIDE DEF S, copies, del
  <1>4. /\ Plain(last)
        /\ \A i \in DOMAIN last : last[i].op = "del"
    <2>1. CASE S = {}
      <3>1. last = << >> /\ last \in Seq(TagCommand) /\ DOMAIN last = {}
        BY <2>1
      <3> QED BY <3>1 DEF Plain
    <2>2. CASE S # {}
      <3>1. last = <<del>>
        BY <2>2
      <3>2. last \in Seq(TagCommand) /\ DOMAIN last = {1} /\ last[1] = del
        BY <1>3, <3>1, OneCommand
      <3> QED BY <1>3, <3>2 DEF Plain
    <2> QED BY <2>1, <2>2
  <1>5. Plain(q)
    BY <1>2, <1>4, PlainConcat
  <1>6. /\ Len(copies) \in Nat
        /\ \A i \in DOMAIN copies : i \in DOMAIN q /\ q[i] = copies[i] /\ i \in Nat /\ i <= Len(copies)
        /\ \A i \in DOMAIN last : q[i + Len(copies)] = last[i]
        /\ \A i \in DOMAIN q : i \in Nat /\ (i \notin DOMAIN copies => i > Len(copies) /\ i - Len(copies) \in DOMAIN last)
    BY <1>2, <1>4, ConcatElements DEF Plain
  <1> HIDE DEF q, last
  <1>7. ASSUME NEW i \in DOMAIN q, q[i].op # "sadd"
        PROVE  q[i].op = "del" /\ \A j \in DOMAIN copies : j < i
    <2>1. i \notin DOMAIN copies
      BY <1>2, <1>6, <1>7
    <2>2. i > Len(copies) /\ i - Len(copies) \in DOMAIN last /\ (i - Len(copies)) + Len(copies) = i
      BY <1>6, <2>1
    <2>3. q[i].op = "del"
      BY <1>4, <1>6, <2>2
    <2> QED BY <1>6, <2>2, <2>3
  <1>8. Sound(q)
    <2>1. \A i \in DOMAIN q : q[i].op \in {"sadd", "del"}
      BY <1>7
    <2>2. \A k \in owed : InShards(k) \/ k \in S
      BY <1>1 DEF TagInv, KnownAreListed
    <2>3. \A i \in DOMAIN q : \A k \in owed : LeavesLegacy(q[i], k) =>
            InShards(k) \/ \E j \in DOMAIN q : j < i /\ Settles(q[j], k)
      <3> SUFFICES ASSUME NEW i \in DOMAIN q, NEW k \in owed, LeavesLegacy(q[i], k), k \in S
                   PROVE  \E j \in DOMAIN q : j < i /\ Settles(q[j], k)
        BY <2>2
      <3>1. \A j \in DOMAIN copies : j < i
        BY <1>7 DEF LeavesLegacy
      <3> QED BY <1>2, <1>6, <3>1
    <2> QED BY <1>5, <2>1, <2>3, PlainIsPipeline DEF Sound, RemovesKey
  <1> QED BY <1>8 DEF q, last, copies, del, S, Copies, RTags!MigrateCommands

LEMMA RemoveIsSound ==
    ASSUME TagsTypeOK, NEW k \in TagKeys PROVE Sound(RTags!RemoveCommands(k, RTags!SMembers(RTags!TagsOf(k))))
  <1> DEFINE S == RTags!SMembers(RTags!TagsOf(k))
             unlisted == RTags!SRem(RTags!Shards, k)
             legacy == RTags!SRem(RTags!Legacy, k)
             del == RTags!Del({RTags!TagsOf(k)})
             first == <<unlisted, legacy, del>>
             rest == RemovesFrom(S, k)
             q == first \o rest
  <1>1. S \subseteq TagMembers
    BY MembersOf
  <1>2. /\ Plain(rest)
        /\ \A i \in DOMAIN rest : rest[i].op = "srem" /\ rest[i].members = {k} /\ rest[i].name # RTags!Legacy
    BY <1>1, RemovesAreKeys
  <1>3. /\ unlisted \in TagCommand /\ unlisted.op = "srem" /\ unlisted.name = RTags!Shards /\ unlisted.members = {k}
        /\ legacy \in TagCommand /\ legacy.op = "srem" /\ legacy.name = RTags!Legacy /\ legacy.members = {k}
        /\ del \in TagCommand /\ del.op = "del" /\ del.names = {RTags!TagsOf(k)}
    <2>1. {RTags!TagsOf(k)} \in SUBSET TagNames /\ k \in TagMembers
      BY NamesKnown
    <2> QED BY <2>1, CommandsMade, NamesKnown
  <1> HIDE DEF S, unlisted, legacy, del, rest
  <1>4. first \in Seq(TagCommand) /\ DOMAIN first = {1, 2, 3} /\ Len(first) = 3 /\ first[1] = unlisted /\ first[2] = legacy /\ first[3] = del
    BY <1>3
  <1> HIDE DEF first
  <1>5. Plain(first)
    BY <1>3, <1>4 DEF Plain, DeletesTags
  <1>6. Plain(q)
    BY <1>2, <1>5, PlainConcat
  <1>7. /\ \A i \in {1, 2, 3} : i \in DOMAIN q /\ q[i] = first[i]
        /\ \A i \in DOMAIN rest : q[i + 3] = rest[i]
        /\ \A i \in DOMAIN q : i \in Nat /\ (i \notin {1, 2, 3} => i > 3 /\ i - 3 \in DOMAIN rest)
    <2>1. rest \in Seq(TagCommand)
      BY <1>2 DEF Plain
    <2>2. /\ \A i \in DOMAIN first : i \in DOMAIN q /\ q[i] = first[i]
          /\ \A i \in DOMAIN rest : q[i + Len(first)] = rest[i]
          /\ \A i \in DOMAIN q : i \in Nat /\ (i \notin DOMAIN first => i > Len(first) /\ i - Len(first) \in DOMAIN rest)
      <3>1. q = first \o rest
        OBVIOUS
      <3>2. first \in Seq(TagCommand)
        BY <1>4
      <3> HIDE DEF q
      <3> QED BY <2>1, <3>1, <3>2, ConcatElements
    <2> HIDE DEF q
    <2> QED BY <1>4, <2>2
  <1> HIDE DEF q
  <1>8. /\ q[1] = unlisted /\ q[2] = legacy /\ q[3] = del /\ {1, 2, 3} \subseteq DOMAIN q
        /\ \A i \in DOMAIN q : i \notin {1, 2, 3} => q[i].op = "srem" /\ q[i].members = {k} /\ q[i].name # RTags!Legacy
    <2>1. ASSUME NEW i \in DOMAIN q, i \notin {1, 2, 3} PROVE q[i].op = "srem" /\ q[i].members = {k} /\ q[i].name # RTags!Legacy
      <3>1. i - 3 \in DOMAIN rest /\ (i - 3) + 3 = i
        BY <1>7, <2>1
      <3> QED BY <1>2, <1>7, <3>1
    <2> QED BY <1>4, <1>7, <2>1
  <1>9. Sound(q)
    <2>1. ASSUME NEW j \in TagKeys, NEW i \in DOMAIN q, RemovesKey(q[i], j)
          PROVE  DeletesTags(q[3], j)
      BY <1>3, <1>8, <2>1 DEF RemovesKey, DeletesTags
    <2>2. ASSUME NEW i \in DOMAIN q, NEW j \in owed, LeavesLegacy(q[i], j)
          PROVE  1 < i /\ Settles(q[1], j)
      <3>1. i = 2 /\ j = k
        BY <1>3, <1>8, <2>2, NamesDiffer DEF LeavesLegacy
      <3> QED BY <1>3, <1>8, <3>1 DEF Settles
    <2>3. \A i \in DOMAIN q : q[i].op # "clear"
      BY <1>3, <1>8
    <2> QED BY <1>6, <1>8, <2>1, <2>2, <2>3, PlainIsPipeline DEF Sound
  <1> QED BY <1>9 DEF q, first, rest, unlisted, legacy, del, S, RemovesFrom, RTags!RemoveCommands

LEMMA TrackIsSound ==
    ASSUME TagsTypeOK, NEW k \in TagKeys, NEW T \in SUBSET Tags
    PROVE  Sound(RTags!TrackCommands(k, RTags!SMembers(RTags!TagsOf(k)), T))
  <1> DEFINE S == RTags!SMembers(RTags!TagsOf(k))
             known == RTags!SAdd(RTags!Shards, {k})
             removes == RemovesFrom(S, k)
             del == RTags!Del({RTags!TagsOf(k)})
             tags == RTags!SAdd(RTags!TagsOf(k), T)
             adds == AddsTo(T, k)
             first == (<<known>> \o removes) \o <<del>>
             mid == IF T = {} THEN << >> ELSE <<tags>>
             rest == mid \o adds
             q == first \o rest
  <1>1. S \subseteq TagMembers /\ T \subseteq TagMembers
    BY MembersOf DEF TagMembers
  <1>2. Plain(removes) /\ \A i \in DOMAIN removes : removes[i].op = "srem" /\ removes[i].members = {k} /\ removes[i].name # RTags!Legacy
    BY <1>1, RemovesAreKeys
  <1>3. /\ Plain(adds) /\ \A i \in DOMAIN adds : adds[i].op = "sadd"
        /\ \A t \in T : \E i \in DOMAIN adds : AddsKey(adds[i], k, t)
    BY <1>1, AddsAreKeys
  <1>4. /\ known \in TagCommand /\ known.op = "sadd" /\ known.name = RTags!Shards
        /\ del \in TagCommand /\ del.op = "del" /\ del.names = {RTags!TagsOf(k)}
        /\ tags \in TagCommand /\ tags.op = "sadd" /\ tags.name = RTags!TagsOf(k) /\ tags.members = T
    <2>1. {RTags!TagsOf(k)} \in SUBSET TagNames /\ {k} \in SUBSET TagMembers /\ RTags!TagsOf(k) \in TagNames
      BY NamesKnown
    <2> QED BY <1>1, <2>1, CommandsMade, NamesKnown
  <1> HIDE DEF S, known, removes, del, tags, adds
  <1>5. Plain(<<known>>) /\ Plain(<<del>>)
    <2>1. /\ <<known>> \in Seq(TagCommand) /\ DOMAIN <<known>> = {1} /\ <<known>>[1] = known
          /\ <<del>> \in Seq(TagCommand) /\ DOMAIN <<del>> = {1} /\ <<del>>[1] = del
      BY <1>4, OneCommand
    <2> QED BY <1>4, <2>1, NamesDiffer DEF Plain, AddsTags, DeletesTags
  <1>6. Plain(first)
    BY <1>2, <1>5, PlainConcat
  \* The tags and then the key of each.
  <1>7. Pipeline(rest) /\ \A i \in DOMAIN rest : rest[i].op = "sadd" /\ rest[i].name # RTags!Legacy
    <2>1. CASE T = {}
      <3>1. rest = adds
        <4>1. mid = << >>
          BY <2>1
        <4>2. adds \in Seq(TagCommand)
          BY <1>3 DEF Plain
        <4> QED BY <4>1, <4>2, ConcatEmptySeq
      <3> QED BY <1>3, <3>1, PlainIsPipeline DEF Plain
    <2>2. CASE T # {}
      <3>1. mid \in Seq(TagCommand) /\ DOMAIN mid = {1} /\ mid[1] = tags /\ Len(mid) = 1
        <4>1. mid = <<tags>>
          BY <2>2
        <4> QED BY <1>4, <4>1, OneCommand
      <3>2. /\ rest \in Seq(TagCommand) /\ rest[1] = tags /\ 1 \in DOMAIN rest
            /\ \A i \in DOMAIN adds : i + 1 \in DOMAIN rest /\ rest[i + 1] = adds[i] /\ i \in Nat
            /\ \A i \in DOMAIN rest : i \in Nat /\ (i # 1 => i > 1 /\ i - 1 \in DOMAIN adds)
        <4> HIDE DEF mid
        <4>1. adds \in Seq(TagCommand)
          BY <1>3 DEF Plain
        <4>2. /\ rest \in Seq(TagCommand)
              /\ \A i \in DOMAIN mid : i \in DOMAIN rest /\ rest[i] = mid[i]
              /\ \A i \in DOMAIN adds : i + Len(mid) \in DOMAIN rest /\ rest[i + Len(mid)] = adds[i] /\ i \in Nat
              /\ \A i \in DOMAIN rest : i \in Nat /\ (i \notin DOMAIN mid => i > Len(mid) /\ i - Len(mid) \in DOMAIN adds)
          <5>1. rest = mid \o adds
            OBVIOUS
          <5>2. mid \in Seq(TagCommand)
            BY <3>1
          <5> HIDE DEF rest
          <5> QED BY <4>1, <5>1, <5>2, ConcatElements
        <4> HIDE DEF rest
        <4> QED BY <3>1, <4>2
      <3> HIDE DEF rest, mid
      <3>3. \A i \in DOMAIN adds : adds[i] \in TagCommand /\ adds[i].name # RTags!Legacy /\ adds[i].op = "sadd"
                                   /\ \A j \in TagKeys : ~AddsTags(adds[i], j)
        BY <1>3 DEF Plain
      <3>4. \A i \in DOMAIN rest : i # 1 => \E j \in DOMAIN adds : rest[i] = adds[j]
        <4> SUFFICES ASSUME NEW i \in DOMAIN rest, i # 1 PROVE \E j \in DOMAIN adds : rest[i] = adds[j]
          OBVIOUS
        <4>1. i - 1 \in DOMAIN adds /\ (i - 1) + 1 = i
          BY <3>2
        <4> QED BY <3>2, <4>1
      <3>5. \A t \in T : \E j \in DOMAIN rest : 1 < j /\ AddsKey(rest[j], k, t)
        <4> SUFFICES ASSUME NEW t \in T PROVE \E j \in DOMAIN rest : 1 < j /\ AddsKey(rest[j], k, t)
          OBVIOUS
        <4>1. PICK i \in DOMAIN adds : AddsKey(adds[i], k, t)
          BY <1>3
        <4>2. i + 1 \in DOMAIN rest /\ rest[i + 1] = adds[i] /\ 1 < i + 1
          <5>1. i \in Nat /\ i # 0
            <6>1. adds \in Seq(TagCommand)
              BY <1>3 DEF Plain
            <6> QED BY <6>1
          <5> QED BY <3>2, <5>1
        <4> QED BY <4>1, <4>2
      <3>6. ASSUME NEW i \in DOMAIN rest, NEW j \in TagKeys, AddsTags(rest[i], j)
            PROVE  /\ \A t \in rest[i].members : \E h \in DOMAIN rest : i < h /\ AddsKey(rest[h], j, t)
                   /\ \A h \in DOMAIN rest : ~RemovesKey(rest[h], j)
        <4>1. i = 1 /\ rest[i] = tags /\ j = k
          BY <1>4, <3>2, <3>3, <3>4, <3>6, NamesDiffer DEF AddsTags
        <4>2. \A h \in DOMAIN rest : rest[h].op = "sadd"
          BY <1>4, <3>2, <3>3, <3>4
        <4> QED BY <1>4, <3>5, <4>1, <4>2 DEF RemovesKey
      <3>7. \A i \in DOMAIN rest : rest[i].op = "sadd" /\ rest[i].name # RTags!Legacy
        BY <1>4, <3>2, <3>3, <3>4, NamesDiffer
      <3> QED BY <3>2, <3>6, <3>7 DEF Pipeline
    <2> QED BY <2>1, <2>2
  <1>8. Pipeline(q)
    BY <1>6, <1>7, PlainThenPipeline
  <1>9. \A i \in DOMAIN first : \/ first[i] = known \/ first[i] = del
                                \/ first[i].op = "srem" /\ first[i].members = {k} /\ first[i].name # RTags!Legacy
    <2> DEFINE p == <<known>> \o removes
    <2>1. \A i \in DOMAIN p : p[i] = known \/ \E j \in DOMAIN removes : p[i] = removes[j]
      <3>1. /\ <<known>> \in Seq(TagCommand) /\ DOMAIN <<known>> = {1} /\ <<known>>[1] = known /\ Len(<<known>>) = 1
        BY <1>4, OneCommand
      <3>2. /\ \A i \in DOMAIN <<known>> : p[i] = <<known>>[i]
            /\ \A i \in DOMAIN removes : p[i + Len(<<known>>)] = removes[i]
            /\ \A i \in DOMAIN p : i \in Nat /\ (i \notin DOMAIN <<known>> => i - Len(<<known>>) \in DOMAIN removes)
        BY <1>2, <3>1, ConcatElements DEF Plain
      <3> HIDE DEF p
      <3>3. \A i \in DOMAIN p : i \notin DOMAIN <<known>> => p[i] = removes[i - 1]
        <4> SUFFICES ASSUME NEW i \in DOMAIN p, i \notin DOMAIN <<known>> PROVE p[i] = removes[i - 1]
          OBVIOUS
        <4>1. i - 1 \in DOMAIN removes /\ (i - 1) + 1 = i
          BY <3>1, <3>2
        <4> QED BY <3>1, <3>2, <4>1
      <3> QED BY <3>1, <3>2, <3>3
    <2>2. Plain(p)
      BY <1>2, <1>5, PlainConcat
    <2> HIDE DEF p
    <2>3. /\ <<del>> \in Seq(TagCommand) /\ DOMAIN <<del>> = {1} /\ <<del>>[1] = del
      BY <1>4, OneCommand
    <2>4. first = p \o <<del>>
      BY DEF p
    <2> HIDE DEF first
    <2>5. \A i \in DOMAIN first : first[i] = del \/ \E j \in DOMAIN p : first[i] = p[j]
      <3>1. /\ Len(p) \in Nat /\ \A i \in DOMAIN p : first[i] = p[i]
            /\ \A i \in DOMAIN <<del>> : first[i + Len(p)] = <<del>>[i]
            /\ \A i \in DOMAIN first : i \in Nat /\ (i \notin DOMAIN p => i - Len(p) \in DOMAIN <<del>>)
        BY <2>2, <2>3, <2>4, ConcatElements DEF Plain
      <3>2. \A i \in DOMAIN first : i \notin DOMAIN p => first[i] = del
        <4> SUFFICES ASSUME NEW i \in DOMAIN first, i \notin DOMAIN p PROVE first[i] = del
          OBVIOUS
        <4>1. i - Len(p) = 1 /\ 1 + Len(p) = i
          BY <2>3, <3>1
        <4>2. first[1 + Len(p)] = del
          BY <2>3, <3>1
        <4> QED BY <4>1, <4>2
      <3> QED BY <3>1, <3>2
    <2> QED BY <1>2, <2>1, <2>5
  <1>10. \E i \in DOMAIN first : first[i] = del
    <2> DEFINE p == <<known>> \o removes
    <2>1. Plain(p)
      BY <1>2, <1>5, PlainConcat
    <2>2. /\ <<del>> \in Seq(TagCommand) /\ DOMAIN <<del>> = {1} /\ <<del>>[1] = del
      BY <1>4, OneCommand
    <2> HIDE DEF p
    <2>3. \A i \in DOMAIN <<del>> : i + Len(p) \in DOMAIN (p \o <<del>>) /\ (p \o <<del>>)[i + Len(p)] = <<del>>[i]
      BY <2>1, <2>2, ConcatElements DEF Plain
    <2>4. 1 + Len(p) \in DOMAIN (p \o <<del>>) /\ (p \o <<del>>)[1 + Len(p)] = del
      BY <2>2, <2>3
    <2> QED BY <2>4 DEF p
  <1>11. /\ \A i \in DOMAIN first : i \in DOMAIN q /\ q[i] = first[i]
         /\ \A i \in DOMAIN q : i \notin DOMAIN first => \E j \in DOMAIN rest : q[i] = rest[j]
    <2> HIDE DEF first, rest
    <2>1. /\ Len(first) \in Nat /\ \A i \in DOMAIN first : i \in DOMAIN q /\ q[i] = first[i]
          /\ \A i \in DOMAIN rest : q[i + Len(first)] = rest[i]
          /\ \A i \in DOMAIN q : i \in Nat /\ (i \notin DOMAIN first => i - Len(first) \in DOMAIN rest)
      BY <1>6, <1>7, ConcatElements DEF Plain, Pipeline
    <2> HIDE DEF q
    <2>2. \A i \in DOMAIN q : i \notin DOMAIN first => q[i] = rest[i - Len(first)]
      <3> SUFFICES ASSUME NEW i \in DOMAIN q, i \notin DOMAIN first PROVE q[i] = rest[i - Len(first)]
        OBVIOUS
      <3>1. i - Len(first) \in DOMAIN rest /\ (i - Len(first)) + Len(first) = i
        BY <2>1
      <3> QED BY <2>1, <3>1
    <2> QED BY <2>1, <2>2
  <1>12. Sound(q)
    <2> HIDE DEF q, first, rest
    <2>1. \A i \in DOMAIN q : \/ q[i].op = "sadd" \/ q[i] = del
                              \/ q[i].op = "srem" /\ q[i].members = {k} /\ q[i].name # RTags!Legacy
      BY <1>4, <1>7, <1>9, <1>11
    <2>2. \E i \in DOMAIN q : DeletesTags(q[i], k)
      BY <1>4, <1>10, <1>11 DEF DeletesTags
    <2>3. \A j \in TagKeys : \A i \in DOMAIN q : RemovesKey(q[i], j) => j = k
      BY <1>4, <2>1 DEF RemovesKey
    <2>4. \A i \in DOMAIN q : q[i].op # "clear" /\ \A j : ~LeavesLegacy(q[i], j)
      BY <1>4, <2>1, NamesDiffer DEF LeavesLegacy
    <2> QED BY <1>8, <2>2, <2>3, <2>4 DEF Sound
  <1>13. (((<<known>> \o removes) \o <<del>>) \o mid) \o adds = q
    <2>1. mid \in Seq(TagCommand)
      BY <1>4, OneCommand
    <2> HIDE DEF first, mid
    <2>2. (first \o mid) \o adds = first \o (mid \o adds)
      BY <1>3, <1>6, <2>1, ConcatAssociative DEF Plain
    <2> QED BY <2>2 DEF first
  <1> QED BY <1>12, <1>13 DEF q, first, mid, rest, adds, tags, del, removes, known, S, RemovesFrom, AddsTo, RTags!TrackCommands

LEMMA HalfRemovedAre ==
    ASSUME TagsTypeOK, NEW D \in SUBSET Clients
    PROVE  \A k \in TagKeys : k \in RTags!HalfRemoved(D) <=> \E d \in D : Half(todo[d], k)
  <1> SUFFICES ASSUME NEW k \in TagKeys PROVE k \in RTags!HalfRemoved(D) <=> \E d \in D : Half(todo[d], k)
    OBVIOUS
  <1>1. ASSUME NEW d \in D, NEW i \in DOMAIN todo[d] PROVE todo[d][i] = RTags!Del({RTags!TagsOf(k)}) <=> DeletesTags(todo[d][i], k)
    <2>1. todo[d] \in Seq(TagCommand)
      BY DEF TagsTypeOK
    <2>2. todo[d][i] \in TagCommand
      BY <2>1
    <2> QED BY <2>2, CommandFields
  <1> QED BY <1>1 DEF RTags!HalfRemoved, Half, RemovesKey

\* A client begins a call.
LEMMA TagCall ==
    ASSUME TagInv, NEW c \in Clients, NEW q, todo[c] = << >>, todo' = [todo EXCEPT ![c] = q],
           UNCHANGED <<tagSets, damaged, owed, search>>, Sound(q)
    PROVE  TagInv'
  <1>1. /\ todo'[c] = q /\ DOMAIN todo[c] = {}
        /\ \A d \in Clients : d # c => todo'[d] = todo[d]
        /\ \A d \in Clients : \A i \in DOMAIN todo[d] : d # c
    BY DEF TagInv, TagsTypeOK
  <1>2. TagsTypeOK'
    <2>1. todo' \in [Clients -> Seq(TagCommand)]
      BY DEF TagInv, TagsTypeOK, Sound, Pipeline
    <2>2. ASSUME NEW d \in Clients PROVE Pipeline(todo'[d])
      BY <1>1 DEF TagInv, TagsTypeOK, Sound
    <2> QED BY <2>1, <2>2 DEF TagInv, TagsTypeOK, Pipeline, AddsTags, AddsKey, RemovesKey, DeletesTags
  <1>3. TagsWillMatch'
    <2> SUFFICES ASSUME NEW k \in TagKeys, k \notin damaged, NEW t \in TagMembers, HasTag(k, t), ~HasKey(k, t)
                 PROVE  \E d \in Clients : \E i \in DOMAIN todo'[d] : AddsKey(todo'[d][i], k, t) \/ DeletesTags(todo'[d][i], k)
      BY DEF TagsWillMatch, HasTag, HasKey, AddsKey, DeletesTags
    <2>1. PICK d \in Clients : \E i \in DOMAIN todo[d] : AddsKey(todo[d][i], k, t) \/ DeletesTags(todo[d][i], k)
      BY DEF TagInv, TagsWillMatch
    <2> QED BY <1>1, <2>1
  <1>4. HalfRemovedHaveNoTags'
    <2> SUFFICES ASSUME NEW k \in TagKeys, k \notin damaged, NEW t \in TagMembers, NEW d \in Clients, Half(todo'[d], k)
                 PROVE  ~HasTag(k, t)
      BY DEF HalfRemovedHaveNoTags, HasTag, Half, RemovesKey, DeletesTags
    <2>1. d # c
      BY <1>1 DEF Sound, Half
    <2> QED BY <1>1, <2>1 DEF TagInv, HalfRemovedHaveNoTags
  <1>5. KnownAreListed'
    <2>1. \A k \in owed : InShards(k) \/ InLegacy(k)
      BY DEF TagInv, KnownAreListed
    <2>2. ASSUME NEW d \in Clients, NEW i \in DOMAIN todo'[d], NEW k \in owed, LeavesLegacy(todo'[d][i], k)
          PROVE  InShards(k) \/ \E j \in DOMAIN todo'[d] : j < i /\ Settles(todo'[d][j], k)
      <3>1. CASE d = c
        BY <1>1, <2>2, <3>1 DEF Sound
      <3>2. CASE d # c
        BY <1>1, <2>2, <3>2 DEF TagInv, KnownAreListed
      <3> QED BY <3>1, <3>2
    <2>3. ASSUME NEW d \in Clients, NEW i \in DOMAIN todo'[d], NEW k \in TagMembers, todo'[d][i].op = "clear", InLegacy(k)
          PROVE  RTags!Legacy \in todo'[d][i].names
      <3>1. CASE d = c
        BY <1>1, <2>3, <3>1 DEF Sound
      <3>2. CASE d # c
        BY <1>1, <2>3, <3>2 DEF TagInv, KnownAreListed
      <3> QED BY <3>1, <3>2
    <2> QED BY <2>1, <2>2, <2>3 DEF KnownAreListed, InShards, InLegacy, LeavesLegacy, Settles
  <1>6. SearchesWillFind'
    BY DEF TagInv, SearchesWillFind, InShards
  <1> QED BY <1>2, <1>3, <1>4, <1>5, <1>6 DEF TagInv

\* What a command does to the sets.
LEMMA CommandRuns ==
    ASSUME TagsTypeOK, NEW cmd \in TagCommand, tagSets' = RTags!Applied(cmd)
    PROVE  /\ tagSets' \subseteq TagNames \X TagMembers
           /\ cmd.op = "sadd" => \A n, m : <<n, m>> \in tagSets' <=> <<n, m>> \in tagSets \/ (n = cmd.name /\ m \in cmd.members)
           /\ cmd.op = "srem" => \A n, m : <<n, m>> \in tagSets' <=> <<n, m>> \in tagSets /\ ~(n = cmd.name /\ m \in cmd.members)
           /\ cmd.op \in {"del", "clear"} => \A n, m : <<n, m>> \in tagSets' <=> <<n, m>> \in tagSets /\ n \notin cmd.names
  <1> DEFINE P == {<<cmd.name, m>> : m \in cmd.members}
  <1>1. \A n, m : <<n, m>> \in P <=> n = cmd.name /\ m \in cmd.members
    OBVIOUS
  <1>2. CASE cmd.op = "sadd"
    <2>1. tagSets' = tagSets \cup P
      BY <1>2 DEF RTags!Applied
    <2>2. P \subseteq TagNames \X TagMembers
      BY <1>2, CommandFields
    <2> HIDE DEF P
    <2> QED BY <1>1, <1>2, <2>1, <2>2 DEF TagsTypeOK
  <1>3. CASE cmd.op = "srem"
    <2>1. tagSets' = tagSets \ P
      BY <1>3 DEF RTags!Applied
    <2> HIDE DEF P
    <2> QED BY <1>1, <1>3, <2>1 DEF TagsTypeOK
  <1>4. CASE cmd.op \in {"del", "clear"}
    <2>1. tagSets' = {e \in tagSets : e[1] \notin cmd.names}
      BY <1>4 DEF RTags!Applied
    <2>2. \A n, m : <<n, m>>[1] = n
      OBVIOUS
    <2> QED BY <1>4, <2>1, <2>2 DEF TagsTypeOK
  <1> QED BY <1>2, <1>3, <1>4, CommandFields

\* What changes when the server runs cmd, ahead of the commands r of client c.
Ran(c, cmd, r) ==
    /\ cmd \in TagCommand /\ Pipeline(r)
    /\ 1 \in DOMAIN todo[c] /\ todo[c][1] = cmd
    /\ \A i \in DOMAIN todo[c] : i \in Nat /\ i >= 1
    /\ \A i \in DOMAIN r : i \in Nat /\ i >= 1 /\ i + 1 \in DOMAIN todo[c] /\ r[i] = todo[c][i + 1]
    /\ \A i \in DOMAIN todo[c] : i # 1 => i - 1 \in DOMAIN r /\ r[i - 1] = todo[c][i]
    /\ todo' = [todo EXCEPT ![c] = r]
    /\ todo'[c] = r /\ \A d \in Clients : d # c => todo'[d] = todo[d]
    /\ tagSets' = RTags!Applied(cmd)
    /\ damaged \subseteq damaged'
    /\ cmd.op = "clear" => \A k \in TagKeys : \A t \in TagMembers : HasTag(k, t) => k \in damaged'
    /\ \A k \in TagKeys : \A d \in Clients : d # c /\ Half(todo[d], k) /\ AddsTags(cmd, k) => k \in damaged'
    /\ \A k \in owed' :
         /\ k \in owed \/ (cmd.op = "sadd" /\ cmd.name = RTags!Shards /\ k \in cmd.members)
         /\ ~(cmd.op = "srem" /\ cmd.name = RTags!Shards /\ k \in cmd.members)
         /\ cmd.op = "clear" => <<RTags!Shards, k>> \in tagSets' \/ <<RTags!Legacy, k>> \in tagSets'
    /\ search' = [search EXCEPT !.owed = @ /\ search.key \in owed']

LEMMA RunIs == ASSUME TagInv, NEW c \in Clients, RTags!Run(c) PROVE \E cmd, r : Ran(c, cmd, r)
  <1> DEFINE cmd == Head(todo[c])
             r == Tail(todo[c])
  <1>1. todo[c] \in Seq(TagCommand) /\ todo[c] # << >> /\ Pipeline(todo[c]) /\ todo \in [Clients -> Seq(TagCommand)]
    BY DEF RTags!Run, TagInv, TagsTypeOK
  <1>2. Pipeline(r)
    BY <1>1, PipelineGoesOn
  <1>3. /\ 1 \in DOMAIN todo[c] /\ todo[c][1] = cmd /\ cmd \in TagCommand
        /\ \A i \in DOMAIN r : i \in Nat /\ i + 1 \in DOMAIN todo[c] /\ r[i] = todo[c][i + 1]
        /\ \A i \in DOMAIN todo[c] : i # 1 => i - 1 \in DOMAIN r /\ r[i - 1] = todo[c][i]
    BY <1>1, TailElements
  <1>4. r \in Seq(TagCommand)
    BY <1>2 DEF Pipeline
  <1>5. (\A i \in DOMAIN todo[c] : i \in Nat /\ i >= 1) /\ \A i \in DOMAIN r : i \in Nat /\ i >= 1
    <2> HIDE DEF r
    <2> QED BY <1>1, <1>4
  <1>6. /\ todo' = [todo EXCEPT ![c] = r]
        /\ tagSets' = RTags!Applied(cmd)
        /\ damaged' = IF cmd.op = "clear"
                      THEN damaged \cup RTags!InFlight(Clients \ {c}) \cup {k \in TagKeys : RTags!SMembers(RTags!TagsOf(k)) # {}}
                      ELSE damaged \cup {k \in RTags!HalfRemoved(Clients \ {c}) : RTags!Changes(cmd, k)}
        /\ owed' = CASE cmd.op = "sadd" /\ cmd.name = RTags!Shards -> owed \cup cmd.members
                     [] cmd.op = "srem" /\ cmd.name = RTags!Shards -> owed \ cmd.members
                     [] cmd.op = "clear" -> {k \in owed : RTags!Known(tagSets', k)}
                     [] OTHER -> owed
        /\ search' = [search EXCEPT !.owed = @ /\ search.key \in owed']
    BY DEF RTags!Run
  <1> HIDE DEF cmd, r
  <1>7. todo'[c] = r /\ \A d \in Clients : d # c => todo'[d] = todo[d]
    BY <1>1, <1>6
  <1>8. /\ damaged \subseteq damaged'
        /\ cmd.op = "clear" => \A k \in TagKeys : \A t \in TagMembers : HasTag(k, t) => k \in damaged'
    <2>1. \A k : \A t : HasTag(k, t) => RTags!SMembers(RTags!TagsOf(k)) # {}
      BY MembersOf DEF TagInv, HasTag
    <2> QED BY <1>6, <2>1
  <1>9. ASSUME NEW k \in TagKeys, NEW d \in Clients, d # c, Half(todo[d], k), AddsTags(cmd, k) PROVE k \in damaged'
    <2>1. k \in RTags!HalfRemoved(Clients \ {c})
      BY <1>9, HalfRemovedAre DEF TagInv
    <2>2. cmd.op = "sadd" /\ RTags!Changes(cmd, k)
      BY <1>9 DEF AddsTags, RTags!Changes
    <2> QED BY <1>6, <2>1, <2>2
  <1>10. ASSUME NEW k \in owed'
         PROVE  /\ k \in owed \/ (cmd.op = "sadd" /\ cmd.name = RTags!Shards /\ k \in cmd.members)
                /\ ~(cmd.op = "srem" /\ cmd.name = RTags!Shards /\ k \in cmd.members)
                /\ cmd.op = "clear" => <<RTags!Shards, k>> \in tagSets' \/ <<RTags!Legacy, k>> \in tagSets'
    <2>1. CASE cmd.op = "sadd" /\ cmd.name = RTags!Shards
      BY <1>6, <2>1
    <2>2. CASE cmd.op = "srem" /\ cmd.name = RTags!Shards
      BY <1>6, <2>2
    <2>3. CASE cmd.op = "clear"
      BY <1>6, <2>3 DEF RTags!Known
    <2>4. CASE ~(cmd.op = "sadd" /\ cmd.name = RTags!Shards) /\ ~(cmd.op = "srem" /\ cmd.name = RTags!Shards) /\ cmd.op # "clear"
      BY <1>6, <2>4
    <2> QED BY <2>1, <2>2, <2>3, <2>4
  <1>11. Ran(c, cmd, r)
    BY <1>2, <1>3, <1>5, <1>6, <1>7, <1>8, <1>9, <1>10 DEF Ran
  <1> QED BY <1>11

LEMMA RunTypes == ASSUME TagInv, NEW c \in Clients, NEW cmd, NEW r, Ran(c, cmd, r) PROVE TagsTypeOK'
  <1>1. tagSets' \subseteq TagNames \X TagMembers
    BY CommandRuns DEF Ran, TagInv
  <1>2. todo' \in [Clients -> Seq(TagCommand)]
    BY DEF Ran, TagInv, TagsTypeOK, Pipeline
  <1>3. ASSUME NEW d \in Clients PROVE Pipeline(todo'[d])
    BY DEF Ran, TagInv, TagsTypeOK
  <1>4. /\ search' = [pc |-> search'.pc, key |-> search'.key, names |-> search'.names,
                      found |-> search'.found, owed |-> search'.owed]
        /\ search'.found \in BOOLEAN /\ search'.owed \in BOOLEAN
    BY DEF Ran, TagInv, TagsTypeOK
  <1> QED BY <1>1, <1>2, <1>3, <1>4 DEF TagsTypeOK, Pipeline, AddsTags, AddsKey, RemovesKey, DeletesTags

\* The sets of the tags: what adds or removes a key of a tag is where it must be.
LEMMA RunMatches == ASSUME TagInv, NEW c \in Clients, NEW cmd, NEW r, Ran(c, cmd, r) PROVE TagsWillMatch'
  <1>0. Pipeline(todo[c]) /\ cmd \in TagCommand
    BY DEF Ran, TagInv, TagsTypeOK
  <1>1. /\ cmd.op = "sadd" => \A n, m : <<n, m>> \in tagSets' <=> <<n, m>> \in tagSets \/ (n = cmd.name /\ m \in cmd.members)
        /\ cmd.op = "srem" => \A n, m : <<n, m>> \in tagSets' <=> <<n, m>> \in tagSets /\ ~(n = cmd.name /\ m \in cmd.members)
        /\ cmd.op \in {"del", "clear"} => \A n, m : <<n, m>> \in tagSets' <=> <<n, m>> \in tagSets /\ n \notin cmd.names
        /\ cmd.op \in {"sadd", "srem", "del", "clear"}
    BY CommandRuns, CommandFields DEF Ran, TagInv
  <1> SUFFICES ASSUME NEW k \in TagKeys, k \notin damaged', NEW t \in TagMembers,
                      <<RTags!TagsOf(k), t>> \in tagSets', <<RTags!KeysOf(t), k>> \notin tagSets'
               PROVE  \E d \in Clients : \E i \in DOMAIN todo'[d] : AddsKey(todo'[d][i], k, t) \/ DeletesTags(todo'[d][i], k)
    BY DEF TagsWillMatch, HasTag, HasKey, AddsKey, DeletesTags
  <1>2. k \notin damaged
    BY DEF Ran
  \* What is later in the pipeline of c is still there.
  <1>3. ASSUME NEW i \in DOMAIN todo[c], i # 1, AddsKey(todo[c][i], k, t) \/ DeletesTags(todo[c][i], k)
        PROVE  \E j \in DOMAIN todo'[c] : AddsKey(todo'[c][j], k, t) \/ DeletesTags(todo'[c][j], k)
    BY <1>3 DEF Ran
  <1>4. CASE ~HasTag(k, t)
    <2>1. AddsTags(cmd, k) /\ t \in cmd.members
      BY <1>1, <1>4 DEF HasTag, AddsTags
    <2>2. PICK i \in DOMAIN todo[c] : 1 < i /\ AddsKey(todo[c][i], k, t)
      BY <1>0, <2>1 DEF Pipeline, Ran
    <2>3. i # 1
      BY <2>2
    <2> QED BY <1>3, <2>2, <2>3
  <1>5. CASE HasTag(k, t) /\ HasKey(k, t)
    <2>1. cmd.op # "clear"
      BY <1>5 DEF Ran
    <2>2. cmd.op # "del"
      <3> SUFFICES ASSUME cmd.op = "del" PROVE FALSE
        OBVIOUS
      <3>1. cmd.names = {RTags!Legacy} \/ \E j \in TagKeys : DeletesTags(cmd, j)
        BY <1>0 DEF Pipeline, Ran
      <3>2. RTags!KeysOf(t) \in cmd.names
        BY <1>1, <1>5 DEF HasKey
      <3> QED BY <3>1, <3>2, NamesDiffer DEF DeletesTags
    <2>3. cmd.op = "srem" /\ k \in cmd.members
      BY <1>1, <1>5, <2>1, <2>2 DEF HasKey
    <2>4. PICK i \in DOMAIN todo[c] : DeletesTags(todo[c][i], k)
      <3>1. RemovesKey(todo[c][1], k) /\ 1 \in DOMAIN todo[c]
        BY <2>3 DEF Ran, RemovesKey
      <3> QED BY <1>2, <1>5, <3>1 DEF TagInv, HalfRemovedHaveNoTags, Half
    <2>5. i # 1
      BY <2>3, <2>4 DEF Ran, DeletesTags
    <2> QED BY <1>3, <2>4, <2>5
  <1>6. CASE HasTag(k, t) /\ ~HasKey(k, t)
    <2>1. PICK d \in Clients : \E i \in DOMAIN todo[d] : AddsKey(todo[d][i], k, t) \/ DeletesTags(todo[d][i], k)
      BY <1>2, <1>6 DEF TagInv, TagsWillMatch
    <2>2. CASE d # c
      BY <2>1, <2>2 DEF Ran
    <2>3. CASE d = c
      <3>1. PICK i \in DOMAIN todo[c] : AddsKey(todo[c][i], k, t) \/ DeletesTags(todo[c][i], k)
        BY <2>1, <2>3
      <3>2. CASE i = 1
        <4>1. AddsKey(cmd, k, t) \/ DeletesTags(cmd, k)
          BY <3>1, <3>2 DEF Ran
        <4> QED BY <1>1, <4>1 DEF AddsKey, DeletesTags
      <3> QED BY <1>3, <3>1, <3>2
    <2> QED BY <2>2, <2>3
  <1> QED BY <1>4, <1>5, <1>6

LEMMA RunHalfRemoved == ASSUME TagInv, NEW c \in Clients, NEW cmd, NEW r, Ran(c, cmd, r) PROVE HalfRemovedHaveNoTags'
  <1>1. /\ cmd.op = "sadd" => \A n, m : <<n, m>> \in tagSets' <=> <<n, m>> \in tagSets \/ (n = cmd.name /\ m \in cmd.members)
        /\ cmd.op = "srem" => \A n, m : <<n, m>> \in tagSets' <=> <<n, m>> \in tagSets /\ ~(n = cmd.name /\ m \in cmd.members)
        /\ cmd.op \in {"del", "clear"} => \A n, m : <<n, m>> \in tagSets' <=> <<n, m>> \in tagSets /\ n \notin cmd.names
        /\ cmd.op \in {"sadd", "srem", "del", "clear"}
    BY CommandRuns, CommandFields DEF Ran, TagInv
  <1> SUFFICES ASSUME NEW k \in TagKeys, k \notin damaged', NEW t \in TagMembers, NEW d \in Clients,
                      Half(todo'[d], k), <<RTags!TagsOf(k), t>> \in tagSets'
               PROVE  FALSE
    BY DEF HalfRemovedHaveNoTags, HasTag, Half, RemovesKey, DeletesTags
  <1>2. k \notin damaged
    BY DEF Ran
  <1>3. HasTag(k, t) \/ AddsTags(cmd, k)
    BY <1>1 DEF HasTag, AddsTags
  <1>4. CASE d = c
    <2>1. Half(r, k)
      BY <1>4 DEF Ran
    <2>2. PICK i \in DOMAIN r : RemovesKey(r[i], k)
      BY <2>1 DEF Half
    <2>3. i + 1 \in DOMAIN todo[c] /\ 1 < i + 1 /\ RemovesKey(todo[c][i + 1], k)
      BY <2>2 DEF Ran
    <2>4. ~DeletesTags(cmd, k)
      BY <1>1 DEF DeletesTags
    <2>5. Half(todo[c], k)
      <3>1. \A j \in DOMAIN todo[c] : ~DeletesTags(todo[c][j], k)
        BY <2>1, <2>4 DEF Ran, Half
      <3> QED BY <2>3, <3>1 DEF Half
    <2>6. ~HasTag(k, t)
      BY <1>2, <2>5 DEF TagInv, HalfRemovedHaveNoTags
    <2>7. AddsTags(todo[c][1], k) /\ 1 \in DOMAIN todo[c]
      BY <1>3, <2>6 DEF Ran
    <2>8. Pipeline(todo[c])
      BY DEF TagInv, TagsTypeOK
    <2>9. \A j \in DOMAIN todo[c] : 1 < j => ~RemovesKey(todo[c][j], k)
      BY <2>7, <2>8 DEF Pipeline
    <2> QED BY <2>3, <2>9
  <1>5. CASE d # c
    <2>1. Half(todo[d], k)
      BY <1>5 DEF Ran
    <2>2. ~HasTag(k, t)
      BY <1>2, <2>1 DEF TagInv, HalfRemovedHaveNoTags
    <2> QED BY <1>3, <1>5, <2>1, <2>2 DEF Ran
  <1> QED BY <1>4, <1>5

\* A key that stays known stays in the shards once it is there.
LEMMA ShardsKept ==
    ASSUME TagInv, NEW c \in Clients, NEW cmd, NEW r, Ran(c, cmd, r), NEW k \in owed'
    PROVE  /\ InShards(k) => <<RTags!Shards, k>> \in tagSets'
           /\ k \notin owed => <<RTags!Shards, k>> \in tagSets'
           /\ Settles(cmd, k) => <<RTags!Shards, k>> \in tagSets'
           /\ <<RTags!Shards, k>> \in tagSets' \/ <<RTags!Legacy, k>> \in tagSets'
           /\ \A m : <<RTags!Legacy, m>> \in tagSets' => InLegacy(m)
  <1>1. /\ cmd.op = "sadd" => \A n, m : <<n, m>> \in tagSets' <=> <<n, m>> \in tagSets \/ (n = cmd.name /\ m \in cmd.members)
        /\ cmd.op = "srem" => \A n, m : <<n, m>> \in tagSets' <=> <<n, m>> \in tagSets /\ ~(n = cmd.name /\ m \in cmd.members)
        /\ cmd.op \in {"del", "clear"} => \A n, m : <<n, m>> \in tagSets' <=> <<n, m>> \in tagSets /\ n \notin cmd.names
        /\ cmd.op \in {"sadd", "srem", "del", "clear"}
    BY CommandRuns, CommandFields DEF Ran, TagInv
  <1>2. /\ k \in owed \/ (cmd.op = "sadd" /\ cmd.name = RTags!Shards /\ k \in cmd.members)
        /\ ~(cmd.op = "srem" /\ cmd.name = RTags!Shards /\ k \in cmd.members)
        /\ cmd.op = "clear" => <<RTags!Shards, k>> \in tagSets' \/ <<RTags!Legacy, k>> \in tagSets'
    BY DEF Ran
  <1>3. /\ cmd.op = "sadd" => cmd.name # RTags!Legacy
        /\ cmd.op = "del" => cmd.names = {RTags!Legacy} \/ \E j \in TagKeys : DeletesTags(cmd, j)
    <2>1. Pipeline(todo[c])
      BY DEF TagInv, TagsTypeOK
    <2> QED BY <2>1 DEF Pipeline, Ran
  <1>4. \A m : <<RTags!Legacy, m>> \in tagSets' => InLegacy(m)
    BY <1>1, <1>3 DEF InLegacy
  <1>5. InShards(k) => <<RTags!Shards, k>> \in tagSets'
    <2> SUFFICES ASSUME InShards(k), <<RTags!Shards, k>> \notin tagSets' PROVE FALSE
      OBVIOUS
    <2>1. CASE cmd.op = "del"
      <3>1. RTags!Shards \in cmd.names
        BY <1>1, <2>1 DEF InShards
      <3> QED BY <1>3, <2>1, <3>1, NamesDiffer DEF DeletesTags
    <2>2. CASE cmd.op = "clear"
      <3>1. <<RTags!Legacy, k>> \in tagSets' /\ InLegacy(k)
        BY <1>2, <1>4, <2>2
      <3>2. k \in TagMembers
        BY <3>1 DEF InLegacy, TagInv, TagsTypeOK
      <3>3. RTags!Legacy \in cmd.names
        BY <2>2, <3>1, <3>2 DEF Ran, TagInv, KnownAreListed
      <3> QED BY <1>1, <2>2, <3>1, <3>3
    <2> QED BY <1>1, <1>2, <2>1, <2>2 DEF InShards
  <1>6. k \notin owed => <<RTags!Shards, k>> \in tagSets'
    BY <1>1, <1>2
  <1>7. Settles(cmd, k) => <<RTags!Shards, k>> \in tagSets'
    BY <1>1, <1>2 DEF Settles
  <1>8. <<RTags!Shards, k>> \in tagSets' \/ <<RTags!Legacy, k>> \in tagSets'
    <2> SUFFICES ASSUME <<RTags!Shards, k>> \notin tagSets', <<RTags!Legacy, k>> \notin tagSets' PROVE FALSE
      OBVIOUS
    <2>1. k \in owed /\ ~InShards(k) /\ cmd.op # "clear"
      BY <1>2, <1>5, <1>6
    <2>2. InLegacy(k)
      BY <2>1 DEF TagInv, KnownAreListed
    <2>3. LeavesLegacy(todo[c][1], k) /\ 1 \in DOMAIN todo[c]
      BY <1>1, <2>1, <2>2 DEF InLegacy, LeavesLegacy, Ran
    <2>4. PICK j \in DOMAIN todo[c] : j < 1
      BY <2>1, <2>3 DEF TagInv, KnownAreListed
    <2>5. j \in Nat /\ j >= 1
      BY DEF Ran
    <2> QED BY <2>4, <2>5
  <1> QED BY <1>4, <1>5, <1>6, <1>7, <1>8

LEMMA RunListed == ASSUME TagInv, NEW c \in Clients, NEW cmd, NEW r, Ran(c, cmd, r) PROVE KnownAreListed'
  <1>1. \A k \in owed' : <<RTags!Shards, k>> \in tagSets' \/ <<RTags!Legacy, k>> \in tagSets'
    BY ShardsKept
  <1>2. ASSUME NEW d \in Clients, NEW i \in DOMAIN todo'[d], NEW k \in owed', LeavesLegacy(todo'[d][i], k),
               <<RTags!Shards, k>> \notin tagSets'
        PROVE  \E j \in DOMAIN todo'[d] : j < i /\ Settles(todo'[d][j], k)
    <2>1. ~InShards(k) /\ k \in owed /\ ~Settles(cmd, k)
      BY <1>2, ShardsKept
    <2>2. CASE d # c
      <3>1. todo'[d] = todo[d]
        BY <2>2 DEF Ran
      <3>2. \E j \in DOMAIN todo[d] : j < i /\ Settles(todo[d][j], k)
        BY <1>2, <2>1, <3>1 DEF TagInv, KnownAreListed
      <3> QED BY <3>1, <3>2
    <2>3. CASE d = c
      <3>1. /\ todo'[c] = r /\ i \in DOMAIN r
            /\ i \in Nat /\ i + 1 \in DOMAIN todo[c] /\ LeavesLegacy(todo[c][i + 1], k)
        BY <1>2, <2>3 DEF Ran
      <3>2. PICK j \in DOMAIN todo[c] : j < i + 1 /\ Settles(todo[c][j], k)
        BY <2>1, <3>1 DEF TagInv, KnownAreListed
      <3>3. j # 1
        BY <2>1, <3>2 DEF Ran
      <3>4. j \in Nat /\ j - 1 \in DOMAIN r /\ r[j - 1] = todo[c][j]
        BY <3>3 DEF Ran
      <3>5. j - 1 < i
        BY <3>1, <3>2, <3>4
      <3> QED BY <2>3, <3>1, <3>2, <3>4, <3>5
    <2> QED BY <2>2, <2>3
  <1>3. ASSUME NEW d \in Clients, NEW i \in DOMAIN todo'[d], NEW k \in TagMembers, todo'[d][i].op = "clear",
               <<RTags!Legacy, k>> \in tagSets'
        PROVE  RTags!Legacy \in todo'[d][i].names
    <2>1. InLegacy(k)
      <3>1. Pipeline(todo[c]) /\ (cmd.op = "sadd" => cmd.name # RTags!Legacy)
        BY DEF TagInv, TagsTypeOK, Pipeline, Ran
      <3> QED BY <1>3, <3>1, CommandRuns, CommandFields DEF InLegacy, TagInv, Ran
    <2>2. CASE d # c
      BY <1>3, <2>1, <2>2 DEF Ran, TagInv, KnownAreListed
    <2>3. CASE d = c
      <3>1. i + 1 \in DOMAIN todo[c] /\ todo'[d][i] = todo[c][i + 1]
        BY <2>3 DEF Ran
      <3> QED BY <1>3, <2>1, <3>1 DEF TagInv, KnownAreListed
    <2> QED BY <2>2, <2>3
  <1> QED BY <1>1, <1>2, <1>3 DEF KnownAreListed, InShards, InLegacy, LeavesLegacy, Settles

LEMMA RunSearches == ASSUME TagInv, NEW c \in Clients, NEW cmd, NEW r, Ran(c, cmd, r) PROVE SearchesWillFind'
  <1>1. /\ search'.pc = search.pc /\ search'.key = search.key /\ search'.names = search.names
        /\ search'.found = search.found /\ (search'.owed <=> search.owed /\ search.key \in owed')
    BY DEF Ran, TagInv, TagsTypeOK
  <1> SUFFICES ASSUME search.pc = "scanning", search.owed, search.key \in owed'
               PROVE  /\ search.names \in {<<RTags!Legacy, RTags!Shards>>, <<RTags!Shards>>, << >>}
                      /\ search.names = <<RTags!Shards>> => search.found \/ <<RTags!Shards, search.key>> \in tagSets'
                      /\ search.names = << >> => search.found
    BY <1>1 DEF SearchesWillFind, InShards
  <1> QED BY ShardsKept DEF TagInv, SearchesWillFind

LEMMA TagRun == ASSUME TagInv, NEW c \in Clients, RTags!Run(c) PROVE TagInv'
  <1>1. PICK cmd, r : Ran(c, cmd, r)
    BY RunIs
  <1> QED BY <1>1, RunTypes, RunMatches, RunHalfRemoved, RunListed, RunSearches DEF TagInv

LEMMA TagLost == ASSUME TagInv, NEW c \in Clients, RTags!Lost(c) PROVE TagInv'
  <1>1. /\ todo' = [todo EXCEPT ![c] = << >>] /\ damaged' = damaged \cup RTags!InFlight({c})
        /\ UNCHANGED <<tagSets, owed, search>>
    BY DEF RTags!Lost
  <1>2. /\ todo'[c] = << >> /\ DOMAIN todo'[c] = {}
        /\ \A d \in Clients : d # c => todo'[d] = todo[d]
    BY <1>1 DEF TagInv, TagsTypeOK
  <1>3. TagsTypeOK'
    <2>1. << >> \in Seq(TagCommand) /\ Pipeline(<< >>)
      BY DEF Pipeline
    <2>2. todo' \in [Clients -> Seq(TagCommand)]
      BY <1>1, <2>1 DEF TagInv, TagsTypeOK
    <2>3. ASSUME NEW d \in Clients PROVE Pipeline(todo'[d])
      BY <1>2, <2>1 DEF TagInv, TagsTypeOK
    <2> QED BY <1>1, <2>2, <2>3 DEF TagInv, TagsTypeOK, Pipeline, AddsTags, AddsKey, RemovesKey, DeletesTags
  <1>4. TagsWillMatch'
    <2> SUFFICES ASSUME NEW k \in TagKeys, k \notin damaged', NEW t \in TagMembers, HasTag(k, t), ~HasKey(k, t)
                 PROVE  \E d \in Clients : \E i \in DOMAIN todo'[d] : AddsKey(todo'[d][i], k, t) \/ DeletesTags(todo'[d][i], k)
      BY <1>1 DEF TagsWillMatch, HasTag, HasKey, AddsKey, DeletesTags
    <2>1. PICK d \in Clients : \E i \in DOMAIN todo[d] : AddsKey(todo[d][i], k, t) \/ DeletesTags(todo[d][i], k)
      BY <1>1 DEF TagInv, TagsWillMatch
    <2>2. d # c
      <3>1. \A cmd : AddsKey(cmd, k, t) \/ DeletesTags(cmd, k) => RTags!Changes(cmd, k)
        BY DEF AddsKey, DeletesTags, RTags!Changes
      <3> QED BY <1>1, <2>1, <3>1 DEF RTags!InFlight
    <2> QED BY <1>2, <2>1, <2>2
  <1>5. HalfRemovedHaveNoTags'
    <2> SUFFICES ASSUME NEW k \in TagKeys, k \notin damaged, NEW t \in TagMembers, NEW d \in Clients, Half(todo'[d], k)
                 PROVE  ~HasTag(k, t)
      BY <1>1 DEF HalfRemovedHaveNoTags, HasTag, Half, RemovesKey, DeletesTags
    <2>1. d # c
      BY <1>2 DEF Half
    <2> QED BY <1>2, <2>1 DEF TagInv, HalfRemovedHaveNoTags
  <1>6. KnownAreListed'
    <2>1. \A d \in Clients : \A i \in DOMAIN todo'[d] : d # c /\ todo'[d] = todo[d]
      BY <1>2
    <2>2. \A k \in owed : InShards(k) \/ InLegacy(k)
      BY DEF TagInv, KnownAreListed
    <2>3. ASSUME NEW d \in Clients, NEW i \in DOMAIN todo'[d], NEW k \in owed, LeavesLegacy(todo'[d][i], k)
          PROVE  InShards(k) \/ \E j \in DOMAIN todo'[d] : j < i /\ Settles(todo'[d][j], k)
      BY <2>1, <2>3 DEF TagInv, KnownAreListed
    <2>4. ASSUME NEW d \in Clients, NEW i \in DOMAIN todo'[d], NEW k \in TagMembers, todo'[d][i].op = "clear", InLegacy(k)
          PROVE  RTags!Legacy \in todo'[d][i].names
      BY <2>1, <2>4 DEF TagInv, KnownAreListed
    <2> QED BY <1>1, <2>2, <2>3, <2>4 DEF KnownAreListed, InShards, InLegacy, LeavesLegacy, Settles
  <1>7. SearchesWillFind'
    BY <1>1 DEF TagInv, SearchesWillFind, InShards
  <1> QED BY <1>3, <1>4, <1>5, <1>6, <1>7 DEF TagInv

LEMMA IndexUnchanged ==
    ASSUME TagInv, UNCHANGED <<tagSets, todo, damaged, owed>> PROVE TagsWillMatch' /\ HalfRemovedHaveNoTags' /\ KnownAreListed'
  <1>1. TagsWillMatch'
    BY DEF TagInv, TagsWillMatch, HasTag, HasKey, AddsKey, DeletesTags
  <1>2. HalfRemovedHaveNoTags'
    BY DEF TagInv, HalfRemovedHaveNoTags, HasTag, Half, RemovesKey, DeletesTags
  <1>3. KnownAreListed'
    BY DEF TagInv, KnownAreListed, InShards, InLegacy, LeavesLegacy, Settles
  <1> QED BY <1>1, <1>2, <1>3

LEMMA TagSearch ==
    ASSUME TagInv, (\E k \in TagKeys : RTags!StartSearch(k)) \/ RTags!Scan \/ RTags!EndSearch PROVE TagInv'
  <1>1. UNCHANGED <<tagSets, todo, damaged, owed>>
    BY DEF RTags!StartSearch, RTags!Scan, RTags!EndSearch
  <1>2. \A k : InLegacy(k) <=> k \in RTags!SMembers(RTags!Legacy)
    BY MembersOf DEF TagInv, InLegacy
  <1>3. \A k : InShards(k) <=> k \in RTags!SMembers(RTags!Shards)
    BY MembersOf DEF TagInv, InShards
  <1>4. ASSUME NEW k \in TagKeys, RTags!StartSearch(k)
        PROVE  /\ search' = [pc |-> search'.pc, key |-> search'.key, names |-> search'.names,
                             found |-> search'.found, owed |-> search'.owed]
               /\ search'.found \in BOOLEAN /\ search'.owed \in BOOLEAN
               /\ SearchesWillFind'
    <2>1. search' = [pc |-> "scanning", key |-> k, names |-> RTags!KnownKeysForRead, found |-> FALSE, owed |-> k \in owed]
      BY <1>4 DEF RTags!StartSearch
    <2>2. /\ RTags!KnownKeysForRead \in {<<RTags!Legacy, RTags!Shards>>, <<RTags!Shards>>}
          /\ RTags!KnownKeysForRead = <<RTags!Shards>> => ~InLegacy(k)
      <3>1. <<RTags!Legacy, RTags!Shards>> # <<RTags!Shards>>
        OBVIOUS
      <3> QED BY <1>2, <3>1 DEF RTags!KnownKeysForRead
    <2>3. k \in owed => InShards(k) \/ InLegacy(k)
      BY DEF TagInv, KnownAreListed
    <2>4. <<RTags!Legacy, RTags!Shards>> # << >> /\ <<RTags!Shards>> # << >>
      OBVIOUS
    <2> HIDE DEF RTags!KnownKeysForRead
    <2>5. /\ search'.pc = "scanning" /\ search'.key = k /\ search'.names = RTags!KnownKeysForRead
          /\ search'.found = FALSE /\ search'.owed = (k \in owed)
      BY <2>1
    <2>6. SearchesWillFind'
      <3> SUFFICES ASSUME k \in owed
                   PROVE  /\ RTags!KnownKeysForRead \in {<<RTags!Legacy, RTags!Shards>>, <<RTags!Shards>>, << >>}
                          /\ RTags!KnownKeysForRead = <<RTags!Shards>> => InShards(k)
                          /\ RTags!KnownKeysForRead # << >>
        BY <1>1, <2>5 DEF SearchesWillFind, InShards
      <3> QED BY <2>2, <2>3, <2>4
    <2> QED BY <2>1, <2>6
  <1>5. ASSUME RTags!Scan
        PROVE  /\ search' = [pc |-> search'.pc, key |-> search'.key, names |-> search'.names,
                             found |-> search'.found, owed |-> search'.owed]
               /\ search'.found \in BOOLEAN /\ search'.owed \in BOOLEAN
               /\ SearchesWillFind'
    <2>1. /\ search'.pc = search.pc /\ search'.key = search.key /\ search'.owed = search.owed
          /\ search'.names = Tail(search.names) /\ search.pc = "scanning" /\ search.names # << >>
          /\ search'.found = (search.found \/ search.key \in RTags!SMembers(Head(search.names)))
      BY <1>5 DEF RTags!Scan, TagInv, TagsTypeOK
    <2>2. /\ search' = [pc |-> search'.pc, key |-> search'.key, names |-> search'.names,
                        found |-> search'.found, owed |-> search'.owed]
          /\ search'.found \in BOOLEAN /\ search'.owed \in BOOLEAN
      BY <1>5 DEF RTags!Scan, TagInv, TagsTypeOK
    <2>3. ASSUME search.owed
          PROVE  /\ search.key \in owed
                 /\ search'.names \in {<<RTags!Shards>>, << >>}
                 /\ search'.names = <<RTags!Shards>> => search'.found \/ InShards(search.key)
                 /\ search'.names = << >> => search'.found
      <3>1. /\ search.key \in owed /\ search.names \in {<<RTags!Legacy, RTags!Shards>>, <<RTags!Shards>>}
            /\ search.names = <<RTags!Shards>> => search.found \/ InShards(search.key)
        BY <2>1, <2>3 DEF TagInv, SearchesWillFind
      <3>2. CASE search.names = <<RTags!Legacy, RTags!Shards>>
        <4>1. search'.names = <<RTags!Shards>> /\ Head(search.names) = RTags!Legacy /\ <<RTags!Shards>> # << >>
          BY <2>1, <3>2
        <4>2. InShards(search.key) \/ InLegacy(search.key)
          BY <3>1 DEF TagInv, KnownAreListed
        <4> QED BY <1>2, <2>1, <3>1, <4>1, <4>2
      <3>3. CASE search.names = <<RTags!Shards>>
        <4>1. search'.names = << >> /\ Head(search.names) = RTags!Shards /\ <<RTags!Shards>> # << >>
          BY <2>1, <3>3
        <4> QED BY <1>3, <2>1, <3>1, <3>3, <4>1
      <3> QED BY <3>1, <3>2, <3>3
    <2> QED BY <1>1, <2>1, <2>2, <2>3 DEF SearchesWillFind, InShards
  <1>6. ASSUME RTags!EndSearch
        PROVE  /\ search' = [pc |-> search'.pc, key |-> search'.key, names |-> search'.names,
                             found |-> search'.found, owed |-> search'.owed]
               /\ search'.found \in BOOLEAN /\ search'.owed \in BOOLEAN
               /\ SearchesWillFind'
    BY <1>6 DEF RTags!EndSearch, RTags!NoSearch, SearchesWillFind
  <1>7. /\ search' = [pc |-> search'.pc, key |-> search'.key, names |-> search'.names,
                      found |-> search'.found, owed |-> search'.owed]
        /\ search'.found \in BOOLEAN /\ search'.owed \in BOOLEAN
        /\ SearchesWillFind'
    BY <1>4, <1>5, <1>6
  <1>8. TagsTypeOK'
    BY <1>1, <1>7 DEF TagInv, TagsTypeOK, Pipeline, AddsTags, AddsKey, RemovesKey, DeletesTags
  <1>9. TagsWillMatch' /\ HalfRemovedHaveNoTags' /\ KnownAreListed'
    BY <1>1, IndexUnchanged DEF TagInv
  <1> QED BY <1>7, <1>8, <1>9 DEF TagInv

LEMMA TagInit == RTags!Init => TagInv
  <1> SUFFICES ASSUME RTags!Init PROVE TagInv
    OBVIOUS
  <1>1. PICK old \in SUBSET TagKeys : tagSets = {<<RTags!Legacy, k>> : k \in old} /\ owed = old
    BY DEF RTags!Init
  <1>2. todo = [c \in Clients |-> << >>] /\ search = RTags!NoSearch
    BY DEF RTags!Init
  <1>3. \A c \in Clients : todo[c] = << >> /\ DOMAIN todo[c] = {}
    BY <1>2
  <1>4. \A n, m : <<n, m>> \in tagSets <=> n = RTags!Legacy /\ m \in old
    BY <1>1
  <1>5. TagsTypeOK
    <2>1. tagSets \subseteq TagNames \X TagMembers
      BY <1>1, NamesKnown
    <2>2. << >> \in Seq(TagCommand) /\ Pipeline(<< >>)
      BY DEF Pipeline
    <2>3. todo \in [Clients -> Seq(TagCommand)] /\ \A c \in Clients : Pipeline(todo[c])
      BY <1>2, <2>2
    <2> QED BY <1>2, <2>1, <2>3 DEF TagsTypeOK, RTags!NoSearch
  <1>6. TagsWillMatch
    BY <1>4, NamesDiffer DEF TagsWillMatch, HasTag
  <1>7. HalfRemovedHaveNoTags /\ KnownAreListed
    BY <1>1, <1>3, <1>4 DEF HalfRemovedHaveNoTags, Half, KnownAreListed, InLegacy
  <1>8. SearchesWillFind
    BY <1>2 DEF SearchesWillFind, RTags!NoSearch
  <1> QED BY <1>5, <1>6, <1>7, <1>8 DEF TagInv

LEMMA TagNext == TagInv /\ [RTags!Next]_(RTags!vars) => TagInv'
  <1> SUFFICES ASSUME TagInv, [RTags!Next]_(RTags!vars) PROVE TagInv'
    OBVIOUS
  <1>1. ASSUME NEW c \in Clients, RTags!Migrate(c) PROVE TagInv'
    BY <1>1, MigrateIsSound, TagCall DEF RTags!Migrate, RTags!Call
  <1>2. ASSUME NEW c \in Clients, RTags!Clear(c) PROVE TagInv'
    BY <1>2, ClearIsSound, TagCall DEF RTags!Clear, RTags!Call, TagInv
  <1>3. ASSUME NEW c \in Clients, NEW k \in TagKeys, RTags!Touch(c, k) PROVE TagInv'
    BY <1>3, TouchIsSound, TagCall DEF RTags!Touch, RTags!Call
  <1>4. ASSUME NEW c \in Clients, NEW k \in TagKeys, RTags!Remove(c, k) PROVE TagInv'
    BY <1>4, RemoveIsSound, TagCall DEF RTags!Remove, RTags!Call, TagInv
  <1>5. ASSUME NEW c \in Clients, NEW k \in TagKeys, NEW T \in SUBSET Tags, RTags!Track(c, k, T) PROVE TagInv'
    BY <1>5, TrackIsSound, TagCall DEF RTags!Track, RTags!Call, TagInv
  <1>6. CASE UNCHANGED RTags!vars
    <2>1. UNCHANGED <<tagSets, todo, damaged, owed, search>>
      BY <1>6 DEF RTags!vars
    <2>2. TagsTypeOK' /\ SearchesWillFind'
      BY <2>1 DEF TagInv, TagsTypeOK, Pipeline, AddsTags, AddsKey, RemovesKey, DeletesTags, SearchesWillFind, InShards
    <2> QED BY <2>1, <2>2, IndexUnchanged DEF TagInv
  <1> QED BY <1>1, <1>2, <1>3, <1>4, <1>5, <1>6, TagRun, TagLost, TagSearch DEF RTags!Next

\* Once no pipeline is under way the set of a tag lists every key that has the
\* tag, however the commands of the track, touch, remove and clear calls of
\* several clients alternate. Keys are excepted whose pipeline was lost half
\* way, or that were in a pipeline while a clear or a remove was half way.
THEOREM TagsStayFindable == RTags!Spec => []TagsFindTheirKeys
  <1>1. TagInv => TagsFindTheirKeys
    <2> SUFFICES ASSUME TagInv, \A c \in Clients : todo[c] = << >>,
                        NEW k \in TagKeys \ damaged, NEW t \in RTags!SMembers(RTags!TagsOf(k))
                 PROVE  k \in RTags!SMembers(RTags!KeysOf(t))
      BY DEF TagsFindTheirKeys, RTags!TagsFindTheirKeys
    <2>1. t \in TagMembers /\ HasTag(k, t)
      BY MembersOf DEF TagInv, HasTag
    <2>2. HasKey(k, t)
      BY <2>1 DEF TagInv, TagsWillMatch
    <2> QED BY <2>2, MembersOf DEF TagInv, HasKey
  <1> QED BY TagInit, TagNext, <1>1, PTL DEF RTags!Spec

\* A search by prefix or pattern that runs while the known keys move from the
\* legacy set into the shards returns each key that was known throughout.
THEOREM SearchesFind == RTags!Spec => []SearchFindsKnownKeys
  <1>1. TagInv => SearchFindsKnownKeys
    BY DEF TagInv, SearchesWillFind, SearchFindsKnownKeys, RTags!SearchFindsKnownKeys
  <1> QED BY TagInit, TagNext, <1>1, PTL DEF RTags!Spec
=============================================================================
