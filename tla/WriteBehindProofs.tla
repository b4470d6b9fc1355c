-------------------------- MODULE WriteBehindProofs --------------------------
(***************************************************************************)
(* Proofs about WriteBehind.                                               *)
(***************************************************************************)
EXTENDS WriteBehind, KeyEpochsLemmas, SequenceTheorems, TLAPS

\* What holds whatever fails ...
Sound ==
    /\ TypeOK /\ GoodTable(epochs) /\ order!OrderInv
    /\ StagesMatch /\ LineWaits /\ ActiveWasCurrent /\ FencesBehind /\ LocalIsLast

\* ... and what holds until something does.
WriteBehindInv == Sound /\ SoundDelivery

-----------------------------------------------------------------------------
(* Sequences of calls.                                                     *)

IsLine(s) == s \in Seq(Ops) /\ IsInjective(s)

LEMMA AppendLine ==
    ASSUME NEW s, IsLine(s), NEW o \in Ops, ~Occurs(s, o), NEW t, t = Append(s, o)
    PROVE  /\ IsLine(t)
           /\ \A p \in Ops : Occurs(t, p) <=> p = o \/ Occurs(s, p)
           /\ \A p \in Ops : Occurs(s, p) => Earlier(t, p, o)
           /\ \A p, q \in Ops : Earlier(s, p, q) => Earlier(t, p, q)
  <1>1. /\ s \in Seq(Ops) /\ t \in Seq(Ops) /\ Len(s) \in Nat /\ Len(t) = Len(s) + 1
        /\ DOMAIN s = 1..Len(s) /\ DOMAIN t = 1..Len(s) + 1
    BY DEF IsLine
  <1>2. t[Len(s) + 1] = o /\ \A i \in 1..Len(s) : t[i] = s[i]
    BY <1>1
  <1>3. IsInjective(t)
    BY <1>1, <1>2 DEF IsLine, IsInjective, Occurs
  <1>4. \A p \in Ops : Occurs(t, p) <=> p = o \/ Occurs(s, p)
    BY <1>1, <1>2 DEF Occurs
  <1>5. \A p \in Ops : Occurs(s, p) => Earlier(t, p, o)
    BY <1>1, <1>2 DEF Occurs, Earlier
  <1>6. \A p, q \in Ops : Earlier(s, p, q) => Earlier(t, p, q)
    BY <1>1, <1>2 DEF Earlier
  <1> QED BY <1>1, <1>3, <1>4, <1>5, <1>6 DEF IsLine

LEMMA TailLine ==
    ASSUME NEW s, IsLine(s), s # << >>, NEW t, t = Tail(s)
    PROVE  /\ IsLine(t) /\ Head(s) \in Ops
           /\ \A p \in Ops : Occurs(t, p) <=> p # Head(s) /\ Occurs(s, p)
           /\ \A p, q \in Ops : p # Head(s) /\ Earlier(s, p, q) => Earlier(t, p, q)
           /\ \A p \in Ops : ~Earlier(s, p, Head(s))
  <1>1. /\ s \in Seq(Ops) /\ t \in Seq(Ops) /\ Len(s) \in Nat /\ Len(t) = Len(s) - 1
        /\ Len(s) > 0 /\ Head(s) = s[1] /\ s[1] \in Ops
        /\ DOMAIN s = 1..Len(s) /\ DOMAIN t = 1..Len(s) - 1
    BY DEF IsLine
  <1>2. \A i \in 1..Len(s) - 1 : t[i] = s[i + 1]
    BY <1>1
  <1>3. \A i, j \in 1..Len(s) : s[i] = s[j] => i = j
    BY <1>1 DEF IsLine, IsInjective
  <1>4. IsInjective(t)
    BY <1>1, <1>2, <1>3 DEF IsInjective
  <1>5. ASSUME NEW p \in Ops PROVE Occurs(t, p) <=> p # s[1] /\ Occurs(s, p)
    <2>1. ASSUME Occurs(t, p) PROVE p # s[1] /\ Occurs(s, p)
      BY <1>1, <1>2, <1>3, <2>1 DEF Occurs
    <2>2. ASSUME p # s[1], Occurs(s, p) PROVE Occurs(t, p)
      <3>1. PICK i \in 1..Len(s) : s[i] = p
        BY <1>1, <2>2 DEF Occurs
      <3>2. i - 1 \in 1..Len(s) - 1 /\ t[i - 1] = p
        BY <1>1, <1>2, <2>2, <3>1
      <3> QED BY <1>1, <3>2 DEF Occurs
    <2> QED BY <2>1, <2>2
  <1>6. ASSUME NEW p \in Ops, NEW q \in Ops, p # s[1], Earlier(s, p, q) PROVE Earlier(t, p, q)
    <2>1. PICK i \in 1..Len(s), j \in 1..Len(s) : i < j /\ s[i] = p /\ s[j] = q
      BY <1>1, <1>6 DEF Earlier
    <2>2. /\ i - 1 \in 1..Len(s) - 1 /\ j - 1 \in 1..Len(s) - 1 /\ i - 1 < j - 1
          /\ t[i - 1] = p /\ t[j - 1] = q
      BY <1>1, <1>2, <1>6, <2>1
    <2> QED BY <1>1, <2>2 DEF Earlier
  <1>7. \A p \in Ops : ~Earlier(s, p, s[1])
    BY <1>1, <1>3 DEF Earlier
  <1> QED BY <1>1, <1>4, <1>5, <1>6, <1>7 DEF IsLine

LEMMA FirstLine ==
    ASSUME NEW b \in Seq(Ops), NEW q \in Seq(Ops), IsInjective(b \o q)
    PROVE  IsLine(b) /\ \A p \in Ops : Occurs(b, p) => Occurs(b \o q, p)
  <1>1. /\ Len(b) \in Nat /\ Len(q) \in Nat /\ Len(b \o q) = Len(b) + Len(q)
        /\ DOMAIN b = 1..Len(b) /\ DOMAIN (b \o q) = 1..Len(b) + Len(q)
        /\ \A i \in 1..Len(b) : (b \o q)[i] = b[i]
    OBVIOUS
  <1> QED BY <1>1 DEF IsLine, IsInjective, Occurs

\* A sequence cut in two.
LEMMA CutLine ==
    ASSUME NEW q \in Seq(Ops), NEW n \in Nat, n <= Len(q)
    PROVE  /\ SubSeq(q, 1, n) \in Seq(Ops) /\ Len(SubSeq(q, 1, n)) = n
           /\ SubSeq(q, n + 1, Len(q)) \in Seq(Ops) /\ Len(SubSeq(q, n + 1, Len(q))) = Len(q) - n
           /\ SubSeq(q, 1, n) \o SubSeq(q, n + 1, Len(q)) = q
  <1> DEFINE b == SubSeq(q, 1, n)
             r == SubSeq(q, n + 1, Len(q))
  <1>1. Len(q) \in Nat /\ \A i \in 1..Len(q) : q[i] \in Ops
    OBVIOUS
  <1>2. b \in Seq(Ops) /\ Len(b) = n
    <2>1. \A i \in 1..n : q[i] \in Ops
      BY <1>1
    <2> QED BY <2>1, SubSeqProperties
  <1>3. \A i \in 1..n : b[i] = q[i]
    BY <1>1
  <1>4. r \in Seq(Ops) /\ Len(r) = Len(q) - n
    <2>1. \A i \in n + 1..Len(q) : q[i] \in Ops
      BY <1>1
    <2>2. r \in Seq(Ops)
      BY <1>1, <2>1, SubSeqProperties
    <2>3. Len(r) = IF n + 1 <= Len(q) THEN Len(q) - (n + 1) + 1 ELSE 0
      BY <1>1, <2>1, SubSeqProperties
    <2> QED BY <1>1, <2>2, <2>3
  <1>5. \A i \in 1..Len(q) - n : r[i] = q[i + n]
    BY <1>1
  <1> HIDE DEF b, r
  <1>6. b \o r \in Seq(Ops) /\ Len(b \o r) = Len(q)
    BY <1>1, <1>2, <1>4
  <1>7. \A i \in 1..Len(q) : (b \o r)[i] = q[i]
    <2> SUFFICES ASSUME NEW i \in 1..Len(q) PROVE (b \o r)[i] = q[i]
      OBVIOUS
    <2>1. CASE i <= n
      BY <1>1, <1>2, <1>3, <1>4, <2>1
    <2>2. CASE ~(i <= n)
      <3>1. i - n \in 1..Len(q) - n /\ (i - n) + n = i
        BY <1>1, <2>2
      <3>2. (b \o r)[i] = r[i - n]
        BY <1>1, <1>2, <1>4, <2>2
      <3> QED BY <1>5, <3>1, <3>2
    <2> QED BY <2>1, <2>2
  <1>8. b \o r = q
    BY <1>6, <1>7, SeqEqual
  <1> QED BY <1>2, <1>4, <1>8 DEF b, r

\* The queue is split into the batch and the rest.
LEMMA SplitLine ==
    ASSUME NEW q \in Seq(Ops), q # << >>, BatchSize \in Nat \ {0}
    PROVE  /\ FirstBatch(q) \in Seq(Ops) /\ AfterBatch(q) \in Seq(Ops)
           /\ FirstBatch(q) # << >> /\ Len(FirstBatch(q)) <= BatchSize
           /\ Len(AfterBatch(q)) <= Len(q)
           /\ FirstBatch(q) \o AfterBatch(q) = q
  <1> DEFINE n == IF Len(q) < BatchSize THEN Len(q) ELSE BatchSize
  <1>1. Len(q) \in Nat /\ Len(q) # 0
    OBVIOUS
  <1>2. /\ n \in Nat /\ n # 0 /\ n <= Len(q) /\ n <= BatchSize
        /\ n = BatchSize \/ (n = Len(q) /\ Len(q) < BatchSize + 1)
    BY <1>1
  <1>3. FirstBatch(q) = SubSeq(q, 1, n) /\ AfterBatch(q) = SubSeq(q, BatchSize + 1, Len(q))
    BY DEF FirstBatch, AfterBatch
  <1> HIDE DEF n
  <1>4. SubSeq(q, BatchSize + 1, Len(q)) = SubSeq(q, n + 1, Len(q))
    <2>1. CASE n = BatchSize
      BY <2>1
    <2>2. CASE n = Len(q) /\ Len(q) < BatchSize + 1
      <3>1. SubSeq(q, BatchSize + 1, Len(q)) = << >>
        BY <1>1, <2>2, SubSeqEmpty
      <3>2. SubSeq(q, n + 1, Len(q)) = << >>
        BY <1>1, <2>2, SubSeqEmpty
      <3> QED BY <3>1, <3>2
    <2> QED BY <1>2, <2>1, <2>2
  <1>5. /\ FirstBatch(q) \in Seq(Ops) /\ Len(FirstBatch(q)) = n
        /\ AfterBatch(q) \in Seq(Ops) /\ Len(AfterBatch(q)) = Len(q) - n
        /\ FirstBatch(q) \o AfterBatch(q) = q
    <2>1. /\ SubSeq(q, 1, n) \in Seq(Ops) /\ Len(SubSeq(q, 1, n)) = n
          /\ SubSeq(q, n + 1, Len(q)) \in Seq(Ops) /\ Len(SubSeq(q, n + 1, Len(q))) = Len(q) - n
          /\ SubSeq(q, 1, n) \o SubSeq(q, n + 1, Len(q)) = q
      BY <1>2, CutLine
    <2> QED BY <1>3, <1>4, <2>1
  <1>6. FirstBatch(q) # << >>
    BY <1>2, <1>5
  <1> QED BY <1>1, <1>2, <1>5, <1>6
-----------------------------------------------------------------------------
(* The ordering boundary.                                                  *)

LEMMA Names ==
    /\ \A o \in Ops : Now(o) \in Writes /\ Later(o) \in Writes
    /\ \A o, p \in Ops : /\ Now(o) # Later(p)
                         /\ Now(o) = Now(p) => o = p
                         /\ Later(o) = Later(p) => o = p
  BY DEF Now, Later, Writes

LEMMA AdmitOrder ==
    ASSUME order!OrderTypeOK, order!OrderInv, NEW w \in Writes, NEW K \in SUBSET Keys, order!Admit(w, K)
    PROVE  /\ order!OrderTypeOK' /\ order!OrderInv'
           /\ phase[w] = "idle" /\ phase'[w] = "queued" /\ keysOf'[w] = K
           /\ \A v \in Writes : v # w => phase'[v] = phase[v] /\ keysOf'[v] = keysOf[v]
  <1>1. /\ phase[w] = "idle" /\ phase' = [phase EXCEPT ![w] = "queued"]
        /\ keysOf' = [keysOf EXCEPT ![w] = K]
        /\ before' = [before EXCEPT ![w] =
                        {p \in Writes : phase[p] # "idle" /\ keysOf[p] \cap K # {}}]
    BY DEF order!Admit
  <1>2. order!OrderTypeOK'
    BY <1>1 DEF order!OrderTypeOK, order!Phases
  <1>3. /\ phase'[w] = "queued" /\ keysOf'[w] = K
        /\ before'[w] = {p \in Writes : phase[p] # "idle" /\ keysOf[p] \cap K # {}}
        /\ \A p \in Writes : p # w => phase'[p] = phase[p] /\ keysOf'[p] = keysOf[p] /\ before'[p] = before[p]
        /\ \A p \in Writes : before[p] \subseteq Writes
    BY <1>1 DEF order!OrderTypeOK
  <1>4. \A q \in Writes : \A p \in before'[q] : phase'[q] # "idle" /\ phase'[p] # "idle"
    BY <1>1, <1>3 DEF order!OrderInv
  <1>5. \A q \in Writes : phase'[q] \in {"running", "done"} => \A p \in before'[q] : phase'[p] = "done"
    BY <1>1, <1>3 DEF order!OrderInv
  <1>6. \A q, p \in Writes : q # p /\ phase'[q] # "idle" /\ phase'[p] # "idle" /\ keysOf'[q] \cap keysOf'[p] # {}
                            => q \in before'[p] \/ p \in before'[q]
    BY <1>3 DEF order!OrderInv, order!Share
  <1>7. order!OrderInv'
    BY <1>4, <1>5, <1>6 DEF order!OrderInv, order!Share
  <1> QED BY <1>1, <1>2, <1>3, <1>7

LEMMA BeginOrder ==
    ASSUME order!OrderTypeOK, order!OrderInv, NEW w \in Writes, order!Begin(w)
    PROVE  /\ order!OrderTypeOK' /\ order!OrderInv' /\ UNCHANGED keysOf
           /\ phase[w] = "queued" /\ phase'[w] = "running"
           /\ \A v \in Writes : v # w => phase'[v] = phase[v]
           /\ \A v \in Writes : v # w /\ phase[v] = "running" => keysOf[v] \cap keysOf[w] = {}
  <1>1. /\ phase[w] = "queued" /\ phase' = [phase EXCEPT ![w] = "running"]
        /\ \A p \in before[w] : phase[p] = "done"
        /\ UNCHANGED <<keysOf, before>>
    BY DEF order!Begin, order!MyTurn
  <1>2. order!OrderTypeOK'
    BY <1>1 DEF order!OrderTypeOK, order!Phases
  <1>3. /\ phase'[w] = "running" /\ \A p \in Writes : p # w => phase'[p] = phase[p]
        /\ \A p \in Writes : before[p] \subseteq Writes
    BY <1>1 DEF order!OrderTypeOK
  <1>4. order!OrderInv'
    BY <1>1, <1>3 DEF order!OrderInv, order!Share
  <1>5. \A v \in Writes : v # w /\ phase[v] = "running" => keysOf[v] \cap keysOf[w] = {}
    BY <1>1 DEF order!OrderInv, order!Share
  <1> QED BY <1>1, <1>2, <1>3, <1>4, <1>5

LEMMA SettleOrder ==
    ASSUME order!OrderTypeOK, order!OrderInv, NEW w \in Writes, order!Settle(w)
    PROVE  /\ order!OrderTypeOK' /\ order!OrderInv' /\ UNCHANGED keysOf
           /\ phase[w] = "running" /\ phase'[w] = "done"
           /\ \A v \in Writes : v # w => phase'[v] = phase[v]
  <1>1. /\ phase[w] = "running" /\ phase' = [phase EXCEPT ![w] = "done"]
        /\ UNCHANGED <<keysOf, before>>
    BY DEF order!Settle
  <1>2. order!OrderTypeOK'
    BY <1>1 DEF order!OrderTypeOK, order!Phases
  <1>3. /\ phase'[w] = "done" /\ \A p \in Writes : p # w => phase'[p] = phase[p]
        /\ \A p \in Writes : before[p] \subseteq Writes
    BY <1>1 DEF order!OrderTypeOK
  <1>4. order!OrderInv'
    BY <1>1, <1>3 DEF order!OrderInv, order!Share
  <1> QED BY <1>1, <1>2, <1>3, <1>4

LEMMA SameOrder ==
    ASSUME order!OrderTypeOK, order!OrderInv, UNCHANGED chainVars
    PROVE  order!OrderTypeOK' /\ order!OrderInv'
  BY DEF chainVars, order!OrderTypeOK, order!OrderInv, order!Share

-----------------------------------------------------------------------------
(* The queue and the batch.                                                *)

LEMMA LineType ==
    ASSUME TypeOK
    PROVE  /\ IsLine(Line) /\ batch \in Seq(Ops) /\ queue \in Seq(Ops)
           /\ BatchSize \in Nat \ {0} /\ MaxQueueSize \in Nat \ {0}
           /\ \A o \in Ops : (Waiting(o) <=> Occurs(Line, o))
           /\ \A o, p \in Ops : (AheadOf(p, o) <=> Earlier(Line, p, o))
           /\ batch # << >> => Line # << >> /\ Head(Line) = Head(batch)
  <1>1. batch \in Seq(Ops) /\ queue \in Seq(Ops) /\ IsInjective(batch \o queue)
    BY DEF TypeOK
  <1>2. IsLine(Line)
    BY <1>1 DEF IsLine, Line
  <1>3. BatchSize \in Nat \ {0} /\ MaxQueueSize \in Nat \ {0}
    BY QueueAssumption DEF TypeOK, BatchSize, MaxQueueSize
  <1>4. batch # << >> => Line # << >> /\ Head(Line) = Head(batch)
    BY <1>1 DEF Line
  <1> QED BY <1>1, <1>2, <1>3, <1>4 DEF Waiting, AheadOf

\* A queue with one more operation makes a line with one more.
LEMMA QueueOneMore ==
    ASSUME NEW b \in Seq(Ops), NEW q \in Seq(Ops), NEW o \in Ops
    PROVE  b \o Append(q, o) = Append(b \o q, o)
  <1> DEFINE s == b \o Append(q, o)
             t == Append(b \o q, o)
  <1>1. /\ Len(b) \in Nat /\ Len(q) \in Nat
        /\ s \in Seq(Ops) /\ t \in Seq(Ops)
        /\ Len(s) = Len(b) + Len(q) + 1 /\ Len(t) = Len(b) + Len(q) + 1
    OBVIOUS
  <1>2. \A i \in 1..Len(b) + Len(q) + 1 : s[i] = t[i]
    OBVIOUS
  <1> HIDE DEF s, t
  <1>3. s = t
    BY <1>1, <1>2, SeqEqual
  <1> QED BY <1>3 DEF s, t

\* A flush moves operations from the queue to the batch and loses none.
LEMMA FlushFacts ==
    ASSUME TypeOK, LineWaits, NEW who \in Ops \cup {"timer", "stack"}, NEW q \in Seq(Ops),
           Len(q) <= MaxQueueSize, FlushFrom(who, q)
    PROVE  /\ batch' \in Seq(Ops) /\ Len(batch') <= BatchSize
           /\ queue' \in Seq(Ops) /\ Len(queue') <= MaxQueueSize
           /\ batch' \o queue' = batch \o q
           /\ flusher' \in Ops \cup {"timer", "stack", None}
           /\ flusher' = None <=> batch' = << >>
           /\ batch # << >> => batch' = batch
  <1>1. /\ batch \in Seq(Ops) /\ Len(batch) <= BatchSize
        /\ flusher \in Ops \cup {"timer", "stack", None} /\ (flusher = None <=> batch = << >>)
    BY DEF TypeOK, LineWaits
  <1>2. CASE flusher # None \/ q = << >>
    <2>1. queue' = q /\ batch' = batch /\ flusher' = flusher
      BY <1>2 DEF FlushFrom
    <2> QED BY <1>1, <2>1
  <1>3. CASE flusher = None /\ q # << >>
    <2>1. batch' = FirstBatch(q) /\ queue' = AfterBatch(q) /\ flusher' = who
      BY <1>3 DEF FlushFrom
    <2>2. /\ FirstBatch(q) \in Seq(Ops) /\ AfterBatch(q) \in Seq(Ops)
          /\ FirstBatch(q) # << >> /\ Len(FirstBatch(q)) <= BatchSize
          /\ Len(AfterBatch(q)) <= Len(q)
          /\ FirstBatch(q) \o AfterBatch(q) = q
      BY <1>3, LineType, SplitLine
    <2>3. batch = << >> /\ batch \o q = q
      BY <1>1, <1>3, ConcatEmptySeq
    <2>4. Len(AfterBatch(q)) <= MaxQueueSize
      <3>1. Len(AfterBatch(q)) \in Nat /\ Len(q) \in Nat /\ MaxQueueSize \in Nat
        BY <2>2, LineType
      <3> QED BY <3>1, <2>2
    <2>5. who # None
      BY RemoteAssumption
    <2> QED BY <2>1, <2>2, <2>3, <2>4, <2>5
  <1> QED BY <1>2, <1>3

\* When the batch goes on the line loses its head.
LEMMA GoOnFacts ==
    ASSUME TypeOK, LineWaits, NEW o \in Ops, batch # << >>, o = Head(batch), GoOn
    PROVE  /\ batch' \in Seq(Ops) /\ Len(batch') <= BatchSize
           /\ queue' \in Seq(Ops) /\ Len(queue') <= MaxQueueSize
           /\ Line # << >> /\ Head(Line) = o /\ batch' \o queue' = Tail(Line)
           /\ flusher' \in Ops \cup {"timer", "stack", None}
           /\ flusher' = None <=> batch' = << >>
           /\ stage' \in [Ops -> Stages]
           /\ \A p \in Ops : stage'[p] = stage[p] \/ (stage[p] = "flushing" /\ stage'[p] = "done")
           /\ running' \in {"up", "flushing", "down"}
  <1> DEFINE rest == Tail(batch)
             more == rest = << >> /\ queue # << >>
  <1>3. /\ batch' = IF more THEN FirstBatch(queue) ELSE rest
        /\ queue' = IF more THEN AfterBatch(queue) ELSE queue
        /\ flusher' = IF rest = << >> /\ ~more THEN None ELSE flusher
        /\ stage' = [p \in Ops |->
                       IF rest = << >> /\ stage[p] = "flushing" /\ (p # flusher \/ ~more)
                       THEN "done" ELSE stage[p]]
        /\ running' = IF rest = << >> /\ running = "flushing" /\ (flusher # "stack" \/ ~more)
                      THEN "down" ELSE running
    BY DEF GoOn, GoOnWith
  <1>4. /\ batch \in Seq(Ops) /\ queue \in Seq(Ops) /\ Len(batch) <= BatchSize
        /\ Len(queue) <= MaxQueueSize
        /\ flusher \in Ops \cup {"timer", "stack", None} /\ (flusher = None <=> batch = << >>)
        /\ stage \in [Ops -> Stages] /\ running \in {"up", "flushing", "down"}
    BY DEF TypeOK, LineWaits
  <1>5. batch # << >> /\ o = Head(batch) /\ Line # << >> /\ Head(Line) = o
    BY LineType
  <1>6. /\ rest \in Seq(Ops) /\ Len(rest) <= BatchSize
        /\ Tail(Line) = rest \o queue
    <2>1. Len(batch) \in Nat /\ rest \in Seq(Ops) /\ Len(rest) = Len(batch) - 1
      BY <1>4, <1>5
    <2>2. BatchSize \in Nat
      BY LineType
    <2>3. Len(rest) <= BatchSize
      BY <1>4, <2>1, <2>2
    <2>4. /\ Len(queue) \in Nat /\ Len(batch) > 0 /\ Line \in Seq(Ops)
          /\ Len(Line) = Len(batch) + Len(queue) /\ Len(Line) > 0
      BY <1>4, <1>5 DEF Line
    <2>5. Tail(Line) \in Seq(Ops) /\ Len(Tail(Line)) = Len(batch) + Len(queue) - 1
      BY <2>4, <1>5
    <2>6. rest \o queue \in Seq(Ops) /\ Len(rest \o queue) = Len(batch) + Len(queue) - 1
      BY <2>1, <2>4, <1>4
    <2>7. ASSUME NEW i \in 1..Len(batch) + Len(queue) - 1 PROVE Tail(Line)[i] = (rest \o queue)[i]
      <3>1. Tail(Line)[i] = Line[i + 1]
        BY <2>4, <2>7
      <3>2. Line[i + 1] = IF i + 1 <= Len(batch) THEN batch[i + 1] ELSE queue[i + 1 - Len(batch)]
        BY <1>4, <2>4, <2>7 DEF Line
      <3>3. (rest \o queue)[i] = IF i <= Len(rest) THEN rest[i] ELSE queue[i - Len(rest)]
        BY <1>4, <2>1, <2>4, <2>7
      <3>4. i <= Len(rest) => rest[i] = batch[i + 1]
        BY <1>4, <1>5, <2>1, <2>7
      <3> QED BY <2>1, <2>4, <2>7, <3>1, <3>2, <3>3, <3>4
    <2>8. Tail(Line) = rest \o queue
      BY <2>5, <2>6, <2>7, SeqEqual
    <2> QED BY <2>1, <2>3, <2>8
  <1> HIDE DEF rest
  <1>7. ASSUME more
       PROVE /\ batch' \in Seq(Ops) /\ Len(batch') <= BatchSize
             /\ queue' \in Seq(Ops) /\ Len(queue') <= MaxQueueSize
             /\ batch' \o queue' = Tail(Line)
             /\ flusher' \in Ops \cup {"timer", "stack", None}
             /\ flusher' = None <=> batch' = << >>
    <2>1. rest = << >> /\ queue # << >> /\ batch' = FirstBatch(queue) /\ queue' = AfterBatch(queue)
          /\ flusher' = flusher
      BY <1>3, <1>7
    <2>2. /\ FirstBatch(queue) \in Seq(Ops) /\ AfterBatch(queue) \in Seq(Ops)
          /\ FirstBatch(queue) # << >> /\ Len(FirstBatch(queue)) <= BatchSize
          /\ Len(AfterBatch(queue)) <= Len(queue)
          /\ FirstBatch(queue) \o AfterBatch(queue) = queue
      BY <1>4, <2>1, LineType, SplitLine
    <2>3. rest \o queue = queue
      BY <1>4, <2>1, ConcatEmptySeq
    <2>4. Len(queue') <= MaxQueueSize
      <3>1. Len(AfterBatch(queue)) \in Nat /\ Len(queue) \in Nat /\ MaxQueueSize \in Nat
        BY <1>4, <2>2, LineType
      <3> QED BY <1>4, <2>1, <2>2, <3>1
    <2> QED BY <1>4, <1>5, <1>6, <2>1, <2>2, <2>3, <2>4
  <1>8. ASSUME ~more
       PROVE /\ batch' \in Seq(Ops) /\ Len(batch') <= BatchSize
             /\ queue' \in Seq(Ops) /\ Len(queue') <= MaxQueueSize
             /\ batch' \o queue' = Tail(Line)
             /\ flusher' \in Ops \cup {"timer", "stack", None}
             /\ flusher' = None <=> batch' = << >>
    <2>1. batch' = rest /\ queue' = queue /\ flusher' = IF rest = << >> THEN None ELSE flusher
      BY <1>3, <1>8
    <2> QED BY <1>4, <1>5, <1>6, <2>1
  <1>9. /\ batch' \in Seq(Ops) /\ Len(batch') <= BatchSize
        /\ queue' \in Seq(Ops) /\ Len(queue') <= MaxQueueSize
        /\ batch' \o queue' = Tail(Line)
        /\ flusher' \in Ops \cup {"timer", "stack", None}
        /\ flusher' = None <=> batch' = << >>
    BY <1>7, <1>8
  <1>10. /\ stage' \in [Ops -> Stages]
         /\ \A p \in Ops : stage'[p] = stage[p] \/ (stage[p] = "flushing" /\ stage'[p] = "done")
    BY <1>3, <1>4 DEF Stages
  <1>11. running' \in {"up", "flushing", "down"}
    BY <1>3, <1>4
  <1> QED BY <1>5, <1>9, <1>10, <1>11

-----------------------------------------------------------------------------
(* Fences.                                                                 *)

LEMMA SameFences ==
    ASSUME UNCHANGED <<epochVars, fence>>
    PROVE  /\ \A p \in Ops, k \in Keys :
                 (Outdated(p, k)' <=> Outdated(p, k)) /\ (Overtaken(p, k)' <=> Overtaken(p, k))
           /\ GoodTable(epochs) => GoodTable(epochs')
           /\ FencesBehind => FencesBehind'
  BY DEF epochVars, Outdated, Overtaken, IsWriteOutdated, CurrentKeyEpoch, CurrentFence,
         FencesBehind, NotAhead

\* What an invalidation has overtaken is outdated.
LEMMA OvertakenIsOutdated ==
    ASSUME Sound, NEW o \in Ops, NEW k \in Keys
    PROVE  /\ fence[o][k] \in Fences /\ barrier[k] \in Fences
           /\ Overtaken(o, k) => Outdated(o, k)
  <1>1. fence[o][k] \in Fences /\ barrier[k] \in Fences
    BY DEF Sound, TypeOK
  <1>2. NotAhead(barrier[k], k) /\ GoodTable(epochs)
    BY DEF Sound, FencesBehind
  <1> QED BY <1>1, <1>2, PrecededIsOutdated DEF Overtaken, Outdated

-----------------------------------------------------------------------------
(* Calls up to the queue.                                                  *)

LEMMA StartKeeps ==
    ASSUME WriteBehindInv, NEW o \in Ops, NEW K \in SUBSET Keys, Start(o, K)
    PROVE  WriteBehindInv'
  <1>1. /\ stage[o] = "idle" /\ order!Admit(Now(o), K)
        /\ stage' = [stage EXCEPT ![o] = "writing"]
        /\ fence' = [fence EXCEPT ![o] = [k \in Keys |-> IF k \in K THEN CurrentFence(k) ELSE NoFence]]
        /\ UNCHANGED <<epochVars, options, active, flushVars, local, remote, pend, running, failed,
                       refused>>
    BY DEF Start
  <1>2. Sound
    BY DEF WriteBehindInv
  <1>3. TypeOK /\ order!OrderTypeOK /\ GoodTable(epochs) /\ StagesMatch /\ LineWaits
        /\ ActiveWasCurrent /\ FencesBehind /\ LocalIsLast /\ order!OrderInv
    BY <1>2 DEF Sound, TypeOK
  <1>4. /\ order!OrderTypeOK' /\ order!OrderInv'
        /\ phase[Now(o)] = "idle" /\ phase'[Now(o)] = "queued" /\ keysOf'[Now(o)] = K
        /\ \A v \in Writes : v # Now(o) => phase'[v] = phase[v] /\ keysOf'[v] = keysOf[v]
    BY <1>1, <1>3, AdmitOrder, Names
  <1>5. /\ stage'[o] = "writing" /\ stage' \in [Ops -> Stages]
        /\ \A p \in Ops : p # o => stage'[p] = stage[p] /\ fence'[p] = fence[p]
    BY <1>1, <1>3 DEF TypeOK, Stages
  <1>6. fence'[o] \in [Keys -> Fences] /\ fence' \in [Ops -> [Keys -> Fences]]
        /\ \A k \in Keys : NotAhead(fence'[o][k], k)
    <2>1. \A k \in Keys : CurrentFence(k) \in Fences /\ ~Precedes(CurrentFence(k), CurrentFence(k))
      BY <1>3, CurrentFenceType
    <2>2. NoFence \in Fences /\ \A f \in Fences : ~Precedes(f, NoFence)
      BY DEF NoFence, Fences, Precedes
    <2>3. fence'[o] = [k \in Keys |-> IF k \in K THEN CurrentFence(k) ELSE NoFence]
      BY <1>1, <1>3 DEF TypeOK
    <2>4. fence'[o] \in [Keys -> Fences] /\ \A k \in Keys : NotAhead(fence'[o][k], k)
      BY <2>1, <2>2, <2>3 DEF NotAhead
    <2>5. fence' \in [Ops -> [Keys -> Fences]]
      BY <1>1, <1>3, <2>3, <2>4 DEF TypeOK
    <2> QED BY <2>4, <2>5
  <1>7. TypeOK'
    BY <1>1, <1>3, <1>4, <1>5, <1>6 DEF TypeOK, epochVars, flushVars, BatchSize, MaxQueueSize
  <1>8. /\ GoodTable(epochs') /\ epochs' = epochs /\ barrier' = barrier
        /\ Line' = Line /\ \A p, q \in Ops : (Waiting(p)' <=> Waiting(p)) /\ (AheadOf(q, p)' <=> AheadOf(q, p))
    BY <1>1, <1>3 DEF epochVars, flushVars, Line, Waiting, AheadOf
  <1>9. /\ active[Now(o)] = {} /\ phase[Later(o)] = "idle" /\ ~Waiting(o)
        /\ \A p \in Ops, k \in Keys : p # o =>
              (Outdated(p, k)' <=> Outdated(p, k)) /\ (Overtaken(p, k)' <=> Overtaken(p, k))
    BY <1>3, <1>4, <1>5, <1>8
    DEF StagesMatch, ActiveWasCurrent, LineWaits, Outdated, Overtaken, IsWriteOutdated, CurrentKeyEpoch
  <1>10. StagesMatch'
    BY <1>1, <1>3, <1>4, <1>5, <1>9, Names DEF StagesMatch, flushVars
  <1>11. LineWaits'
    BY <1>1, <1>3, <1>4, <1>8, <1>9, Names DEF LineWaits, flushVars
  <1>12. ActiveWasCurrent'
    <2> SUFFICES ASSUME NEW p \in Ops
                 PROVE /\ active'[Later(p)] \subseteq active'[Now(p)]
                       /\ active'[Now(p)] \subseteq keysOf'[Now(p)]
                       /\ \A w \in {Now(p), Later(p)} : phase'[w] \in {"idle", "queued"} => active'[w] = {}
                       /\ phase'[Now(p)] \in {"running", "done"} =>
                             \A k \in keysOf'[Now(p)] \ active'[Now(p)] : Outdated(p, k)'
      BY DEF ActiveWasCurrent
    <2>1. keysOf[Now(p)] \subseteq Keys
      BY <1>3, Names DEF order!OrderTypeOK
    <2> QED BY <1>1, <1>3, <1>4, <1>9, <2>1, Names DEF ActiveWasCurrent
  <1>13. FencesBehind'
    BY <1>3, <1>5, <1>6, <1>8 DEF FencesBehind, NotAhead, CurrentFence, CurrentKeyEpoch
  <1>14. LocalIsLast'
    <2>1. \A k \in Keys : local[k] # None => local[k] \in Ops /\ local[k] # o
      BY <1>3, <1>9 DEF LocalIsLast, TypeOK
    <2> QED BY <1>1, <1>3, <1>5, <1>9, <2>1 DEF LocalIsLast
  <1>15. SoundDelivery'
    <2> SUFFICES ASSUME ~failed PROVE LineInOrder' /\ RemoteFromRuns' /\ CurrentArrives'
      BY <1>1 DEF SoundDelivery
    <2>1. LineInOrder /\ RemoteFromRuns /\ CurrentArrives
      BY DEF WriteBehindInv, SoundDelivery
    <2>2. \A k \in Keys : /\ local[k] # None => local[k] \in Ops /\ local[k] # o
                          /\ remote[k] # None => remote[k] \in Ops /\ remote[k] # o
      BY <1>3, <1>9, <2>1 DEF LocalIsLast, TypeOK, RemoteFromRuns
    <2>3. LineInOrder'
      BY <1>1, <1>5, <1>8, <2>1, <2>2 DEF LineInOrder
    <2>4. RemoteFromRuns'
      BY <1>1, <1>4, <1>9, <2>1, <2>2, Names DEF RemoteFromRuns, Pending
    <2>5. CurrentArrives'
      BY <1>1, <1>4, <1>5, <1>8, <1>9, <2>1, <2>2, Names DEF CurrentArrives, Pending
    <2> QED BY <2>3, <2>4, <2>5
  <1> QED BY <1>4, <1>7, <1>8, <1>10, <1>11, <1>12, <1>13, <1>14, <1>15 DEF WriteBehindInv, Sound

LEMMA RunNowKeeps ==
    ASSUME WriteBehindInv, NEW o \in Ops, RunNow(o)
    PROVE  WriteBehindInv'
  <1> DEFINE C == Current(Now(o))
  <1>1. /\ stage[o] = "writing" /\ order!Begin(Now(o))
        /\ active' = [active EXCEPT ![Now(o)] = C]
        /\ local' = Put(local, C, o)
        /\ stage' = [stage EXCEPT ![o] = "checking"]
        /\ UNCHANGED <<epochVars, options, fence, flushVars, remote, pend, running, failed, refused>>
    BY DEF RunNow
  <1>2. Sound
    BY DEF WriteBehindInv
  <1>3. TypeOK /\ order!OrderTypeOK /\ GoodTable(epochs) /\ StagesMatch /\ LineWaits
        /\ ActiveWasCurrent /\ FencesBehind /\ LocalIsLast /\ order!OrderInv
    BY <1>2 DEF Sound, TypeOK
  <1>4. /\ order!OrderTypeOK' /\ order!OrderInv' /\ UNCHANGED keysOf
        /\ phase[Now(o)] = "queued" /\ phase'[Now(o)] = "running"
        /\ \A v \in Writes : v # Now(o) => phase'[v] = phase[v]
        /\ \A v \in Writes : v # Now(o) /\ phase[v] = "running" => keysOf[v] \cap keysOf[Now(o)] = {}
    BY <1>1, <1>3, BeginOrder, Names
  <1>5. /\ stage'[o] = "checking" /\ stage' \in [Ops -> Stages]
        /\ \A p \in Ops : p # o => stage'[p] = stage[p]
    BY <1>1, <1>3 DEF TypeOK, Stages
  <1>6. /\ \A k \in Keys : k \in C <=> k \in keysOf[Now(o)] /\ ~Outdated(o, k)
        /\ C \subseteq Keys /\ C \subseteq keysOf[Now(o)]
        /\ \A k \in keysOf[Now(o)] \ C : k \in Keys /\ Outdated(o, k)
    <2>1. keysOf[Now(o)] \subseteq Keys
      BY <1>3, Names DEF order!OrderTypeOK
    <2>2. C = {k \in keysOf[Now(o)] : ~Outdated(o, k)}
      BY DEF Current, Now
    <2> QED BY <2>1, <2>2
  <1> HIDE DEF C
  <1>7. /\ active' \in [Writes -> SUBSET Keys] /\ active'[Now(o)] = C
        /\ \A v \in Writes : v # Now(o) => active'[v] = active[v]
    BY <1>1, <1>3, <1>6, Names DEF TypeOK
  <1>8. /\ local' \in [Keys -> Ops \cup {None}]
        /\ \A k \in Keys : local'[k] = IF k \in C THEN o ELSE local[k]
    BY <1>1, <1>3 DEF TypeOK, Put
  <1>9. TypeOK'
    BY <1>1, <1>3, <1>4, <1>5, <1>7, <1>8 DEF TypeOK, epochVars, flushVars, BatchSize, MaxQueueSize
  <1>10. /\ Line' = Line /\ \A p, q \in Ops : (Waiting(p)' <=> Waiting(p)) /\ (AheadOf(q, p)' <=> AheadOf(q, p))
    BY <1>1 DEF flushVars, Line, Waiting, AheadOf
  <1>11. /\ \A p \in Ops, k \in Keys :
              (Outdated(p, k)' <=> Outdated(p, k)) /\ (Overtaken(p, k)' <=> Overtaken(p, k))
         /\ GoodTable(epochs') /\ FencesBehind'
    BY <1>1, <1>3, SameFences
  <1>12. active[Now(o)] = {} /\ active[Later(o)] = {} /\ phase[Later(o)] = "idle" /\ ~Waiting(o)
    BY <1>3, <1>4, <1>7 DEF StagesMatch, ActiveWasCurrent, LineWaits
  <1>13. StagesMatch'
    BY <1>1, <1>3, <1>4, <1>5, <1>12, Names DEF StagesMatch, flushVars
  <1>14. LineWaits'
    BY <1>1, <1>3, <1>4, <1>10, <1>12, Names DEF LineWaits, flushVars
  <1>15. ActiveWasCurrent'
    <2> SUFFICES ASSUME NEW p \in Ops
                 PROVE /\ active'[Later(p)] \subseteq active'[Now(p)]
                       /\ active'[Now(p)] \subseteq keysOf'[Now(p)]
                       /\ \A w \in {Now(p), Later(p)} : phase'[w] \in {"idle", "queued"} => active'[w] = {}
                       /\ phase'[Now(p)] \in {"running", "done"} =>
                             \A k \in keysOf'[Now(p)] \ active'[Now(p)] : Outdated(p, k)'
      BY DEF ActiveWasCurrent
    <2>1. keysOf[Now(p)] \subseteq Keys
      BY <1>3, Names DEF order!OrderTypeOK
    <2>2. CASE p = o
      BY <1>4, <1>6, <1>7, <1>11, <1>12, <2>1, <2>2, Names
    <2>3. CASE p # o
      BY <1>3, <1>4, <1>7, <1>11, <2>1, <2>3, Names DEF ActiveWasCurrent
    <2> QED BY <2>2, <2>3
  <1>16. \A p \in Ops, k \in Keys : p # o /\ k \in C /\ k \in active[Now(p)] => stage[p] # "checking"
    <2> SUFFICES ASSUME NEW p \in Ops, NEW k \in Keys, p # o, k \in C, k \in active[Now(p)],
                        stage[p] = "checking"
                 PROVE FALSE
      OBVIOUS
    <2>1. phase[Now(p)] = "running" /\ k \in keysOf[Now(p)] /\ Now(p) # Now(o)
      BY <1>3, Names DEF StagesMatch, ActiveWasCurrent
    <2> QED BY <1>4, <1>6, <2>1, Names
  <1>17. LocalIsLast'
    <2> SUFFICES ASSUME NEW k \in Keys
                 PROVE (/\ local[k] # None => k \in active[Now(local[k])] /\ ~Overtaken(local[k], k)
                        /\ \A p \in Ops : k \in active[Now(p)] =>
                              /\ stage[p] = "checking" => local[k] \in {p, None}
                              /\ ~Outdated(p, k) => local[k] # None /\ ~Outdated(local[k], k))'
      BY DEF LocalIsLast
    <2>1. o # None /\ (local[k] # None => local[k] \in Ops /\ local[k] # o)
      BY <1>3, <1>12, RemoteAssumption DEF LocalIsLast, TypeOK
    <2>2. CASE k \in C
      <3>1. ~Outdated(o, k) /\ ~Overtaken(o, k) /\ local'[k] = o
        BY <1>2, <1>6, <1>8, <2>2, OvertakenIsOutdated
      <3>2. \A p \in Ops : p # o => active'[Now(p)] = active[Now(p)]
        BY <1>7, Names
      <3> QED BY <1>5, <1>7, <1>11, <1>16, <2>1, <2>2, <3>1, <3>2
    <2>3. CASE k \notin C
      <3>1. local'[k] = local[k]
        BY <1>8, <2>3
      <3>2. \A p \in Ops : p # o => active'[Now(p)] = active[Now(p)]
        BY <1>7, Names
      <3> QED BY <1>3, <1>5, <1>7, <1>11, <2>1, <2>3, <3>1, <3>2 DEF LocalIsLast
    <2> QED BY <2>2, <2>3
  <1>18. SoundDelivery'
    <2> SUFFICES ASSUME ~failed PROVE LineInOrder' /\ RemoteFromRuns' /\ CurrentArrives'
      BY <1>1 DEF SoundDelivery
    <2>1. LineInOrder /\ RemoteFromRuns /\ CurrentArrives
      BY DEF WriteBehindInv, SoundDelivery
    <2>2. \A k \in Keys : /\ local[k] # None => local[k] \in Ops /\ local[k] # o
                          /\ remote[k] # None => remote[k] \in Ops /\ remote[k] # o
      BY <1>3, <1>12, <2>1 DEF LocalIsLast, TypeOK, RemoteFromRuns
    <2>3. LineInOrder'
      <3> SUFFICES ASSUME NEW k \in Keys, NEW p \in Ops, local'[k] \notin {None, p},
                          k \in active'[Now(p)], Waiting(p)'
                   PROVE  (stage[local[k]] = "checking" \/ AheadOf(p, local[k]) \/ local[k] \in refused)'
        BY DEF LineInOrder
      <3>1. CASE k \in C
        BY <1>5, <1>8, <3>1
      <3>2. CASE k \notin C
        <4>1. local'[k] = local[k] /\ p # o /\ active'[Now(p)] = active[Now(p)]
          BY <1>7, <1>8, <3>2, Names
        <4> QED BY <1>1, <1>5, <1>10, <2>1, <2>2, <4>1 DEF LineInOrder
      <3> QED BY <3>1, <3>2
    <2>4. RemoteFromRuns'
      BY <1>1, <1>4, <1>7, <1>11, <2>1, <2>2, Names DEF RemoteFromRuns, Pending
    <2>5. CurrentArrives'
      BY <1>1, <1>4, <1>5, <1>8, <1>10, <1>11, <2>1, <2>2, Names DEF CurrentArrives, Pending
    <2> QED BY <2>3, <2>4, <2>5
  <1> QED BY <1>4, <1>9, <1>11, <1>13, <1>14, <1>15, <1>17, <1>18 DEF WriteBehindInv, Sound

\* The operation goes to the end of the line, or is refused.
LEMMA EnqueueFacts ==
    ASSUME TypeOK, LineWaits, NEW o \in Ops, ~Waiting(o), Enqueue(o)
    PROVE  /\ batch' \in Seq(Ops) /\ Len(batch') <= BatchSize
           /\ queue' \in Seq(Ops) /\ Len(queue') <= MaxQueueSize
           /\ flusher' \in Ops \cup {"timer", "stack", None}
           /\ flusher' = None <=> batch' = << >>
           /\ batch # << >> => batch' = batch
           /\ stage' \in [Ops -> Stages] /\ stage'[o] \in {"flushing", "done"}
           /\ \A p \in Ops : p # o => stage'[p] = stage[p]
           /\ refused' \subseteq Ops /\ refused \subseteq refused'
           /\ IsLine(batch' \o queue')
           /\ batch' \o queue' = Append(Line, o) \/ (o \in refused' /\ batch' \o queue' = Line)
  <1> DEFINE q == Append(queue, o)
  <1>1. /\ batch \in Seq(Ops) /\ queue \in Seq(Ops) /\ Len(batch) <= BatchSize
        /\ Len(queue) <= MaxQueueSize /\ stage \in [Ops -> Stages] /\ refused \subseteq Ops
        /\ flusher \in Ops \cup {"timer", "stack", None} /\ (flusher = None <=> batch = << >>)
        /\ IsLine(Line) /\ MaxQueueSize \in Nat
    BY LineType DEF TypeOK, LineWaits
  <1>2. IsLine(Append(Line, o))
    BY <1>1, AppendLine DEF Waiting
  <1>3. q \in Seq(Ops) /\ Len(q) = Len(queue) + 1 /\ batch \o q = Append(Line, o)
    BY <1>1, QueueOneMore DEF Line
  <1>4. /\ (\E s \in {"flushing", "done"} : stage' = [stage EXCEPT ![o] = s])
             => /\ stage' \in [Ops -> Stages] /\ stage'[o] \in {"flushing", "done"}
                /\ \A p \in Ops : p # o => stage'[p] = stage[p]
    BY <1>1 DEF Stages
  <1>5. CASE Len(queue) >= MaxQueueSize
    <2>1. /\ refused' = refused \cup {o} /\ stage' = [stage EXCEPT ![o] = "done"]
          /\ UNCHANGED flushVars
      BY <1>5 DEF Enqueue
    <2> QED BY <1>1, <1>4, <2>1 DEF flushVars, Line
  <1>6. CASE ~(Len(queue) >= MaxQueueSize)
    <2>1. Len(q) <= MaxQueueSize
      <3>1. Len(queue) \in Nat
        BY <1>1
      <3> QED BY <1>1, <1>3, <1>6, <3>1
    <2>2. refused' = refused
      BY <1>6 DEF Enqueue
    <2>3. CASE Len(q) >= MaxQueueSize \/ Len(q) >= BatchSize
      <3>1. FlushFrom(o, q) /\ stage' = [stage EXCEPT ![o] = "flushing"]
        BY <1>6, <2>3 DEF Enqueue
      <3> HIDE DEF q
      <3>2. /\ batch' \in Seq(Ops) /\ Len(batch') <= BatchSize
            /\ queue' \in Seq(Ops) /\ Len(queue') <= MaxQueueSize
            /\ batch' \o queue' = batch \o q
            /\ flusher' \in Ops \cup {"timer", "stack", None}
            /\ flusher' = None <=> batch' = << >>
            /\ batch # << >> => batch' = batch
        BY <1>3, <2>1, <3>1, FlushFacts
      <3> QED BY <1>1, <1>2, <1>3, <1>4, <2>2, <3>1, <3>2
    <2>4. CASE ~(Len(q) >= MaxQueueSize \/ Len(q) >= BatchSize)
      <3>1. queue' = q /\ batch' = batch /\ flusher' = flusher /\ stage' = [stage EXCEPT ![o] = "done"]
        BY <1>6, <2>4 DEF Enqueue
      <3> HIDE DEF q
      <3> QED BY <1>1, <1>2, <1>3, <1>4, <2>1, <2>2, <3>1
    <2> QED BY <2>3, <2>4
  <1> QED BY <1>5, <1>6

LEMMA EndNowKeeps ==
    ASSUME WriteBehindInv, NEW o \in Ops, EndNow(o)
    PROVE  WriteBehindInv'
  <1> DEFINE C == Stale(Now(o))
  <1>1. /\ stage[o] = "checking" /\ local' = Put(local, C, None)
        /\ order!Settle(Now(o)) /\ Enqueue(o)
        /\ UNCHANGED <<epochVars, options, fence, active, remote, pend, running, failed>>
    BY DEF EndNow
  <1>2. Sound
    BY DEF WriteBehindInv
  <1>3. TypeOK /\ order!OrderTypeOK /\ GoodTable(epochs) /\ StagesMatch /\ LineWaits
        /\ ActiveWasCurrent /\ FencesBehind /\ LocalIsLast /\ order!OrderInv
    BY <1>2 DEF Sound, TypeOK
  <1>4. /\ order!OrderTypeOK' /\ order!OrderInv' /\ UNCHANGED keysOf
        /\ phase[Now(o)] = "running" /\ phase'[Now(o)] = "done"
        /\ \A v \in Writes : v # Now(o) => phase'[v] = phase[v]
    BY <1>1, <1>3, SettleOrder, Names
  <1>5. \A k \in Keys : k \in C <=> k \in active[Now(o)] /\ Outdated(o, k)
    <2>1. C = {k \in active[Now(o)] : Outdated(o, k)}
      BY DEF Stale, Now
    <2> QED BY <2>1
  <1> HIDE DEF C
  <1>6. ~Waiting(o) /\ phase[Later(o)] = "idle"
    BY <1>3, <1>4, Names DEF LineWaits, StagesMatch
  <1>7. /\ batch' \in Seq(Ops) /\ Len(batch') <= BatchSize
        /\ queue' \in Seq(Ops) /\ Len(queue') <= MaxQueueSize
        /\ flusher' \in Ops \cup {"timer", "stack", None}
        /\ flusher' = None <=> batch' = << >>
        /\ batch # << >> => batch' = batch
        /\ stage' \in [Ops -> Stages] /\ stage'[o] \in {"flushing", "done"}
        /\ \A p \in Ops : p # o => stage'[p] = stage[p]
        /\ refused' \subseteq Ops /\ refused \subseteq refused'
        /\ IsLine(batch' \o queue')
        /\ batch' \o queue' = Append(Line, o) \/ (o \in refused' /\ batch' \o queue' = Line)
    BY <1>1, <1>3, <1>6, EnqueueFacts
  <1>8. /\ local' \in [Keys -> Ops \cup {None}]
        /\ \A k \in Keys : local'[k] = IF k \in C THEN None ELSE local[k]
    BY <1>1, <1>3 DEF TypeOK, Put
  <1>9. TypeOK'
    BY <1>1, <1>3, <1>4, <1>7, <1>8 DEF TypeOK, IsLine, epochVars, BatchSize, MaxQueueSize
  <1>10. IsLine(Line) /\ Line' = batch' \o queue' /\ IsLine(Line')
    BY <1>3, <1>7, LineType DEF Line
  <1>11. /\ \A p \in Ops : Waiting(p)' => p = o \/ Waiting(p)
         /\ \A p \in Ops : Waiting(p) => Waiting(p)'
         /\ \A p, q \in Ops : AheadOf(p, q) => AheadOf(p, q)'
         /\ \/ o \in refused'
            \/ Waiting(o)' /\ \A p \in Ops : Waiting(p) => AheadOf(p, o)'
    <2>1. CASE Line' = Line /\ o \in refused'
      BY <2>1 DEF Waiting, AheadOf
    <2>2. CASE Line' = Append(Line, o)
      BY <1>6, <1>10, <2>2, AppendLine DEF Waiting, AheadOf
    <2> QED BY <1>7, <1>10, <2>1, <2>2
  <1>12. /\ \A p \in Ops, k \in Keys :
              (Outdated(p, k)' <=> Outdated(p, k)) /\ (Overtaken(p, k)' <=> Overtaken(p, k))
         /\ GoodTable(epochs') /\ FencesBehind'
    BY <1>1, <1>3, SameFences
  <1>13. StagesMatch'
    BY <1>1, <1>3, <1>4, <1>6, <1>7, Names DEF StagesMatch
  <1>14. LineWaits'
    <2>1. \A p \in Ops : Waiting(p)' => p = o \/ Waiting(p)
      BY <1>11
    <2> QED BY <1>3, <1>4, <1>6, <1>7, <2>1, Names DEF LineWaits
  <1>15. ActiveWasCurrent'
    <2>1. \A p \in Ops : keysOf[Now(p)] \subseteq Keys
      BY <1>3, Names DEF order!OrderTypeOK
    <2> QED BY <1>1, <1>3, <1>4, <1>12, <2>1, Names DEF ActiveWasCurrent
  <1>16. \A k \in Keys : k \in C => local[k] \in {o, None}
    BY <1>1, <1>3, <1>5 DEF LocalIsLast
  <1>17. LocalIsLast'
    <2> SUFFICES ASSUME NEW k \in Keys
                 PROVE (/\ local[k] # None => k \in active[Now(local[k])] /\ ~Overtaken(local[k], k)
                        /\ \A p \in Ops : k \in active[Now(p)] =>
                              /\ stage[p] = "checking" => local[k] \in {p, None}
                              /\ ~Outdated(p, k) => local[k] # None /\ ~Outdated(local[k], k))'
      BY DEF LocalIsLast
    <2>1. local[k] # None => local[k] \in Ops
      BY <1>3 DEF TypeOK
    <2>2. CASE k \in C
      <3>1. \A p \in Ops : k \in active[Now(p)] => Outdated(p, k)
        BY <1>3, <1>5, <1>16, <2>2 DEF LocalIsLast
      <3> QED BY <1>1, <1>8, <1>12, <2>2, <3>1
    <2>3. CASE k \notin C
      <3>1. local'[k] = local[k]
        BY <1>8, <2>3
      <3> QED BY <1>1, <1>3, <1>7, <1>12, <2>1, <3>1 DEF LocalIsLast
    <2> QED BY <2>2, <2>3
  <1>18. SoundDelivery'
    <2> SUFFICES ASSUME ~failed PROVE LineInOrder' /\ RemoteFromRuns' /\ CurrentArrives'
      BY <1>1 DEF SoundDelivery
    <2>1. LineInOrder /\ RemoteFromRuns /\ CurrentArrives
      BY DEF WriteBehindInv, SoundDelivery
    <2>2. \A k \in Keys : /\ local[k] # None => local[k] \in Ops
                          /\ remote[k] # None => remote[k] \in Ops
      BY <1>3 DEF TypeOK
    <2>3. LineInOrder'
      <3> SUFFICES ASSUME NEW k \in Keys, NEW p \in Ops, local'[k] \notin {None, p},
                          k \in active'[Now(p)], Waiting(p)'
                   PROVE  (stage[local[k]] = "checking" \/ AheadOf(p, local[k]) \/ local[k] \in refused)'
        BY DEF LineInOrder
      <3>1. local'[k] = local[k] /\ k \in active[Now(p)] /\ local[k] \in Ops
        BY <1>1, <1>8, <2>2
      <3>2. p # local[k] /\ (p = o \/ Waiting(p))
        <4>1. \A q \in Ops : Waiting(q)' => q = o \/ Waiting(q)
          BY <1>11
        <4> QED BY <3>1, <4>1
      <3>3. CASE p = o
        BY <1>1, <1>3, <3>1, <3>2, <3>3 DEF LocalIsLast
      <3>4. CASE p # o /\ local[k] = o
        BY <1>11, <3>1, <3>2, <3>4 DEF AheadOf
      <3>5. CASE p # o /\ local[k] # o
        <4>1. stage[local[k]] = "checking" \/ AheadOf(p, local[k]) \/ local[k] \in refused
          BY <2>1, <3>1, <3>2, <3>5 DEF LineInOrder
        <4> QED BY <1>7, <1>11, <3>1, <3>5, <4>1
      <3> QED BY <3>3, <3>4, <3>5
    <2>4. RemoteFromRuns'
      BY <1>1, <1>4, <1>12, <2>1, <2>2, Names DEF RemoteFromRuns, Pending
    <2>5. CurrentArrives'
      <3> SUFFICES ASSUME NEW k \in Keys,
                          (local[k] # None /\ ~Outdated(local[k], k) /\ remote[k] \notin {None, local[k]})'
                   PROVE  (\/ stage[local[k]] = "checking"
                           \/ Waiting(local[k]) /\ phase[Later(local[k])] \in {"idle", "queued"}
                           \/ Pending(local[k], k, "set")
                           \/ local[k] \in refused)'
        BY DEF CurrentArrives
      <3>1. local'[k] = local[k] /\ local[k] \in Ops /\ remote'[k] = remote[k]
        BY <1>1, <1>8, <2>2
      <3>2. \/ stage[local[k]] = "checking"
            \/ Waiting(local[k]) /\ phase[Later(local[k])] \in {"idle", "queued"}
            \/ Pending(local[k], k, "set")
            \/ local[k] \in refused
        BY <1>12, <2>1, <3>1 DEF CurrentArrives
      <3>3. CASE local[k] = o
        BY <1>4, <1>6, <1>11, <3>1, <3>3, Names
      <3>4. CASE local[k] # o
        BY <1>1, <1>4, <1>7, <1>11, <3>1, <3>2, <3>4, Names DEF Pending
      <3> QED BY <3>3, <3>4
    <2> QED BY <2>3, <2>4, <2>5
  <1> QED BY <1>4, <1>9, <1>12, <1>13, <1>14, <1>15, <1>17, <1>18 DEF WriteBehindInv, Sound

-----------------------------------------------------------------------------
(* The batch.                                                              *)

LEMMA AdmitLaterKeeps ==
    ASSUME WriteBehindInv, AdmitLater
    PROVE  WriteBehindInv'
  <1>2. Sound
    BY DEF WriteBehindInv
  <1>3. TypeOK /\ order!OrderTypeOK /\ GoodTable(epochs) /\ StagesMatch /\ LineWaits
        /\ ActiveWasCurrent /\ FencesBehind /\ LocalIsLast /\ order!OrderInv
    BY <1>2 DEF Sound, TypeOK
  <1> DEFINE h == Head(batch)
  <1>1. /\ batch # << >> /\ order!Admit(Later(h), keysOf[Now(h)])
        /\ UNCHANGED <<epochVars, stage, options, fence, active, flushVars, local, remote, pend,
                       running, failed, refused>>
    BY DEF AdmitLater
  <1>4. h \in Ops /\ Waiting(h)
    <2>1. IsLine(Line) /\ Line # << >> /\ Head(Line) = h
      BY <1>1, <1>3, LineType
    <2>2. 1 \in DOMAIN Line /\ Line[1] = h /\ h \in Ops
      BY <2>1 DEF IsLine
    <2> QED BY <2>2 DEF Waiting, Occurs
  <1>5. PICK o \in Ops : o = h
    BY <1>4
  <1> HIDE DEF h
  <1>6. /\ phase[Now(o)] = "done" /\ keysOf[Now(o)] \subseteq Keys
    BY <1>3, <1>4, <1>5, Names DEF LineWaits, order!OrderTypeOK
  <1>7. /\ order!OrderTypeOK' /\ order!OrderInv'
        /\ phase[Later(o)] = "idle" /\ phase'[Later(o)] = "queued" /\ keysOf'[Later(o)] = keysOf[Now(o)]
        /\ \A v \in Writes : v # Later(o) => phase'[v] = phase[v] /\ keysOf'[v] = keysOf[v]
    BY <1>1, <1>3, <1>5, <1>6, AdmitOrder, Names
  <1>8. TypeOK'
    BY <1>1, <1>3, <1>7 DEF TypeOK, epochVars, flushVars, BatchSize, MaxQueueSize
  <1>10. /\ Line' = Line /\ \A p, q \in Ops : (Waiting(p)' <=> Waiting(p)) /\ (AheadOf(q, p)' <=> AheadOf(q, p))
    BY <1>1 DEF flushVars, Line, Waiting, AheadOf
  <1>11. /\ \A p \in Ops, k \in Keys :
              (Outdated(p, k)' <=> Outdated(p, k)) /\ (Overtaken(p, k)' <=> Overtaken(p, k))
         /\ GoodTable(epochs') /\ FencesBehind'
    BY <1>1, <1>3, SameFences
  <1>13. StagesMatch'
    BY <1>1, <1>3, <1>5, <1>6, <1>7, Names DEF StagesMatch, flushVars, h
  <1>14. LineWaits'
    BY <1>1, <1>3, <1>7, <1>10, Names DEF LineWaits, flushVars
  <1>15. ActiveWasCurrent'
    <2>1. \A p \in Ops : keysOf[Now(p)] \subseteq Keys /\ keysOf'[Now(p)] = keysOf[Now(p)] /\ phase'[Now(p)] = phase[Now(p)]
      BY <1>3, <1>7, Names DEF order!OrderTypeOK
    <2>2. \A p \in Ops : phase'[Later(p)] \in {"idle", "queued"} => phase[Later(p)] \in {"idle", "queued"}
      BY <1>7, Names
    <2> QED BY <1>1, <1>3, <1>11, <2>1, <2>2 DEF ActiveWasCurrent
  <1>17. LocalIsLast'
    <2>1. \A k \in Keys : local[k] # None => local[k] \in Ops
      BY <1>3 DEF TypeOK
    <2> QED BY <1>1, <1>3, <1>11, <2>1 DEF LocalIsLast
  <1>18. SoundDelivery'
    <2> SUFFICES ASSUME ~failed PROVE LineInOrder' /\ RemoteFromRuns' /\ CurrentArrives'
      BY <1>1 DEF SoundDelivery
    <2>1. LineInOrder /\ RemoteFromRuns /\ CurrentArrives
      BY DEF WriteBehindInv, SoundDelivery
    <2>2. \A k \in Keys : /\ local[k] # None => local[k] \in Ops
                          /\ remote[k] # None => remote[k] \in Ops /\ remote[k] # o
      BY <1>3, <1>7, <2>1 DEF TypeOK, RemoteFromRuns
    <2>3. LineInOrder'
      BY <1>1, <1>10, <2>1, <2>2 DEF LineInOrder
    <2>4. RemoteFromRuns'
      BY <1>1, <1>7, <1>11, <2>1, <2>2, Names DEF RemoteFromRuns, Pending
    <2>5. CurrentArrives'
      BY <1>1, <1>7, <1>10, <1>11, <2>1, <2>2, Names DEF CurrentArrives, Pending
    <2> QED BY <2>3, <2>4, <2>5
  <1> QED BY <1>7, <1>8, <1>11, <1>13, <1>14, <1>15, <1>17, <1>18 DEF WriteBehindInv, Sound

LEMMA RunLaterKeeps ==
    ASSUME WriteBehindInv, NEW o \in Ops, RunLater(o)
    PROVE  WriteBehindInv'
  <1> DEFINE C == Current(Later(o))
  <1>1. /\ order!Begin(Later(o))
        /\ active' = [active EXCEPT ![Later(o)] = C]
        /\ pend' = pend \cup Commands(o, C, "set")
        /\ UNCHANGED <<epochVars, stage, options, fence, flushVars, local, remote, running, failed,
                       refused>>
    BY DEF RunLater
  <1>2. Sound
    BY DEF WriteBehindInv
  <1>3. TypeOK /\ order!OrderTypeOK /\ GoodTable(epochs) /\ StagesMatch /\ LineWaits
        /\ ActiveWasCurrent /\ FencesBehind /\ LocalIsLast /\ order!OrderInv
    BY <1>2 DEF Sound, TypeOK
  <1>4. /\ order!OrderTypeOK' /\ order!OrderInv' /\ UNCHANGED keysOf
        /\ phase[Later(o)] = "queued" /\ phase'[Later(o)] = "running"
        /\ \A v \in Writes : v # Later(o) => phase'[v] = phase[v]
    BY <1>1, <1>3, BeginOrder, Names
  <1>5. keysOf[Later(o)] = keysOf[Now(o)] /\ phase[Now(o)] = "done" /\ keysOf[Now(o)] \subseteq Keys
    BY <1>3, <1>4, Names DEF StagesMatch, order!OrderTypeOK
  <1>6. C \subseteq Keys /\ \A k \in Keys : k \in C <=> k \in keysOf[Now(o)] /\ ~Outdated(o, k)
    <2>1. C = {k \in keysOf[Later(o)] : ~Outdated(o, k)}
      BY DEF Current, Later
    <2> QED BY <1>5, <2>1
  <1> HIDE DEF C
  <1>7. /\ active' \in [Writes -> SUBSET Keys] /\ active'[Later(o)] = C
        /\ \A v \in Writes : v # Later(o) => active'[v] = active[v]
    BY <1>1, <1>3, <1>6, Names DEF TypeOK
  <1>8. /\ pend' \subseteq [by : Ops, key : Keys, kind : {"set", "clean", "delete"}]
        /\ \A p \in Ops, k \in Keys :
              /\ Pending(p, k, "set")' <=> Pending(p, k, "set") \/ (p = o /\ k \in C)
              /\ Pending(p, k, "clean")' <=> Pending(p, k, "clean")
              /\ Pending(p, k, "delete")' <=> Pending(p, k, "delete")
    <2>1. Commands(o, C, "set") \subseteq [by : Ops, key : Keys, kind : {"set", "clean", "delete"}]
      BY <1>6 DEF Commands
    <2>2. \A p \in Ops, k \in Keys, d \in {"set", "clean", "delete"} :
             [by |-> p, key |-> k, kind |-> d] \in Commands(o, C, "set") <=> p = o /\ k \in C /\ d = "set"
      BY DEF Commands
    <2> QED BY <1>1, <1>3, <2>1, <2>2 DEF TypeOK, Pending
  <1>9. TypeOK'
    BY <1>1, <1>3, <1>4, <1>7, <1>8 DEF TypeOK, epochVars, flushVars, BatchSize, MaxQueueSize
  <1>10. /\ Line' = Line /\ \A p, q \in Ops : (Waiting(p)' <=> Waiting(p)) /\ (AheadOf(q, p)' <=> AheadOf(q, p))
    BY <1>1 DEF flushVars, Line, Waiting, AheadOf
  <1>11. /\ \A p \in Ops, k \in Keys :
              (Outdated(p, k)' <=> Outdated(p, k)) /\ (Overtaken(p, k)' <=> Overtaken(p, k))
         /\ GoodTable(epochs') /\ FencesBehind'
    BY <1>1, <1>3, SameFences
  <1>13. StagesMatch'
    BY <1>1, <1>3, <1>4, Names DEF StagesMatch, flushVars
  <1>14. LineWaits'
    BY <1>1, <1>3, <1>4, <1>10, Names DEF LineWaits, flushVars
  <1>15. ActiveWasCurrent'
    <2>1. \A p \in Ops : /\ keysOf[Now(p)] \subseteq Keys /\ phase'[Now(p)] = phase[Now(p)]
                         /\ active'[Now(p)] = active[Now(p)]
      BY <1>3, <1>4, <1>7, Names DEF order!OrderTypeOK
    <2>2. C \subseteq active[Now(o)]
      BY <1>3, <1>5, <1>6 DEF ActiveWasCurrent
    <2>3. \A p \in Ops : p # o => phase'[Later(p)] = phase[Later(p)] /\ active'[Later(p)] = active[Later(p)]
      BY <1>4, <1>7, Names
    <2> QED BY <1>3, <1>4, <1>7, <1>11, <2>1, <2>2, <2>3 DEF ActiveWasCurrent
  <1>17. LocalIsLast'
    <2>1. \A k \in Keys : local[k] # None => local[k] \in Ops
      BY <1>3 DEF TypeOK
    <2>2. \A p \in Ops : active'[Now(p)] = active[Now(p)]
      BY <1>7, Names
    <2> QED BY <1>1, <1>3, <1>11, <2>1, <2>2 DEF LocalIsLast
  <1>18. SoundDelivery'
    <2> SUFFICES ASSUME ~failed PROVE LineInOrder' /\ RemoteFromRuns' /\ CurrentArrives'
      BY <1>1 DEF SoundDelivery
    <2>1. LineInOrder /\ RemoteFromRuns /\ CurrentArrives
      BY DEF WriteBehindInv, SoundDelivery
    <2>2. /\ \A k \in Keys : /\ local[k] # None => local[k] \in Ops
                             /\ remote[k] # None => remote[k] \in Ops /\ remote[k] # o
          /\ \A p \in Ops : active'[Now(p)] = active[Now(p)]
          /\ \A p \in Ops : p # o => phase'[Later(p)] = phase[Later(p)] /\ active'[Later(p)] = active[Later(p)]
      BY <1>3, <1>4, <1>7, <2>1, Names DEF TypeOK, RemoteFromRuns
    <2>3. LineInOrder'
      BY <1>1, <1>10, <2>1, <2>2 DEF LineInOrder
    <2>4. RemoteFromRuns'
      BY <1>1, <1>4, <1>7, <1>8, <1>11, <2>1, <2>2 DEF RemoteFromRuns
    <2>5. CurrentArrives'
      <3> SUFFICES ASSUME NEW k \in Keys,
                          (local[k] # None /\ ~Outdated(local[k], k) /\ remote[k] \notin {None, local[k]})'
                   PROVE  (\/ stage[local[k]] = "checking"
                           \/ Waiting(local[k]) /\ phase[Later(local[k])] \in {"idle", "queued"}
                           \/ Pending(local[k], k, "set")
                           \/ local[k] \in refused)'
        BY DEF CurrentArrives
      <3>1. local'[k] = local[k] /\ local[k] \in Ops /\ remote'[k] = remote[k] /\ ~Outdated(local[k], k)
        BY <1>1, <1>11, <2>2
      <3>2. \/ stage[local[k]] = "checking"
            \/ Waiting(local[k]) /\ phase[Later(local[k])] \in {"idle", "queued"}
            \/ Pending(local[k], k, "set")
            \/ local[k] \in refused
        BY <2>1, <3>1 DEF CurrentArrives
      <3>3. CASE local[k] = o
        <4>1. k \in active[Now(o)] /\ k \in keysOf[Now(o)]
          BY <1>3, <3>1, <3>3 DEF LocalIsLast, ActiveWasCurrent
        <4>2. Pending(o, k, "set")'
          BY <1>6, <1>8, <3>1, <3>3, <4>1
        <4> QED BY <3>1, <3>3, <4>2 DEF Pending
      <3>4. CASE local[k] # o
        BY <1>1, <1>8, <1>10, <2>2, <3>1, <3>2, <3>4
      <3> QED BY <3>3, <3>4
    <2> QED BY <2>3, <2>4, <2>5
  <1> QED BY <1>4, <1>9, <1>11, <1>13, <1>14, <1>15, <1>17, <1>18 DEF WriteBehindInv, Sound

LEMMA CleanLaterKeeps ==
    ASSUME WriteBehindInv, NEW o \in Ops, CleanLater(o)
    PROVE  WriteBehindInv'
  <1> DEFINE C == Stale(Later(o))
  <1>1. /\ phase[Later(o)] = "running" /\ Answered(o)
        /\ pend' = pend \cup Commands(o, C, "clean")
        /\ active' = [active EXCEPT ![Later(o)] = @ \ C]
        /\ UNCHANGED <<epochVars, chainVars, stage, options, fence, flushVars, local, remote,
                       running, failed, refused>>
    BY DEF CleanLater
  <1>2. Sound
    BY DEF WriteBehindInv
  <1>3. TypeOK /\ order!OrderTypeOK /\ GoodTable(epochs) /\ StagesMatch /\ LineWaits
        /\ ActiveWasCurrent /\ FencesBehind /\ LocalIsLast /\ order!OrderInv
    BY <1>2 DEF Sound, TypeOK
  <1>4. order!OrderTypeOK' /\ order!OrderInv' /\ keysOf' = keysOf /\ phase' = phase
    BY <1>1, <1>3, SameOrder DEF chainVars
  <1>5. active[Later(o)] \subseteq Keys /\ C \subseteq Keys
        /\ \A k \in Keys : k \in C <=> k \in active[Later(o)] /\ Outdated(o, k)
    <2>1. C = {k \in active[Later(o)] : Outdated(o, k)}
      BY DEF Stale, Later
    <2> QED BY <1>3, <2>1, Names DEF TypeOK
  <1> HIDE DEF C
  <1>7. /\ active' \in [Writes -> SUBSET Keys] /\ active'[Later(o)] = active[Later(o)] \ C
        /\ \A v \in Writes : v # Later(o) => active'[v] = active[v]
    BY <1>1, <1>3, <1>5, Names DEF TypeOK
  <1>8. /\ pend' \subseteq [by : Ops, key : Keys, kind : {"set", "clean", "delete"}]
        /\ \A p \in Ops, k \in Keys :
              /\ Pending(p, k, "set")' <=> Pending(p, k, "set")
              /\ Pending(p, k, "clean")' <=> Pending(p, k, "clean") \/ (p = o /\ k \in C)
              /\ Pending(p, k, "delete")' <=> Pending(p, k, "delete")
              /\ p = o => ~Pending(p, k, "set")
    <2>1. Commands(o, C, "clean") \subseteq [by : Ops, key : Keys, kind : {"set", "clean", "delete"}]
      BY <1>5 DEF Commands
    <2>2. \A p \in Ops, k \in Keys, d \in {"set", "clean", "delete"} :
             [by |-> p, key |-> k, kind |-> d] \in Commands(o, C, "clean") <=> p = o /\ k \in C /\ d = "clean"
      BY DEF Commands
    <2> QED BY <1>1, <1>3, <2>1, <2>2 DEF TypeOK, Pending, Answered
  <1>9. TypeOK'
    BY <1>1, <1>3, <1>4, <1>7, <1>8 DEF TypeOK, epochVars, flushVars, BatchSize, MaxQueueSize
  <1>10. /\ Line' = Line /\ \A p, q \in Ops : (Waiting(p)' <=> Waiting(p)) /\ (AheadOf(q, p)' <=> AheadOf(q, p))
    BY <1>1 DEF flushVars, Line, Waiting, AheadOf
  <1>11. /\ \A p \in Ops, k \in Keys :
              (Outdated(p, k)' <=> Outdated(p, k)) /\ (Overtaken(p, k)' <=> Overtaken(p, k))
         /\ GoodTable(epochs') /\ FencesBehind'
    BY <1>1, <1>3, SameFences
  <1>12. \A p \in Ops : /\ active'[Now(p)] = active[Now(p)]
                        /\ p # o => active'[Later(p)] = active[Later(p)]
    BY <1>7, Names
  <1>13. StagesMatch'
    BY <1>1, <1>3, <1>4 DEF StagesMatch, flushVars
  <1>14. LineWaits'
    BY <1>1, <1>3, <1>4, <1>10 DEF LineWaits, flushVars
  <1>15. ActiveWasCurrent'
    <2>1. \A p \in Ops : keysOf[Now(p)] \subseteq Keys
      BY <1>3, Names DEF order!OrderTypeOK
    <2>2. \A p \in Ops : active'[Later(p)] \subseteq active[Later(p)]
      BY <1>7, <1>12
    <2> QED BY <1>1, <1>3, <1>4, <1>11, <1>12, <2>1, <2>2 DEF ActiveWasCurrent
  <1>17. LocalIsLast'
    <2>1. \A k \in Keys : local[k] # None => local[k] \in Ops
      BY <1>3 DEF TypeOK
    <2> QED BY <1>1, <1>3, <1>11, <1>12, <2>1 DEF LocalIsLast
  <1>18. SoundDelivery'
    <2> SUFFICES ASSUME ~failed PROVE LineInOrder' /\ RemoteFromRuns' /\ CurrentArrives'
      BY <1>1 DEF SoundDelivery
    <2>1. LineInOrder /\ RemoteFromRuns /\ CurrentArrives
      BY DEF WriteBehindInv, SoundDelivery
    <2>2. \A k \in Keys : /\ local[k] # None => local[k] \in Ops
                          /\ remote[k] # None => remote[k] \in Ops
      BY <1>3 DEF TypeOK
    <2>3. LineInOrder'
      BY <1>1, <1>10, <1>12, <2>1, <2>2 DEF LineInOrder
    <2>4. RemoteFromRuns'
      <3>1. \A k \in Keys : k \in active[Later(o)] /\ Overtaken(o, k) => Pending(o, k, "clean")'
        BY <1>2, <1>5, <1>8, OvertakenIsOutdated
      <3> QED BY <1>1, <1>4, <1>8, <1>11, <1>12, <2>1, <2>2, <3>1 DEF RemoteFromRuns
    <2>5. CurrentArrives'
      BY <1>1, <1>4, <1>8, <1>10, <1>11, <2>1, <2>2 DEF CurrentArrives
    <2> QED BY <2>3, <2>4, <2>5
  <1> QED BY <1>4, <1>9, <1>11, <1>13, <1>14, <1>15, <1>17, <1>18 DEF WriteBehindInv, Sound

\* The batch goes on, its first operation has ended or was refused: what holds
\* whatever fails.
LEMMA GoOnSound ==
    ASSUME Sound, NEW o \in Ops, batch # << >>, o = Head(batch), GoOn,
           order!OrderTypeOK', order!OrderInv', UNCHANGED keysOf,
           \/ phase[Later(o)] = "running" /\ phase'[Later(o)] = "done"
           \/ phase[Later(o)] = "idle" /\ phase'[Later(o)] = "idle",
           \A v \in Writes : v # Later(o) => phase'[v] = phase[v],
           UNCHANGED <<epochVars, options, fence, active, local>>,
           remote' \in [Keys -> Ops \cup {None}], failed' \in BOOLEAN, refused' \subseteq Ops,
           pend' \subseteq [by : Ops, key : Keys, kind : {"set", "clean", "delete"}]
    PROVE  /\ Sound'
           /\ \A p \in Ops : /\ Waiting(p)' <=> p # o /\ Waiting(p)
                             /\ p # o => phase'[Later(p)] = phase[Later(p)]
                             /\ stage'[p] = stage[p] \/ (stage[p] = "flushing" /\ stage'[p] = "done")
           /\ \A p, q \in Ops : p # o /\ AheadOf(p, q) => AheadOf(p, q)'
  <1>3. TypeOK /\ order!OrderTypeOK /\ GoodTable(epochs) /\ StagesMatch /\ LineWaits
        /\ ActiveWasCurrent /\ FencesBehind /\ LocalIsLast /\ order!OrderInv
    BY DEF Sound, TypeOK
  <1>4. /\ batch' \in Seq(Ops) /\ Len(batch') <= BatchSize
        /\ queue' \in Seq(Ops) /\ Len(queue') <= MaxQueueSize
        /\ Line # << >> /\ Head(Line) = o /\ batch' \o queue' = Tail(Line)
        /\ flusher' \in Ops \cup {"timer", "stack", None}
        /\ flusher' = None <=> batch' = << >>
        /\ stage' \in [Ops -> Stages]
        /\ \A p \in Ops : stage'[p] = stage[p] \/ (stage[p] = "flushing" /\ stage'[p] = "done")
        /\ running' \in {"up", "flushing", "down"}
    BY <1>3, GoOnFacts
  <1>5. IsLine(Line) /\ Line' = Tail(Line) /\ IsLine(Line')
    BY <1>3, <1>4, LineType, TailLine DEF Line
  <1>6. /\ \A p \in Ops : Waiting(p)' <=> p # o /\ Waiting(p)
        /\ \A p, q \in Ops : p # o /\ AheadOf(p, q) => AheadOf(p, q)'
    BY <1>4, <1>5, TailLine DEF Waiting, AheadOf
  <1>7. /\ \A p \in Ops, k \in Keys :
              (Outdated(p, k)' <=> Outdated(p, k)) /\ (Overtaken(p, k)' <=> Overtaken(p, k))
        /\ GoodTable(epochs') /\ FencesBehind'
    BY <1>3, SameFences
  <1>8. \A p \in Ops : /\ phase'[Now(p)] = phase[Now(p)]
                       /\ p # o => phase'[Later(p)] = phase[Later(p)]
                       /\ keysOf[Now(p)] \subseteq Keys
    BY <1>3, <1>4, Names DEF order!OrderTypeOK
  <1>9. TypeOK'
    BY <1>3, <1>4, <1>5 DEF TypeOK, IsLine, Line, epochVars, BatchSize, MaxQueueSize
  <1>10. StagesMatch'
    <2>1. \A p \in Ops : phase'[Later(p)] \notin {"queued", "running"}
      <3>1. \A p \in Ops : phase[Later(p)] \in {"queued", "running"} => p = o
        BY <1>3 DEF StagesMatch
      <3> QED BY <1>4, <1>8, <3>1
    <2>2. \A p \in Ops : phase'[Later(p)] # "idle" => phase[Later(p)] # "idle"
      BY <1>8
    <2> QED BY <1>3, <1>4, <1>8, <2>1, <2>2 DEF StagesMatch
  <1>11. LineWaits'
    BY <1>3, <1>4, <1>6, <1>8 DEF LineWaits
  <1>12. ActiveWasCurrent'
    <2>1. \A p \in Ops : phase'[Later(p)] \in {"idle", "queued"} => phase[Later(p)] \in {"idle", "queued"}
      BY <1>4, <1>8
    <2> QED BY <1>3, <1>4, <1>7, <1>8, <2>1 DEF ActiveWasCurrent
  <1>13. LocalIsLast'
    <2>1. \A k \in Keys : local[k] # None => local[k] \in Ops
      BY <1>3 DEF TypeOK
    <2>2. \A p \in Ops : stage'[p] = "checking" => stage[p] = "checking"
      BY <1>4
    <2> QED BY <1>3, <1>7, <2>1, <2>2 DEF LocalIsLast
  <1> QED BY <1>4, <1>6, <1>7, <1>8, <1>9, <1>10, <1>11, <1>12, <1>13 DEF Sound

LEMMA EndOfSound ==
    ASSUME Sound, NEW o \in Ops, phase[Later(o)] = "running", EndOf(o),
           UNCHANGED <<epochVars, options, fence, active, local, refused>>,
           remote' \in [Keys -> Ops \cup {None}], failed' \in BOOLEAN,
           pend' \subseteq [by : Ops, key : Keys, kind : {"set", "clean", "delete"}]
    PROVE  /\ Sound'
           /\ \A p \in Ops : /\ Waiting(p)' <=> p # o /\ Waiting(p)
                             /\ p # o => phase'[Later(p)] = phase[Later(p)]
                             /\ stage'[p] = stage[p] \/ (stage[p] = "flushing" /\ stage'[p] = "done")
           /\ \A p, q \in Ops : p # o /\ AheadOf(p, q) => AheadOf(p, q)'
           /\ phase'[Later(o)] = "done"
  <1>1. order!Settle(Later(o)) /\ GoOn
    BY DEF EndOf
  <1>2. order!OrderTypeOK /\ order!OrderInv /\ refused \subseteq Ops
    BY DEF Sound, TypeOK
  <1>3. /\ order!OrderTypeOK' /\ order!OrderInv' /\ UNCHANGED keysOf
        /\ phase'[Later(o)] = "done"
        /\ \A v \in Writes : v # Later(o) => phase'[v] = phase[v]
    BY <1>1, <1>2, SettleOrder, Names
  <1>4. batch # << >> /\ o = Head(batch)
    BY DEF Sound, StagesMatch
  <1> QED BY <1>1, <1>2, <1>3, <1>4, GoOnSound

LEMMA EndLaterKeeps ==
    ASSUME WriteBehindInv, NEW o \in Ops, EndLater(o)
    PROVE  WriteBehindInv'
  <1>1. /\ phase[Later(o)] = "running" /\ Answered(o) /\ Stale(Later(o)) = {} /\ EndOf(o)
        /\ UNCHANGED <<epochVars, options, fence, active, local, remote, pend, failed, refused>>
    BY DEF EndLater
  <1>2. Sound
    BY DEF WriteBehindInv
  <1>3. TypeOK /\ StagesMatch /\ LineWaits /\ LocalIsLast
    BY <1>2 DEF Sound
  <1>4. /\ Sound'
        /\ \A p \in Ops : /\ Waiting(p)' <=> p # o /\ Waiting(p)
                          /\ p # o => phase'[Later(p)] = phase[Later(p)]
                          /\ stage'[p] = stage[p] \/ (stage[p] = "flushing" /\ stage'[p] = "done")
        /\ \A p, q \in Ops : p # o /\ AheadOf(p, q) => AheadOf(p, q)'
        /\ phase'[Later(o)] = "done"
    BY <1>1, <1>2, <1>3, EndOfSound DEF TypeOK
  <1>5. \A p \in Ops, k \in Keys :
           (Outdated(p, k)' <=> Outdated(p, k)) /\ (Overtaken(p, k)' <=> Overtaken(p, k))
    BY <1>1, SameFences
  <1>6. /\ \A k \in Keys : ~Pending(o, k, "set") /\ ~Pending(o, k, "clean")
        /\ \A k \in Keys : k \in active[Later(o)] => ~Outdated(o, k)
    BY <1>1 DEF Answered, Pending, Stale, Later
  <1>7. SoundDelivery'
    <2> SUFFICES ASSUME ~failed PROVE LineInOrder' /\ RemoteFromRuns' /\ CurrentArrives'
      BY <1>1 DEF SoundDelivery
    <2>1. LineInOrder /\ RemoteFromRuns /\ CurrentArrives
      BY DEF WriteBehindInv, SoundDelivery
    <2>2. \A k \in Keys : /\ local[k] # None => local[k] \in Ops
                          /\ remote[k] # None => remote[k] \in Ops
      BY <1>3 DEF TypeOK
    <2>3. \A p \in Ops : stage[p] = "checking" => stage'[p] = "checking"
      BY <1>4
    <2>4. LineInOrder'
      BY <1>1, <1>4, <2>1, <2>2, <2>3 DEF LineInOrder
    <2>5. RemoteFromRuns'
      <3>1. \A k \in Keys : k \in active[Later(o)] => ~Overtaken(o, k)
        BY <1>2, <1>6, OvertakenIsOutdated
      <3>2. \A p \in Ops, k \in Keys, d \in {"set", "clean", "delete"} : Pending(p, k, d)' <=> Pending(p, k, d)
        BY <1>1 DEF Pending
      <3> QED BY <1>1, <1>4, <1>5, <1>6, <2>1, <2>2, <3>1, <3>2 DEF RemoteFromRuns
    <2>6. CurrentArrives'
      <3>1. stage[o] # "checking"
        BY <1>1, <1>3 DEF StagesMatch
      <3> QED BY <1>1, <1>4, <1>5, <1>6, <2>1, <2>2, <2>3, <3>1 DEF CurrentArrives, Pending
    <2> QED BY <2>4, <2>5, <2>6
  <1> QED BY <1>4, <1>7 DEF WriteBehindInv

\* A refused operation leaves the line, and is the exception from then on.
LEMMA RefuseLaterKeeps ==
    ASSUME WriteBehindInv, RefuseLater
    PROVE  WriteBehindInv'
  <1> DEFINE h == Head(batch)
  <1>1. /\ batch # << >> /\ phase[Later(h)] = "idle" /\ GoOn
        /\ refused' = refused \cup {h}
        /\ UNCHANGED <<epochVars, chainVars, options, fence, active, local, remote, pend, failed>>
    BY DEF RefuseLater
  <1>2. Sound /\ TypeOK /\ order!OrderTypeOK /\ order!OrderInv
    BY DEF WriteBehindInv, Sound, TypeOK
  <1>3. h \in Ops
    BY <1>1, <1>2 DEF TypeOK
  <1>4. PICK o \in Ops : o = h
    BY <1>3
  <1> HIDE DEF h
  <1>5. order!OrderTypeOK' /\ order!OrderInv' /\ keysOf' = keysOf /\ phase' = phase
    BY <1>1, <1>2, SameOrder DEF chainVars
  <1>6. o = Head(batch)
    BY <1>4 DEF h
  <1>7. /\ Sound'
        /\ \A p \in Ops : /\ Waiting(p)' <=> p # o /\ Waiting(p)
                          /\ stage'[p] = stage[p] \/ (stage[p] = "flushing" /\ stage'[p] = "done")
        /\ \A p, q \in Ops : p # o /\ AheadOf(p, q) => AheadOf(p, q)'
    BY <1>1, <1>2, <1>4, <1>5, <1>6, GoOnSound DEF TypeOK
  <1>8. \A p \in Ops, k \in Keys :
           (Outdated(p, k)' <=> Outdated(p, k)) /\ (Overtaken(p, k)' <=> Overtaken(p, k))
    BY <1>1, SameFences
  <1>9. SoundDelivery'
    <2> SUFFICES ASSUME ~failed PROVE LineInOrder' /\ RemoteFromRuns' /\ CurrentArrives'
      BY <1>1 DEF SoundDelivery
    <2>1. LineInOrder /\ RemoteFromRuns /\ CurrentArrives
      BY DEF WriteBehindInv, SoundDelivery
    <2>2. \A k \in Keys : /\ local[k] # None => local[k] \in Ops
                          /\ remote[k] # None => remote[k] \in Ops
      BY <1>2 DEF TypeOK
    <2>3. \A p \in Ops : stage[p] = "checking" => stage'[p] = "checking"
      BY <1>7
    <2>4. LineInOrder'
      BY <1>1, <1>7, <2>1, <2>2, <2>3 DEF LineInOrder
    <2>5. RemoteFromRuns'
      BY <1>1, <1>5, <1>8, <2>1, <2>2 DEF RemoteFromRuns, Pending
    <2>6. CurrentArrives'
      BY <1>1, <1>4, <1>5, <1>7, <1>8, <2>1, <2>2, <2>3 DEF CurrentArrives, Pending
    <2> QED BY <2>4, <2>5, <2>6
  <1> QED BY <1>7, <1>9 DEF WriteBehindInv

\* A flush by the timer or by disconnect.
LEMMA FlushKeeps ==
    ASSUME WriteBehindInv, NEW who \in {"timer", "stack"}, FlushFrom(who, queue),
           UNCHANGED <<epochVars, chainVars, stage, options, fence, active, local, remote, pend, failed,
                       refused>>,
           running' \in {"up", "flushing", "down"}
    PROVE  WriteBehindInv'
  <1>2. Sound
    BY DEF WriteBehindInv
  <1>3. TypeOK /\ order!OrderTypeOK /\ GoodTable(epochs) /\ StagesMatch /\ LineWaits
        /\ ActiveWasCurrent /\ FencesBehind /\ LocalIsLast /\ order!OrderInv
    BY <1>2 DEF Sound, TypeOK
  <1>4. order!OrderTypeOK' /\ order!OrderInv' /\ keysOf' = keysOf /\ phase' = phase
    BY <1>3, SameOrder DEF chainVars
  <1>5. /\ batch' \in Seq(Ops) /\ Len(batch') <= BatchSize
        /\ queue' \in Seq(Ops) /\ Len(queue') <= MaxQueueSize
        /\ batch' \o queue' = batch \o queue
        /\ flusher' \in Ops \cup {"timer", "stack", None}
        /\ flusher' = None <=> batch' = << >>
        /\ batch # << >> => batch' = batch
    <2>1. queue \in Seq(Ops) /\ Len(queue) <= MaxQueueSize
      BY <1>3 DEF TypeOK
    <2> QED BY <1>3, <2>1, FlushFacts
  <1>6. /\ Line' = Line /\ \A p, q \in Ops : (Waiting(p)' <=> Waiting(p)) /\ (AheadOf(q, p)' <=> AheadOf(q, p))
    BY <1>5 DEF Line, Waiting, AheadOf
  <1>7. /\ \A p \in Ops, k \in Keys :
              (Outdated(p, k)' <=> Outdated(p, k)) /\ (Overtaken(p, k)' <=> Overtaken(p, k))
        /\ GoodTable(epochs') /\ FencesBehind'
    BY <1>3, SameFences
  <1>8. TypeOK'
    BY <1>3, <1>4, <1>5 DEF TypeOK, epochVars, BatchSize, MaxQueueSize
  <1>9. StagesMatch'
    BY <1>3, <1>4, <1>5 DEF StagesMatch
  <1>10. LineWaits'
    BY <1>3, <1>4, <1>5, <1>6 DEF LineWaits
  <1>11. ActiveWasCurrent'
    <2>1. \A p \in Ops : keysOf[Now(p)] \subseteq Keys
      BY <1>3, Names DEF order!OrderTypeOK
    <2> QED BY <1>3, <1>4, <1>7, <2>1 DEF ActiveWasCurrent
  <1>12. \A k \in Keys : /\ local[k] # None => local[k] \in Ops
                         /\ remote[k] # None => remote[k] \in Ops
    BY <1>3 DEF TypeOK
  <1>13. LocalIsLast'
    BY <1>3, <1>7, <1>12 DEF LocalIsLast
  <1>14. SoundDelivery'
    BY <1>4, <1>6, <1>7, <1>12
    DEF WriteBehindInv, SoundDelivery, LineInOrder, RemoteFromRuns, CurrentArrives, Pending
  <1> QED BY <1>4, <1>7, <1>8, <1>9, <1>10, <1>11, <1>13, <1>14 DEF WriteBehindInv, Sound

-----------------------------------------------------------------------------
(* Invalidations.                                                          *)

\* What an invalidation of the keys K does to the fences: those on K become
\* outdated, those on other keys keep their order, and two that were current
\* stay so together.
LEMMA InvalidationFences ==
    ASSUME Sound, NEW K \in SUBSET Keys,
           GoodTable(epochs'), \A k \in Keys : LaterFor(k, epochs, epochs'),
           \A k \in K : PastFor(k, epochs, epochs'),
           barrier' = [k \in Keys |-> IF k \in K THEN CurrentFence(k)' ELSE barrier[k]],
           UNCHANGED fence
    PROVE  /\ barrier' \in [Keys -> Fences] /\ FencesBehind'
           /\ \A p \in Ops, k \in Keys :
                 /\ Outdated(p, k) => Outdated(p, k)'
                 /\ k \in K => Outdated(p, k)'
                 /\ k \notin K => (Overtaken(p, k)' <=> Overtaken(p, k))
           /\ \A p, q \in Ops, k \in Keys :
                 ~Outdated(p, k) /\ ~Outdated(q, k) => (Outdated(p, k)' <=> Outdated(q, k)')
  <1>1. TypeOK /\ GoodTable(epochs) /\ FencesBehind
    BY DEF Sound
  <1>2. \A k \in Keys : /\ KeyEpochIn(epochs, k) \in Nat /\ KeyEpochIn(epochs', k) \in Nat
                        /\ epochs.clear \in Nat /\ epochs'.clear \in Nat
    BY <1>1, KeyEpochType DEF GoodTable, IsEpochTable
  <1>3. ASSUME NEW f \in Fences, NEW k \in Keys, NotAhead(f, k)
        PROVE  /\ NotAhead(f, k)'
               /\ IsWriteOutdated(k, f) => IsWriteOutdated(k, f)'
               /\ k \in K => IsWriteOutdated(k, f)'
    <2>1. NotAhead(f, k)' /\ (IsWriteOutdated(k, f) => IsWriteOutdated(k, f)')
      BY <1>1, <1>3, NotAheadStays
    <2>2. ASSUME k \in K PROVE IsWriteOutdated(k, f)'
      <3>1. PastFor(k, epochs, epochs') /\ f.clear \in Nat /\ f.key \in Nat
        BY <2>2 DEF Fences
      <3> QED BY <1>2, <1>3, <3>1
          DEF NotAhead, Precedes, CurrentFence, CurrentKeyEpoch, PastFor, IsWriteOutdated
    <2> QED BY <2>1, <2>2
  <1>4. \A k \in Keys : barrier[k] \in Fences /\ NotAhead(barrier[k], k)
    BY <1>1 DEF TypeOK, FencesBehind
  <1>5. \A p \in Ops, k \in Keys : fence[p][k] \in Fences /\ NotAhead(fence[p][k], k)
    BY <1>1 DEF TypeOK, FencesBehind
  <1>6. ASSUME NEW k \in Keys PROVE barrier'[k] \in Fences /\ NotAhead(barrier[k], k)'
    <2>1. CASE k \in K
      <3>1. barrier'[k] = [clear |-> epochs'.clear, key |-> KeyEpochIn(epochs', k)]
        BY <2>1 DEF CurrentFence, CurrentKeyEpoch
      <3> QED BY <1>2, <3>1 DEF Fences, NotAhead, Precedes, CurrentFence, CurrentKeyEpoch
    <2>2. CASE k \notin K
      <3>1. PICK f \in Fences : f = barrier[k]
        BY <1>4
      <3>2. barrier'[k] = f /\ NotAhead(f, k)'
        BY <1>3, <1>4, <2>2, <3>1
      <3> QED BY <3>2 DEF NotAhead
    <2> QED BY <2>1, <2>2
  <1>7. barrier' \in [Keys -> Fences]
    BY <1>6
  <1>8. ASSUME NEW p \in Ops, NEW k \in Keys
        PROVE  /\ NotAhead(fence[p][k], k)'
               /\ Outdated(p, k) => Outdated(p, k)'
               /\ k \in K => Outdated(p, k)'
               /\ k \notin K => (Overtaken(p, k)' <=> Overtaken(p, k))
    <2>1. PICK f \in Fences : f = fence[p][k]
      BY <1>5
    <2>2. /\ NotAhead(f, k)'
          /\ IsWriteOutdated(k, f) => IsWriteOutdated(k, f)'
          /\ k \in K => IsWriteOutdated(k, f)'
          /\ fence'[p][k] = f
      BY <1>3, <1>5, <2>1
    <2>3. k \notin K => barrier'[k] = barrier[k]
      OBVIOUS
    <2> QED BY <2>1, <2>2, <2>3 DEF NotAhead, Outdated, Overtaken, IsWriteOutdated
  <1>9. FencesBehind'
    BY <1>6, <1>8 DEF FencesBehind
  <1>10. ASSUME NEW p \in Ops, NEW q \in Ops, NEW k \in Keys, ~Outdated(p, k), ~Outdated(q, k)
         PROVE  Outdated(p, k)' <=> Outdated(q, k)'
    BY <1>10 DEF Outdated, IsWriteOutdated
  <1> QED BY <1>7, <1>8, <1>9, <1>10

LEMMA InvalidationKeeps ==
    ASSUME WriteBehindInv, NEW o \in Ops, NEW K \in SUBSET Keys, stage[o] = "idle",
           GoodTable(epochs'), \A k \in Keys : LaterFor(k, epochs, epochs'),
           \A k \in K : PastFor(k, epochs, epochs'),
           barrier' = [k \in Keys |-> IF k \in K THEN CurrentFence(k)' ELSE barrier[k]],
           local' = Put(local, K, None),
           pend' = pend \cup Commands(o, K, "delete"),
           stage' = [stage EXCEPT ![o] = "erasing"],
           queue' = queue \/ (K = Keys /\ queue' = << >>),
           UNCHANGED <<chainVars, options, fence, active, batch, flusher, remote, running, failed, refused>>
    PROVE  WriteBehindInv'
  <1>2. Sound
    BY DEF WriteBehindInv
  <1>3. TypeOK /\ order!OrderTypeOK /\ GoodTable(epochs) /\ StagesMatch /\ LineWaits
        /\ ActiveWasCurrent /\ FencesBehind /\ LocalIsLast /\ order!OrderInv
    BY <1>2 DEF Sound, TypeOK
  <1>4. order!OrderTypeOK' /\ order!OrderInv' /\ keysOf' = keysOf /\ phase' = phase
    BY <1>3, SameOrder DEF chainVars
  <1>5. /\ stage'[o] = "erasing" /\ stage' \in [Ops -> Stages]
        /\ \A p \in Ops : p # o => stage'[p] = stage[p]
    BY <1>3 DEF TypeOK, Stages
  <1>6. /\ local' \in [Keys -> Ops \cup {None}]
        /\ \A k \in Keys : local'[k] = IF k \in K THEN None ELSE local[k]
    BY <1>3 DEF TypeOK, Put
  <1>7. /\ pend' \subseteq [by : Ops, key : Keys, kind : {"set", "clean", "delete"}]
        /\ \A p \in Ops, k \in Keys :
              /\ Pending(p, k, "set")' <=> Pending(p, k, "set")
              /\ Pending(p, k, "clean")' <=> Pending(p, k, "clean")
              /\ Pending(p, k, "delete") => Pending(p, k, "delete")'
              /\ p = o /\ k \in K => Pending(p, k, "delete")'
    <2>1. Commands(o, K, "delete") \subseteq [by : Ops, key : Keys, kind : {"set", "clean", "delete"}]
      BY DEF Commands
    <2>2. \A p \in Ops, k \in Keys, d \in {"set", "clean", "delete"} :
             [by |-> p, key |-> k, kind |-> d] \in Commands(o, K, "delete") <=> p = o /\ k \in K /\ d = "delete"
      BY DEF Commands
    <2> QED BY <1>3, <2>1, <2>2 DEF TypeOK, Pending
  <1>8. /\ queue' \in Seq(Ops) /\ Len(queue') <= MaxQueueSize /\ IsLine(Line')
        /\ \A p \in Ops : Waiting(p)' => Waiting(p)
        /\ K # Keys => /\ \A p \in Ops : Waiting(p)' <=> Waiting(p)
                       /\ \A p, q \in Ops : AheadOf(q, p)' <=> AheadOf(q, p)
    <2>1. IsLine(Line) /\ batch \in Seq(Ops) /\ queue \in Seq(Ops) /\ Len(queue) <= MaxQueueSize
          /\ IsInjective(batch \o queue) /\ MaxQueueSize \in Nat
      BY <1>3, LineType DEF TypeOK
    <2>2. CASE queue' = queue
      <3>1. Line' = Line
        BY <2>2 DEF Line
      <3> QED BY <2>1, <2>2, <3>1 DEF Waiting, AheadOf
    <2>3. CASE K = Keys /\ queue' = << >>
      <3>1. Line' = batch
        BY <2>1, <2>3, ConcatEmptySeq DEF Line
      <3>2. IsLine(batch) /\ \A p \in Ops : Occurs(batch, p) => Occurs(batch \o queue, p)
        BY <2>1, FirstLine
      <3>3. << >> \in Seq(Ops) /\ Len(<< >>) = 0
        OBVIOUS
      <3> QED BY <2>1, <2>3, <3>1, <3>2, <3>3 DEF Waiting, Line
    <2> QED BY <2>2, <2>3
  <1>9. /\ barrier' \in [Keys -> Fences] /\ FencesBehind'
        /\ \A p \in Ops, k \in Keys :
              /\ Outdated(p, k) => Outdated(p, k)'
              /\ k \in K => Outdated(p, k)'
              /\ k \notin K => (Overtaken(p, k)' <=> Overtaken(p, k))
        /\ \A p, q \in Ops, k \in Keys :
              ~Outdated(p, k) /\ ~Outdated(q, k) => (Outdated(p, k)' <=> Outdated(q, k)')
    BY <1>2, InvalidationFences
  <1>10. TypeOK'
    BY <1>3, <1>4, <1>5, <1>6, <1>7, <1>8, <1>9
    DEF TypeOK, GoodTable, IsLine, Line, BatchSize, MaxQueueSize
  <1>13. StagesMatch'
    BY <1>3, <1>4, <1>5 DEF StagesMatch
  <1>14. LineWaits'
    BY <1>3, <1>4, <1>8 DEF LineWaits
  <1>15. ActiveWasCurrent'
    <2>1. \A p \in Ops : keysOf[Now(p)] \subseteq Keys
      BY <1>3, Names DEF order!OrderTypeOK
    <2> QED BY <1>3, <1>4, <1>9, <2>1 DEF ActiveWasCurrent
  <1>16. \A k \in Keys : /\ local[k] # None => local[k] \in Ops
                         /\ remote[k] # None => remote[k] \in Ops
    BY <1>3 DEF TypeOK
  <1>17. LocalIsLast'
    <2> SUFFICES ASSUME NEW k \in Keys
                 PROVE (/\ local[k] # None => k \in active[Now(local[k])] /\ ~Overtaken(local[k], k)
                        /\ \A p \in Ops : k \in active[Now(p)] =>
                              /\ stage[p] = "checking" => local[k] \in {p, None}
                              /\ ~Outdated(p, k) => local[k] # None /\ ~Outdated(local[k], k))'
      BY DEF LocalIsLast
    <2>1. CASE k \in K
      BY <1>6, <1>9, <2>1
    <2>2. CASE k \notin K
      BY <1>3, <1>5, <1>6, <1>9, <1>16, <2>2 DEF LocalIsLast
    <2> QED BY <2>1, <2>2
  <1>18. SoundDelivery'
    <2> SUFFICES ASSUME ~failed PROVE LineInOrder' /\ RemoteFromRuns' /\ CurrentArrives'
      BY DEF SoundDelivery
    <2>1. LineInOrder /\ RemoteFromRuns /\ CurrentArrives
      BY DEF WriteBehindInv, SoundDelivery
    <2>2. \A k \in Keys : local'[k] # None => k \notin K /\ local'[k] = local[k]
      BY <1>6
    <2>3. \A p \in Ops : stage[p] = "checking" => stage'[p] = "checking"
      BY <1>5
    <2>4. LineInOrder'
      BY <1>8, <1>16, <2>1, <2>2, <2>3 DEF LineInOrder
    <2>5. RemoteFromRuns'
      BY <1>4, <1>7, <1>9, <1>16, <2>1 DEF RemoteFromRuns
    <2>6. CurrentArrives'
      BY <1>4, <1>7, <1>8, <1>9, <1>16, <2>1, <2>2, <2>3 DEF CurrentArrives
    <2> QED BY <2>4, <2>5, <2>6
  <1> QED BY <1>4, <1>9, <1>10, <1>13, <1>14, <1>15, <1>17, <1>18 DEF WriteBehindInv, Sound

LEMMA DeleteKeeps ==
    ASSUME WriteBehindInv, NEW o \in Ops, NEW ks \in Lists, Delete(o, ks)
    PROVE  WriteBehindInv'
  <1> DEFINE K == {ks[i] : i \in DOMAIN ks}
  <1>1. /\ stage[o] = "idle" /\ BumpKeyEpochs(ks)
        /\ local' = Put(local, K, None)
        /\ pend' = pend \cup Commands(o, K, "delete")
        /\ stage' = [stage EXCEPT ![o] = "erasing"]
        /\ barrier' = [k \in Keys |-> IF k \in K THEN CurrentFence(k)' ELSE barrier[k]]
        /\ UNCHANGED <<chainVars, options, fence, active, flushVars, remote, running, failed, refused>>
    BY DEF Delete
  <1>2. K \in SUBSET Keys /\ \A k \in K : \E i \in DOMAIN ks : ks[i] = k
    <2>1. PICK m \in 1..MaxList : ks \in [1..m -> Keys]
      BY DEF Lists, KeyLists
    <2> QED BY <2>1
  <1>3. /\ GoodTable(epochs') /\ \A k \in Keys : LaterFor(k, epochs, epochs')
        /\ \A k \in Keys : (\E i \in DOMAIN ks : ks[i] = k) => PastFor(k, epochs, epochs')
    BY <1>1, BumpStep, ListAssumption DEF WriteBehindInv, Sound, Lists
  <1>4. \A k \in K : PastFor(k, epochs, epochs')
    BY <1>2, <1>3
  <1> HIDE DEF K
  <1> QED BY <1>1, <1>2, <1>3, <1>4, InvalidationKeeps DEF flushVars

LEMMA ClearKeeps ==
    ASSUME WriteBehindInv, NEW o \in Ops, Clear(o)
    PROVE  WriteBehindInv'
  <1>1. /\ stage[o] = "idle" /\ BeginClearEpoch /\ queue' = << >>
        /\ local' = [k \in Keys |-> None]
        /\ pend' = pend \cup Commands(o, Keys, "delete")
        /\ stage' = [stage EXCEPT ![o] = "erasing"]
        /\ barrier' = [k \in Keys |-> CurrentFence(k)']
        /\ UNCHANGED <<chainVars, options, fence, active, batch, flusher, remote, running, failed, refused>>
    BY DEF Clear
  <1>2. GoodTable(epochs') /\ \A k \in Keys : PastFor(k, epochs, epochs')
    BY <1>1, ClearStep DEF WriteBehindInv, Sound
  <1>3. \A k \in Keys : LaterFor(k, epochs, epochs')
    <2>1. \A k \in Keys : KeyEpochIn(epochs, k) \in Nat /\ KeyEpochIn(epochs', k) \in Nat
      BY <1>2, KeyEpochType DEF WriteBehindInv, Sound
    <2> QED BY <1>2, <2>1 DEF PastFor, LaterFor
  <1>4. /\ local' = Put(local, Keys, None)
        /\ barrier' = [k \in Keys |-> IF k \in Keys THEN CurrentFence(k)' ELSE barrier[k]]
    BY <1>1 DEF Put
  <1> QED BY <1>1, <1>2, <1>3, <1>4, InvalidationKeeps

-----------------------------------------------------------------------------
(* The remote layer.                                                       *)

\* What is answered, or fails, concerns no queue, no chain and no fence.
LEMMA AnswerSound ==
    ASSUME Sound,
           UNCHANGED <<epochVars, chainVars, options, fence, active, flushVars, local, refused>>,
           stage' \in [Ops -> Stages], running' = running,
           \A p \in Ops : stage'[p] = stage[p] \/ (stage[p] \in {"idle", "erasing"} /\ stage'[p] = "done"),
           remote' \in [Keys -> Ops \cup {None}], failed' \in BOOLEAN,
           pend' \subseteq [by : Ops, key : Keys, kind : {"set", "clean", "delete"}]
    PROVE  /\ Sound'
           /\ \A p, q \in Ops : (Waiting(p)' <=> Waiting(p)) /\ (AheadOf(q, p)' <=> AheadOf(q, p))
           /\ \A p \in Ops, k \in Keys :
                 (Outdated(p, k)' <=> Outdated(p, k)) /\ (Overtaken(p, k)' <=> Overtaken(p, k))
  <1>3. TypeOK /\ order!OrderTypeOK /\ GoodTable(epochs) /\ StagesMatch /\ LineWaits
        /\ ActiveWasCurrent /\ FencesBehind /\ LocalIsLast /\ order!OrderInv
    BY DEF Sound, TypeOK
  <1>4. order!OrderTypeOK' /\ order!OrderInv' /\ keysOf' = keysOf /\ phase' = phase
    BY <1>3, SameOrder DEF chainVars
  <1>5. \A p, q \in Ops : (Waiting(p)' <=> Waiting(p)) /\ (AheadOf(q, p)' <=> AheadOf(q, p))
    BY DEF flushVars, Line, Waiting, AheadOf
  <1>6. /\ \A p \in Ops, k \in Keys :
              (Outdated(p, k)' <=> Outdated(p, k)) /\ (Overtaken(p, k)' <=> Overtaken(p, k))
        /\ GoodTable(epochs') /\ FencesBehind'
    BY <1>3, SameFences
  <1>7. TypeOK'
    BY <1>3, <1>4 DEF TypeOK, epochVars, flushVars, BatchSize, MaxQueueSize
  <1>8. StagesMatch'
    BY <1>3, <1>4 DEF StagesMatch, flushVars
  <1>9. LineWaits'
    BY <1>3, <1>4, <1>5 DEF LineWaits, flushVars
  <1>10. ActiveWasCurrent'
    <2>1. \A p \in Ops : keysOf[Now(p)] \subseteq Keys
      BY <1>3, Names DEF order!OrderTypeOK
    <2> QED BY <1>3, <1>4, <1>6, <2>1 DEF ActiveWasCurrent
  <1>11. LocalIsLast'
    <2>1. \A k \in Keys : local[k] # None => local[k] \in Ops
      BY <1>3 DEF TypeOK
    <2>2. \A p \in Ops : stage'[p] = "checking" => stage[p] = "checking"
      OBVIOUS
    <2> QED BY <1>3, <1>6, <2>1, <2>2 DEF LocalIsLast
  <1> QED BY <1>4, <1>5, <1>6, <1>7, <1>8, <1>9, <1>10, <1>11 DEF Sound

\* A call that returns without having written anything now.
LEMMA ErasedKeeps ==
    ASSUME WriteBehindInv, NEW o \in Ops, Erased(o) \/ RefuseStart(o)
    PROVE  WriteBehindInv'
  <1>1. /\ stage[o] \in {"idle", "erasing"} /\ stage' = [stage EXCEPT ![o] = "done"]
        /\ UNCHANGED <<epochVars, chainVars, options, fence, active, flushVars, local, remote, pend,
                       running, failed, refused>>
    BY DEF Erased, RefuseStart
  <1>2. Sound /\ TypeOK
    BY DEF WriteBehindInv, Sound
  <1>3. /\ stage' \in [Ops -> Stages]
        /\ \A p \in Ops : stage'[p] = stage[p] \/ (stage[p] \in {"idle", "erasing"} /\ stage'[p] = "done")
    BY <1>1, <1>2 DEF TypeOK, Stages
  <1>4. /\ Sound'
        /\ \A p, q \in Ops : (Waiting(p)' <=> Waiting(p)) /\ (AheadOf(q, p)' <=> AheadOf(q, p))
        /\ \A p \in Ops, k \in Keys :
              (Outdated(p, k)' <=> Outdated(p, k)) /\ (Overtaken(p, k)' <=> Overtaken(p, k))
    BY <1>1, <1>2, <1>3, AnswerSound DEF TypeOK
  <1>5. \A k \in Keys : /\ local[k] # None => local[k] \in Ops
                        /\ remote[k] # None => remote[k] \in Ops
    BY <1>2 DEF TypeOK
  <1>6. \A p \in Ops : stage[p] = "checking" => stage'[p] = "checking"
    BY <1>3
  <1>7. SoundDelivery'
    BY <1>1, <1>4, <1>5, <1>6
    DEF WriteBehindInv, SoundDelivery, LineInOrder, RemoteFromRuns, CurrentArrives, Pending, chainVars
  <1> QED BY <1>4, <1>7 DEF WriteBehindInv

LEMMA LandKeeps ==
    ASSUME WriteBehindInv, NEW c \in pend, Land(c)
    PROVE  WriteBehindInv'
  <1>1. /\ remote' = After(c) /\ pend' = pend \ {c}
        /\ UNCHANGED <<epochVars, chainVars, stage, options, fence, active, flushVars, local,
                       running, failed, refused>>
    BY DEF Land
  <1>2. Sound /\ TypeOK /\ StagesMatch /\ LineWaits /\ ActiveWasCurrent
    BY DEF WriteBehindInv, Sound
  <1>3. c \in [by : Ops, key : Keys, kind : {"set", "clean", "delete"}]
    BY <1>2 DEF TypeOK
  <1>4. PICK o \in Ops, k \in Keys, d \in {"set", "clean", "delete"} :
             c = [by |-> o, key |-> k, kind |-> d]
    BY <1>3
  <1>5. /\ remote' \in [Keys -> Ops \cup {None}]
        /\ remote'[k] = (IF d = "set" THEN o ELSE None)
        /\ \A j \in Keys : j # k => remote'[j] = remote[j]
    BY <1>1, <1>2, <1>4 DEF TypeOK, After
  <1>6. /\ pend' \subseteq [by : Ops, key : Keys, kind : {"set", "clean", "delete"}]
        /\ \A p \in Ops, j \in Keys, e \in {"set", "clean", "delete"} :
              /\ Pending(p, j, e)' => Pending(p, j, e)
              /\ j # k /\ Pending(p, j, e) => Pending(p, j, e)'
    BY <1>1, <1>2, <1>4 DEF TypeOK, Pending
  <1>7. /\ Sound'
        /\ \A p, q \in Ops : (Waiting(p)' <=> Waiting(p)) /\ (AheadOf(q, p)' <=> AheadOf(q, p))
        /\ \A p \in Ops, j \in Keys :
              (Outdated(p, j)' <=> Outdated(p, j)) /\ (Overtaken(p, j)' <=> Overtaken(p, j))
    BY <1>1, <1>2, <1>5, <1>6, AnswerSound DEF TypeOK
  <1>8. SoundDelivery'
    <2> SUFFICES ASSUME ~failed PROVE LineInOrder' /\ RemoteFromRuns' /\ CurrentArrives'
      BY <1>1 DEF SoundDelivery
    <2>1. LineInOrder /\ RemoteFromRuns /\ CurrentArrives
      BY DEF WriteBehindInv, SoundDelivery
    <2>2. \A j \in Keys : /\ local[j] # None => local[j] \in Ops
                          /\ remote[j] # None => remote[j] \in Ops
                          /\ local'[j] = local[j]
      BY <1>1, <1>2 DEF TypeOK
    <2>3. phase' = phase /\ active' = active /\ stage' = stage
      BY <1>1 DEF chainVars
    <2>4. d = "set" => phase[Later(o)] = "running" /\ k \in active[Later(o)] /\ k \in active[Now(o)]
      BY <1>2, <1>4, <2>1 DEF RemoteFromRuns, Pending, ActiveWasCurrent
    <2>5. LineInOrder'
      BY <1>1, <1>7, <2>1, <2>2, <2>3 DEF LineInOrder
    <2>6. RemoteFromRuns'
      <3> SUFFICES ASSUME NEW j \in Keys
                   PROVE (/\ \A p \in Ops :
                                /\ Pending(p, j, "set") => phase[Later(p)] = "running" /\ j \in active[Later(p)]
                                /\ Pending(p, j, "clean") => phase[Later(p)] = "running"
                          /\ remote[j] # None =>
                                /\ phase[Later(remote[j])] \in {"running", "done"}
                                /\ j \in active[Now(remote[j])]
                                /\ Overtaken(remote[j], j) =>
                                      \/ \E p \in Ops : Pending(p, j, "delete")
                                      \/ Pending(remote[j], j, "clean")
                                      \/ phase[Later(remote[j])] = "running" /\ j \in active[Later(remote[j])])'
        BY DEF RemoteFromRuns
      <3>1. \A p \in Ops :
               /\ Pending(p, j, "set")' => phase[Later(p)] = "running" /\ j \in active[Later(p)]
               /\ Pending(p, j, "clean")' => phase[Later(p)] = "running"
        BY <1>6, <2>1 DEF RemoteFromRuns
      <3>2. CASE j = k
        BY <1>5, <2>3, <2>4, <3>1, <3>2
      <3>3. CASE j # k
        BY <1>5, <1>6, <1>7, <2>1, <2>2, <2>3, <3>1, <3>3 DEF RemoteFromRuns
      <3> QED BY <3>2, <3>3
    <2>7. CurrentArrives'
      <3> SUFFICES ASSUME NEW j \in Keys,
                          (local[j] # None /\ ~Outdated(local[j], j) /\ remote[j] \notin {None, local[j]})'
                   PROVE  (\/ stage[local[j]] = "checking"
                           \/ Waiting(local[j]) /\ phase[Later(local[j])] \in {"idle", "queued"}
                           \/ Pending(local[j], j, "set")
                           \/ local[j] \in refused)'
        BY DEF CurrentArrives
      <3>1. PICK q \in Ops : q = local[j] /\ local'[j] = q /\ ~Outdated(q, j) /\ remote'[j] \notin {None, q}
        BY <1>7, <2>2
      <3>2. CASE j # k
        BY <1>1, <1>5, <1>6, <1>7, <2>1, <2>2, <2>3, <3>1, <3>2 DEF CurrentArrives
      <3>3. CASE j = k
        <4>1. d = "set" /\ q # o /\ phase[Later(o)] = "running" /\ k \in active[Now(o)]
          BY <1>5, <2>4, <3>1, <3>3
        <4>2. batch # << >> /\ o = Head(batch)
          BY <1>2, <4>1 DEF StagesMatch
        <4>3. Waiting(o)
          <5>1. IsLine(Line) /\ Line # << >> /\ Head(Line) = o
            BY <1>2, <4>2, LineType
          <5>2. 1 \in DOMAIN Line /\ Line[1] = o
            BY <5>1 DEF IsLine
          <5> QED BY <5>2 DEF Waiting, Occurs
        <4>4. q # None
          BY RemoteAssumption
        <4>5. stage[q] = "checking" \/ AheadOf(o, q) \/ q \in refused
          BY <2>1, <3>1, <3>3, <4>1, <4>3, <4>4 DEF LineInOrder
        <4>6. ASSUME AheadOf(o, q) PROVE Waiting(q) /\ phase[Later(q)] \in {"idle", "queued"}
          <5>1. Waiting(q)
            BY <4>6 DEF AheadOf, Earlier, Waiting, Occurs
          <5>2. phase[Later(q)] # "done" /\ phase[Later(q)] \notin {"queued", "running"}
            BY <1>2, <4>1, <4>2, <5>1 DEF LineWaits, StagesMatch
          <5>3. phase[Later(q)] \in {"idle", "queued", "running", "done"}
            BY <1>2, Names DEF TypeOK, order!OrderTypeOK, order!Phases
          <5> QED BY <5>1, <5>2, <5>3
        <4> QED BY <1>1, <1>7, <2>3, <3>1, <4>5, <4>6
      <3> QED BY <3>2, <3>3
    <2> QED BY <2>5, <2>6, <2>7
  <1> QED BY <1>7, <1>8 DEF WriteBehindInv

LEMMA FailKeeps ==
    ASSUME WriteBehindInv, NEW c \in pend, Fail(c)
    PROVE  WriteBehindInv'
  <1>1. /\ remote' \in {remote, After(c)} /\ failed' = TRUE /\ pend' = pend \ {c}
        /\ IF phase[Later(c.by)] = "running"
           THEN EndOf(c.by)
           ELSE /\ stage' = [stage EXCEPT ![c.by] = IF @ = "erasing" THEN "done" ELSE @]
                /\ UNCHANGED <<chainVars, flushVars, running>>
        /\ UNCHANGED <<epochVars, options, fence, active, local, refused>>
    BY DEF Fail
  <1>2. Sound /\ TypeOK
    BY DEF WriteBehindInv, Sound
  <1>3. c.by \in Ops /\ c.key \in Keys
    BY <1>2 DEF TypeOK
  <1>4. /\ remote' \in [Keys -> Ops \cup {None}] /\ failed' \in BOOLEAN
        /\ pend' \subseteq [by : Ops, key : Keys, kind : {"set", "clean", "delete"}]
    BY <1>1, <1>2, <1>3 DEF TypeOK, After
  <1>5. Sound'
    <2>1. CASE phase[Later(c.by)] = "running"
      BY <1>1, <1>2, <1>3, <1>4, <2>1, EndOfSound
    <2>2. CASE phase[Later(c.by)] # "running"
      <3>1. /\ stage' \in [Ops -> Stages]
            /\ \A p \in Ops : stage'[p] = stage[p] \/ (stage[p] = "erasing" /\ stage'[p] = "done")
        BY <1>1, <1>2, <1>3, <2>2 DEF TypeOK, Stages
      <3> QED BY <1>1, <1>2, <1>4, <2>2, <3>1, AnswerSound
    <2> QED BY <2>1, <2>2
  <1>6. SoundDelivery'
    BY <1>1 DEF SoundDelivery
  <1> QED BY <1>5, <1>6 DEF WriteBehindInv

-----------------------------------------------------------------------------
(* The theorems.                                                           *)

LEMMA InitHolds ==
    ASSUME Init
    PROVE  WriteBehindInv
  <1>1. /\ epochs = InitialEpochs /\ order!InitOrder
        /\ stage = [o \in Ops |-> "idle"]
        /\ fence = [o \in Ops |-> [k \in Keys |-> NoFence]]
        /\ active = [w \in Writes |-> {}]
        /\ queue = << >> /\ batch = << >> /\ flusher = None
        /\ local = [k \in Keys |-> None] /\ remote = [k \in Keys |-> None]
        /\ pend = {} /\ options \in QueueOptions /\ running = "up" /\ failed = FALSE
        /\ refused = {}
        /\ barrier = [k \in Keys |-> NoFence]
    BY DEF Init, InitEpochs
  <1> DEFINE e == << >>
  <1>2. DOMAIN e = {} /\ e \in [DOMAIN e -> Nat] /\ e \in Seq(Ops) /\ Len(e) = 0 /\ e \o e = e
    OBVIOUS
  <1>3. batch = e /\ queue = e /\ epochs = [clear |-> 0, keys |-> e, next |-> 0, absent |-> 0]
    BY <1>1 DEF InitialEpochs
  <1> HIDE DEF e
  <1>4. GoodTable(epochs) /\ epochs.clear = 0
    BY <1>2, <1>3, MaxSafeIntegerAssumption DEF GoodTable, IsEpochTable
  <1>5. NoFence \in Fences /\ \A k \in Keys : NotAhead(NoFence, k)
    <2>1. \A k \in Keys : CurrentKeyEpoch(k) \in Nat
      BY <1>4, KeyEpochType DEF CurrentKeyEpoch
    <2> QED BY <1>4, <2>1 DEF NoFence, Fences, NotAhead, Precedes, CurrentFence
  <1>6. order!OrderTypeOK /\ order!OrderInv
    BY <1>1 DEF order!InitOrder, order!OrderTypeOK, order!OrderInv, order!Phases
  <1>7. \A w \in Writes : phase[w] = "idle"
    BY <1>1 DEF order!InitOrder
  <1>8. IsInjective(batch \o queue) /\ Line = e /\ \A o \in Ops : ~Waiting(o)
    BY <1>2, <1>3 DEF IsInjective, Line, Waiting, Occurs
  <1>9. BatchSize \in Nat \ {0} /\ MaxQueueSize \in Nat \ {0}
    BY <1>1, QueueAssumption DEF BatchSize, MaxQueueSize
  <1>10. TypeOK
    <2>1. batch \in Seq(Ops) /\ queue \in Seq(Ops) /\ Len(queue) <= MaxQueueSize /\ Len(batch) <= BatchSize
      BY <1>2, <1>3, <1>9
    <2> QED BY <1>1, <1>4, <1>5, <1>6, <1>8, <2>1 DEF TypeOK, GoodTable, Stages
  <1>11. StagesMatch
    BY <1>1, <1>7, Names DEF StagesMatch
  <1>12. LineWaits
    BY <1>1, <1>8 DEF LineWaits
  <1>13. ActiveWasCurrent
    BY <1>1, <1>7, Names DEF ActiveWasCurrent
  <1>14. FencesBehind
    BY <1>1, <1>5 DEF FencesBehind
  <1>15. LocalIsLast
    BY <1>1, Names DEF LocalIsLast
  <1>16. SoundDelivery
    BY <1>1 DEF SoundDelivery, LineInOrder, RemoteFromRuns, CurrentArrives, Pending
  <1> QED BY <1>4, <1>6, <1>10, <1>11, <1>12, <1>13, <1>14, <1>15, <1>16 DEF WriteBehindInv, Sound

LEMMA StutterKeeps ==
    ASSUME WriteBehindInv, UNCHANGED vars
    PROVE  WriteBehindInv'
  <1>1. /\ UNCHANGED <<epochVars, chainVars, options, fence, active, flushVars, local>>
        /\ stage' = stage /\ running' = running /\ remote' = remote /\ failed' = failed /\ pend' = pend
        /\ refused' = refused
    BY DEF vars
  <1>2. Sound /\ TypeOK
    BY DEF WriteBehindInv, Sound
  <1>3. /\ Sound'
        /\ \A p, q \in Ops : (Waiting(p)' <=> Waiting(p)) /\ (AheadOf(q, p)' <=> AheadOf(q, p))
        /\ \A p \in Ops, k \in Keys :
              (Outdated(p, k)' <=> Outdated(p, k)) /\ (Overtaken(p, k)' <=> Overtaken(p, k))
    BY <1>1, <1>2, AnswerSound DEF TypeOK
  <1>4. \A k \in Keys : /\ local[k] # None => local[k] \in Ops
                        /\ remote[k] # None => remote[k] \in Ops
    BY <1>2 DEF TypeOK
  <1>5. SoundDelivery'
    BY <1>1, <1>3, <1>4
    DEF WriteBehindInv, SoundDelivery, LineInOrder, RemoteFromRuns, CurrentArrives, Pending, chainVars
  <1> QED BY <1>3, <1>5 DEF WriteBehindInv

\* Every step of every call, of the timer, of disconnect and of the remote layer
\* keeps the invariant.
LEMMA NextKeeps ==
    ASSUME WriteBehindInv, [Next]_vars
    PROVE  WriteBehindInv'
  <1>1. ASSUME NEW o \in Ops, Call(o) PROVE WriteBehindInv'
    <2>1. ASSUME NEW ks \in Lists, Start(o, {ks[i] : i \in DOMAIN ks}) PROVE WriteBehindInv'
      <3> DEFINE K == {ks[i] : i \in DOMAIN ks}
      <3>1. K \in SUBSET Keys
        <4>1. PICK m \in 1..MaxList : ks \in [1..m -> Keys]
          BY DEF Lists, KeyLists
        <4> QED BY <4>1
      <3> HIDE DEF K
      <3>2. Start(o, K)
        BY <2>1 DEF K
      <3> QED BY <3>1, <3>2, StartKeeps
    <2> QED BY <1>1, <2>1, DeleteKeeps, ClearKeeps, ErasedKeeps DEF Call
  <1>2. ASSUME NEW o \in Ops, Step(o) PROVE WriteBehindInv'
    BY <1>2, RunNowKeeps, EndNowKeeps, RunLaterKeeps, CleanLaterKeeps, EndLaterKeeps, ErasedKeeps DEF Step
  <1>3. ASSUME TimerFlush PROVE WriteBehindInv'
    <2>1. running' \in {"up", "flushing", "down"}
      BY <1>3 DEF TimerFlush, WriteBehindInv, Sound, TypeOK
    <2> QED BY <1>3, <2>1, FlushKeeps DEF TimerFlush
  <1>4. ASSUME Disconnect PROVE WriteBehindInv'
    BY <1>4, FlushKeeps DEF Disconnect
  <1>5. ASSUME NEW c \in pend, Land(c) \/ Fail(c) PROVE WriteBehindInv'
    BY <1>5, LandKeeps, FailKeeps
  <1>6. CASE UNCHANGED vars
    BY <1>6, StutterKeeps
  <1> QED BY <1>1, <1>2, <1>3, <1>4, <1>5, <1>6, AdmitLaterKeeps, RefuseLaterKeeps
      DEF Next, Idle

\* At rest nothing waits and nothing is on its way, so what the remote layer has
\* was not overtaken, and the local entry would have arrived were it current.
LEMMA RestAgrees ==
    ASSUME WriteBehindInv
    PROVE  RemoteAgreesAtRest
  <1> SUFFICES ASSUME Quiet, ~failed, NEW k \in Keys, remote[k] \notin {None, local[k]},
                      local[k] \notin refused
               PROVE  Forgotten(remote[k], k) /\ (local[k] # None => Forgotten(local[k], k))
    BY DEF RemoteAgreesAtRest
  <1>1. TypeOK /\ StagesMatch /\ LineWaits /\ LocalIsLast /\ RemoteFromRuns /\ CurrentArrives
    BY DEF WriteBehindInv, Sound, SoundDelivery
  <1>2. /\ remote[k] \in Ops /\ (local[k] # None => local[k] \in Ops)
        /\ \A o \in Ops : stage[o] # "checking"
        /\ \A o \in Ops, d \in {"set", "clean", "delete"} : ~Pending(o, k, d)
    BY <1>1 DEF TypeOK, Quiet, Pending
  <1>3. batch = << >> /\ queue = << >>
    BY <1>1 DEF Quiet, LineWaits
  <1>4. \A o \in Ops : ~Waiting(o) /\ phase[Later(o)] # "running"
    BY <1>1, <1>3 DEF Waiting, Occurs, Line, StagesMatch
  <1>5. ~Overtaken(remote[k], k)
    BY <1>1, <1>2, <1>4 DEF RemoteFromRuns
  <1>6. local[k] # None => Outdated(local[k], k)
    BY <1>1, <1>2, <1>4 DEF CurrentArrives
  <1>7. Outdated(remote[k], k)
    BY <1>1, <1>2, <1>6 DEF LocalIsLast, RemoteFromRuns
  <1>8. local[k] # None => ~Overtaken(local[k], k)
    BY <1>1 DEF LocalIsLast
  <1> QED BY <1>5, <1>6, <1>7, <1>8 DEF Forgotten

\* Calls, queue, batch, chains and layers keep their types, and no call is in the
\* queue or the batch twice (enqueueWriteBehind, flushWriteBehindQueue).
THEOREM WriteBehindTypeCorrect == Spec => []TypeOK
  <1>1. WriteBehindInv => TypeOK
    BY DEF WriteBehindInv, Sound
  <1> QED BY InitHolds, NextKeeps, <1>1, PTL DEF Spec

\* RemoteAgreesAtRest for any number of calls, keys and entries of the queue, any
\* batch size and any bound of the epoch table: flushing in batches, out of the
\* calls' sight, leaves no value in the remote layer that an invalidation or a
\* later write should have replaced there (runWriteBehindBatch), unless that
\* write was refused: by the full queue, or, unnoticed, by the admission limits
\* when its batch ran.
THEOREM DeferredWritesAgree == Spec => []RemoteAgreesAtRest
  BY InitHolds, NextKeeps, RestAgrees, PTL DEF Spec
=============================================================================
