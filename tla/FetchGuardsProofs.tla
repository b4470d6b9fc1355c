------------------------- MODULE FetchGuardsProofs --------------------------
(***************************************************************************)
(* Proofs about FetchGuards: its rate limiter keeps its rates, for any     *)
(* limits, buckets and fetches, and its breakers are opened by what they   *)
(* are there for.                                                          *)
(*                                                                         *)
(* A bucket may forget starts that have expired, and the limiter may       *)
(* forget a bucket, without changing what WaitTime sees: the starts a      *)
(* bucket remembers, once pruned, are those of the last interval           *)
(* (BucketsKnow).  This rests on three facts about Recent, which is        *)
(* pruning: pruning twice is pruning once (RecentOfRecent), time may pass  *)
(* before or after it (RecentOfOlder), and a new start is kept             *)
(* (RecentOfAppend).  The breakers rest on what pruning their table leaves *)
(* (PruneBreakersIs).                                                      *)
(***************************************************************************)
EXTENDS FetchGuards, WellFoundedInduction, FiniteSetTheorems, SequenceTheorems, TLAPS

-----------------------------------------------------------------------------
(* Starts and their ages.                                                  *)

\* A non-empty set of numbers has a least one.
LEMMA Least ==
    ASSUME NEW T \in SUBSET Nat, T # {}
    PROVE  \E n \in T : \A m \in T : n <= m
  <1> DEFINE Less == OpToRel(<, Nat)
  <1>1. PICK n \in T : \A m \in T : <<m, n>> \notin Less
    <2>1. IsWellFoundedOn(Less, Nat)
      BY NatLessThanWellFounded
    <2> HIDE DEF Less
    <2> QED BY <2>1, WFMin
  <1>2. \A m \in T : ~(m < n)
    BY <1>1 DEF OpToRel
  <1> QED BY <1>2

\* Ages are numbers up to Interval.
LEMMA AgesNat == Interval \in Nat /\ Ages \subseteq Nat /\ 0 \in Ages /\ 0 < Interval
                   /\ \A a \in Ages : a \in Nat /\ a <= Interval
  BY LimitsAssumption DEF Ages

\* So are the ages of a sequence of starts.
LEMMA AgesOf ==
    ASSUME NEW s \in Seq(Ages)
    PROVE  Len(s) \in Nat /\ \A i \in 1..Len(s) : s[i] \in Nat /\ s[i] <= Interval
  <1>1. \A i \in 1..Len(s) : s[i] \in Ages
    OBVIOUS
  <1>2. \A i \in 1..Len(s) : s[i] \in Nat /\ s[i] <= Interval
    BY <1>1, AgesNat
  <1> QED BY <1>2

\* What is left without the first n starts.
LEMMA Rest ==
    ASSUME NEW s \in Seq(Ages), NEW n \in 0..Len(s)
    PROVE  LET t == SubSeq(s, n + 1, Len(s))
           IN  /\ t \in Seq(Ages) /\ Len(t) = Len(s) - n
               /\ \A i \in 1..Len(t) : t[i] = s[n + i]
  OBVIOUS

\* Some number of starts has expired ...
LEMMA ExpiredExists ==
    ASSUME NEW s \in Seq(Ages)
    PROVE  \E n \in 0..Len(s) : Expired(s, n)
  <1> DEFINE T == {i \in 1..Len(s) : s[i] < Interval}
  <1>1. T \in SUBSET Nat /\ Len(s) \in Nat
    OBVIOUS
  <1>2. CASE T = {}
    <2>1. \A i \in 1..Len(s) : s[i] = Interval
      BY <1>2, AgesOf, AgesNat
    <2> QED BY <1>1, <2>1 DEF Expired
  <1>3. CASE T # {}
    <2> HIDE DEF T
    <2>1. PICK m \in T : \A i \in T : m <= i
      BY <1>1, <1>3, Least
    <2>2. m \in 1..Len(s) /\ s[m] < Interval
      BY <2>1 DEF T
    <2>3. \A i \in 1..(m - 1) : i \in 1..Len(s) /\ i \notin T
      BY <2>1, <2>2
    <2>4. \A i \in 1..(m - 1) : s[i] = Interval
      BY <2>3, AgesOf, AgesNat DEF T
    <2>5. m - 1 \in 0..Len(s) /\ (m - 1) + 1 = m
      BY <2>2
    <2> QED BY <2>2, <2>4, <2>5 DEF Expired
  <1> QED BY <1>2, <1>3

\* ... and it is the only one.
LEMMA RecentIs ==
    ASSUME NEW s \in Seq(Ages), NEW n \in 0..Len(s), Expired(s, n)
    PROVE  Recent(s) = SubSeq(s, n + 1, Len(s))
  <1>1. \A m \in 0..Len(s) : Expired(s, m) => m = n
    <2> SUFFICES ASSUME NEW m \in 0..Len(s), Expired(s, m), m # n
                 PROVE  FALSE
      OBVIOUS
    <2>1. CASE m < n
      <3>1. m + 1 \in 1..n /\ m < Len(s)
        BY <2>1
      <3> QED BY <3>1, AgesNat DEF Expired
    <2>2. CASE n < m
      <3>1. n + 1 \in 1..m /\ n < Len(s)
        BY <2>2
      <3> QED BY <3>1, AgesNat DEF Expired
    <2> QED BY <2>1, <2>2
  <1>2. (CHOOSE m \in 0..Len(s) : Expired(s, m)) = n
    BY <1>1
  <1> QED BY <1>2 DEF Recent

\* What counts is a part of what is known, and starts within the interval.
LEMMA RecentType ==
    ASSUME NEW s \in Seq(Ages)
    PROVE  /\ Recent(s) \in Seq(Ages) /\ Len(Recent(s)) <= Len(s)
           /\ Recent(s) # << >> => Head(Recent(s)) < Interval
  <1>1. PICK n \in 0..Len(s) : Expired(s, n)
    BY ExpiredExists
  <1>2. Recent(s) = SubSeq(s, n + 1, Len(s))
    BY <1>1, RecentIs
  <1>3. /\ Recent(s) \in Seq(Ages) /\ Len(Recent(s)) = Len(s) - n
        /\ \A i \in 1..(Len(s) - n) : Recent(s)[i] = s[n + i]
    BY <1>2
  <1>4. Recent(s) # << >> => n < Len(s) /\ Head(Recent(s)) = s[n + 1]
    BY <1>3
  <1> QED BY <1>1, <1>3, <1>4 DEF Expired

\* A new start counts.
LEMMA RecentOfAppend ==
    ASSUME NEW s \in Seq(Ages)
    PROVE  Recent(Append(s, 0)) = Append(Recent(s), 0)
  <1>1. PICK n \in 0..Len(s) : Expired(s, n)
    BY ExpiredExists
  <1> DEFINE t == Append(s, 0)
  <1>2. /\ t \in Seq(Ages) /\ Len(t) = Len(s) + 1 /\ t[Len(s) + 1] = 0
        /\ \A i \in 1..Len(s) : t[i] = s[i]
    BY AgesNat
  <1> HIDE DEF t
  <1>3. n \in 0..Len(t) /\ Expired(t, n)
    BY <1>1, <1>2, AgesNat DEF Expired
  <1>4. Recent(t) = SubSeq(t, n + 1, Len(t)) /\ Recent(s) = SubSeq(s, n + 1, Len(s))
    BY <1>1, <1>2, <1>3, RecentIs
  <1>5. SubSeq(t, n + 1, Len(t)) = Append(SubSeq(s, n + 1, Len(s)), 0)
    <2> DEFINE p == SubSeq(s, n + 1, Len(s))
               q == SubSeq(t, n + 1, Len(t))
    <2>1. /\ p \in Seq(Ages) /\ Len(p) = Len(s) - n
          /\ \A i \in 1..Len(p) : p[i] = s[n + i]
      BY Rest
    <2>2. /\ q \in Seq(Ages) /\ Len(q) = Len(t) - n
          /\ \A i \in 1..Len(q) : q[i] = t[n + i]
      BY <1>2, <1>3, Rest
    <2> HIDE DEF p, q
    <2> DEFINE r == Append(p, 0)
    <2>3. /\ r \in Seq(Ages) /\ Len(r) = Len(p) + 1 /\ r[Len(p) + 1] = 0
          /\ \A i \in 1..Len(p) : r[i] = p[i]
      BY <2>1, AgesNat
    <2> HIDE DEF r
    <2>4. Len(r) = Len(q)
      BY <1>2, <2>1, <2>2, <2>3
    <2>5. \A i \in 1..Len(p) : r[i] = s[n + i] /\ n + i \in 1..Len(s) /\ i \in 1..Len(q)
      BY <1>2, <2>1, <2>2, <2>3
    <2>6. \A i \in 1..Len(p) : r[i] = q[i]
      BY <1>2, <2>2, <2>5
    <2>7. q[Len(p) + 1] = 0
      BY <1>2, <2>1, <2>2
    <2>8. \A i \in 1..Len(q) : i \in 1..Len(p) \/ i = Len(p) + 1
      BY <2>1, <2>3, <2>4
    <2>9. q = r
      BY <2>2, <2>3, <2>4, <2>6, <2>7, <2>8, SeqEqual
    <2> QED BY <2>9 DEF p, q, r
  <1> QED BY <1>4, <1>5 DEF t

\* Pruning twice is pruning once.
LEMMA RecentOfRecent ==
    ASSUME NEW s \in Seq(Ages)
    PROVE  Recent(Recent(s)) = Recent(s)
  <1> DEFINE t == Recent(s)
  <1>1. t \in Seq(Ages) /\ (t # << >> => t[1] < Interval)
    BY RecentType
  <1> HIDE DEF t
  <1>2. Expired(t, 0) /\ 0 \in 0..Len(t)
    BY <1>1 DEF Expired
  <1>3. Recent(t) = SubSeq(t, 1, Len(t))
    BY <1>1, <1>2, RecentIs
  <1> QED BY <1>1, <1>3 DEF t

\* Every start grows older by one tick.
LEMMA OlderType ==
    ASSUME NEW s \in Seq(Ages)
    PROVE  /\ Older(s) \in Seq(Ages) /\ Len(Older(s)) = Len(s)
           /\ \A i \in 1..Len(s) :
                 Older(s)[i] = IF s[i] < Interval THEN s[i] + 1 ELSE Interval
  <1>1. \A i \in 1..Len(s) : s[i] \in Ages
    OBVIOUS
  <1>2. \A i \in DOMAIN s : (IF s[i] < Interval THEN s[i] + 1 ELSE Interval) \in Ages
    BY <1>1, LimitsAssumption DEF Ages
  <1> QED BY <1>2 DEF Older

\* Starts that have expired stay expired, so that it does not matter whether
\* they were pruned before time passed.
LEMMA RecentOfOlder ==
    ASSUME NEW s \in Seq(Ages)
    PROVE  Recent(Older(s)) = Recent(Older(Recent(s)))
  <1>1. PICK n \in 0..Len(s) : Expired(s, n)
    BY ExpiredExists
  <1> DEFINE u == Recent(s)
             v == Older(s)
             w == Older(u)
  <1>2. /\ u \in Seq(Ages) /\ Len(u) = Len(s) - n
        /\ \A i \in 1..(Len(s) - n) : u[i] = s[n + i]
    BY <1>1, RecentIs, RecentType
  <1>3. v \in Seq(Ages) /\ Len(v) = Len(s)
    BY OlderType
  <1>4. /\ w \in Seq(Ages) /\ Len(w) = Len(s) - n
    BY <1>2, OlderType
  <1>5. \A i \in 1..(Len(s) - n) : w[i] = v[n + i]
    <2> SUFFICES ASSUME NEW i \in 1..(Len(s) - n)
                 PROVE  w[i] = v[n + i]
      OBVIOUS
    <2>1. u[i] = s[n + i] /\ n + i \in 1..Len(s) /\ i \in 1..Len(u)
      BY <1>2
    <2> HIDE DEF u
    <2> QED BY <1>2, <2>1, OlderType
  <1>6. \A i \in 1..n : v[i] = Interval
    BY <1>1, OlderType, AgesNat DEF Expired
  <1> HIDE DEF u, v, w
  <1>7. PICK m \in 0..Len(v) : Expired(v, m)
    BY <1>3, ExpiredExists
  <1>8. n <= m
    <2> SUFFICES ASSUME m < n
                 PROVE  FALSE
      BY <1>7
    <2>1. m + 1 \in 1..n /\ m < Len(v)
      BY <1>3, <1>7
    <2> QED BY <1>6, <1>7, <2>1, AgesNat DEF Expired
  <1>9. PICK d \in 0..Len(w) : m = n + d
    <2>1. m - n \in 0..Len(w) /\ m = n + (m - n)
      BY <1>3, <1>4, <1>7, <1>8
    <2> QED BY <2>1
  <1>10. Expired(w, d)
    <2>1. \A i \in 1..d : n + i \in 1..m /\ i \in 1..(Len(s) - n)
      BY <1>3, <1>7, <1>9
    <2>2. \A i \in 1..d : w[i] = Interval
      BY <1>5, <1>7, <2>1 DEF Expired
    <2>3. d < Len(w) => d + 1 \in 1..(Len(s) - n) /\ n + (d + 1) = m + 1 /\ m < Len(v)
      BY <1>3, <1>4, <1>7, <1>9
    <2>4. d < Len(w) => w[d + 1] < Interval
      BY <1>5, <1>7, <2>3 DEF Expired
    <2> QED BY <2>2, <2>4 DEF Expired
  <1>11. Recent(v) = SubSeq(v, m + 1, Len(v)) /\ Recent(w) = SubSeq(w, d + 1, Len(w))
    BY <1>3, <1>4, <1>7, <1>9, <1>10, RecentIs
  <1>12. SubSeq(v, m + 1, Len(v)) = SubSeq(w, d + 1, Len(w))
    <2> DEFINE p == SubSeq(v, m + 1, Len(v))
               q == SubSeq(w, d + 1, Len(w))
    <2>1. /\ p \in Seq(Ages) /\ Len(p) = Len(v) - m
          /\ \A i \in 1..Len(p) : p[i] = v[m + i]
      BY <1>3, <1>7, Rest
    <2>2. /\ q \in Seq(Ages) /\ Len(q) = Len(w) - d
          /\ \A i \in 1..Len(q) : q[i] = w[d + i]
      BY <1>4, <1>9, Rest
    <2> HIDE DEF p, q
    <2>3. \A i \in 1..Len(p) : d + i \in 1..(Len(s) - n) /\ n + (d + i) = m + i
      BY <1>3, <1>7, <1>9, <2>1
    <2>4. Len(p) = Len(q) /\ \A i \in 1..Len(p) : p[i] = q[i]
      BY <1>3, <1>4, <1>5, <1>7, <1>9, <2>1, <2>2, <2>3
    <2> QED BY <2>1, <2>2, <2>4, SeqEqual DEF p, q
  <1> QED BY <1>11, <1>12 DEF u, v, w

-----------------------------------------------------------------------------
(* The invariant.                                                          *)

\* What every reachable state satisfies; the parts are explained in FetchGuards.
RatesInv ==
    /\ LimiterTypeOK /\ of \in [Fetches -> Keys]
    /\ QueuesHoldWaiting /\ BucketsKnow /\ DisposedIsEmpty /\ RatesHold

\* Fetches are scheduled in buckets.
LEMMA BucketExists ==
    ASSUME of \in [Fetches -> Keys], NEW f \in Fetches
    PROVE  Bucket(f) \in Buckets
  BY ScopeAssumption DEF Bucket

\* The running fetches of a bucket can be counted.
LEMMA RunningCounts ==
    ASSUME NEW b
    PROVE  /\ IsFiniteSet(Running(b)) /\ Cardinality(Running(b)) \in 0..Cardinality(Fetches)
           /\ Cardinality(Running(b)) = 0 => Running(b) = {}
  <1>1. Running(b) \subseteq Fetches
    BY DEF Running
  <1>2. IsFiniteSet(Running(b)) /\ Cardinality(Running(b)) <= Cardinality(Fetches)
    BY <1>1, FS_Subset, FetchesAssumption
  <1> QED BY <1>2, FS_CardinalityType, FS_EmptySet, FetchesAssumption

\* Nothing counts where nothing was started.
LEMMA NothingRecent == << >> \in Seq(Ages) /\ Recent(<< >>) = << >>
  <1>1. << >> \in Seq(Ages)
    OBVIOUS
  <1>2. Recent(<< >>) \in Seq(Ages) /\ Len(Recent(<< >>)) <= 0
    BY <1>1, RecentType
  <1> QED BY <1>1, <1>2

\* No rate is exceeded by a step that starts nothing.
LEMMA RatesKeep ==
    ASSUME RatesInv, disposed => disposed',
           \A b \in Buckets : /\ Running(b)' \subseteq Running(b)
                              /\ recent'[b] \in Seq(Ages) /\ Len(recent'[b]) <= Len(recent[b])
    PROVE  RatesHold'
  <1> SUFFICES ASSUME NEW b \in Buckets
               PROVE  /\ MaxPerInterval > 0 => Len(recent'[b]) <= MaxPerInterval
                      /\ MaxConcurrent > 0 => Cardinality(Running(b)') <= MaxConcurrent \/ disposed'
    BY DEF RatesHold, Running
  <1>1. recent[b] \in Seq(Ages) /\ (MaxPerInterval > 0 => Len(recent[b]) <= MaxPerInterval)
    BY DEF RatesInv, LimiterTypeOK, RatesHold
  <1>2. MaxConcurrent > 0 => Cardinality(Running(b)) <= MaxConcurrent \/ disposed
    BY DEF RatesInv, RatesHold, Running
  <1>3. Cardinality(Running(b)') <= Cardinality(Running(b)) /\ Cardinality(Running(b)') \in Nat
        /\ Cardinality(Running(b)) \in Nat
    BY RunningCounts, FS_Subset, FS_CardinalityType
  <1>4. Len(recent'[b]) \in Nat /\ Len(recent[b]) \in Nat
    BY <1>1
  <1> QED BY <1>1, <1>2, <1>3, <1>4, LimitsAssumption

\* A bucket that may be evicted has nothing to remember.
LEMMA IdleIsForgettable ==
    ASSUME RatesInv, NEW b \in DOMAIN buckets, IsIdle(b)
    PROVE  Running(b) = {} /\ queues[b] = << >> /\ (MaxPerInterval > 0 => recent[b] = << >>)
  <1>1. b \in Buckets /\ buckets[b].active = 0 /\ buckets[b].started = << >> /\ queues[b] = << >>
    BY DEF IsIdle, RatesInv, LimiterTypeOK
  <1>2. Cardinality(Running(b)) = 0 /\ (MaxPerInterval > 0 => recent[b] = Recent(<< >>))
    BY <1>1 DEF RatesInv, BucketsKnow, Pruned
  <1> QED BY <1>1, <1>2, NothingRecent, RunningCounts

\* The limiter starts empty.
LEMMA InitRates ==
    ASSUME Init
    PROVE  RatesInv
  <1>1. \A b \in Buckets : Running(b) = {} /\ recent[b] = << >> /\ queues[b] = << >>
    BY DEF Init, InitLimiter, Running
  <1>2. DOMAIN buckets = {}
    BY DEF Init, InitLimiter, NoBuckets
  <1>3. LimiterTypeOK
    <2>1. << >> \in Seq(Fetches) /\ << >> \in Seq(Ages) /\ Len(<< >>) <= MaxQueue
      BY LimitsAssumption
    <2>2. /\ queues \in [Buckets -> Seq(Fetches)] /\ recent \in [Buckets -> Seq(Ages)]
          /\ \A b \in Buckets : Len(queues[b]) <= MaxQueue
      BY <2>1 DEF Init, InitLimiter
    <2> QED BY <1>2, <2>2 DEF Init, InitLimiter, LimiterTypeOK, Timers
  <1>4. RatesHold
    <2>1. \A b \in Buckets : Cardinality(Running(b)) = 0
      BY <1>1, FS_EmptySet
    <2>2. \A b \in Buckets : Len(recent[b]) = 0
      BY <1>1
    <2> QED BY <2>1, <2>2, LimitsAssumption DEF RatesHold, Running
  <1>5. QueuesHoldWaiting
    BY <1>1 DEF QueuesHoldWaiting
  <1>6. BucketsKnow
    BY <1>1, <1>2 DEF BucketsKnow
  <1>7. DisposedIsEmpty /\ of \in [Fetches -> Keys]
    BY <1>2 DEF Init, DisposedIsEmpty
  <1> QED BY <1>3, <1>4, <1>5, <1>6, <1>7 DEF RatesInv

\* A new fetch is refused, or passes the limiter by.
LEMMA RefusedKeeps ==
    ASSUME RatesInv, NEW f \in Fetches, NEW E \in SUBSET {c \in DOMAIN buckets : IsIdle(c)},
           NEW where \in {"bypassing", "over"}, task[f] = "new", RunAt(f, where),
           buckets' = Without(buckets, E),
           UNCHANGED <<queues, pending, scheduled, timer, disposed, recent, of>>
    PROVE  RatesInv'
  <1>1. /\ task' \in [Fetches -> {"new", "queued", "running", "bypassing", "over"}]
        /\ \A g \in Fetches : task[g] # "new" => task'[g] = task[g]
    BY DEF RunAt, RatesInv, LimiterTypeOK
  <1>2. \A b \in Buckets : Running(b)' = Running(b)
    BY DEF Running, Bucket, RunAt, RatesInv, LimiterTypeOK
  <1>3. /\ DOMAIN buckets' = DOMAIN buckets \ E
        /\ \A b \in DOMAIN buckets' : buckets'[b] = buckets[b]
    BY DEF Without
  <1>4. LimiterTypeOK'
    BY <1>1, <1>3 DEF RatesInv, LimiterTypeOK
  <1>5. \A b \in E : Running(b) = {} /\ queues[b] = << >> /\ (MaxPerInterval > 0 => recent[b] = << >>)
    BY IdleIsForgettable
  <1>6. QueuesHoldWaiting'
    <2>1. \A b \in Buckets : queues[b] # << >> => b \in DOMAIN buckets'
      BY <1>3, <1>5 DEF RatesInv, QueuesHoldWaiting
    <2>2. \A b \in Buckets : \A i \in 1..Len(queues[b]) : queues[b][i] \in Fetches
      BY DEF RatesInv, LimiterTypeOK
    <2> QED BY <1>1, <2>1, <2>2 DEF RatesInv, QueuesHoldWaiting, Bucket
  <1>7. BucketsKnow'
    <2> SUFFICES ASSUME NEW b \in Buckets
                 PROVE  IF b \in DOMAIN buckets'
                        THEN /\ buckets'[b].active = Cardinality(Running(b))
                             /\ MaxPerInterval > 0 => recent[b] = Recent(buckets'[b].started)
                        ELSE disposed \/ (Running(b) = {} /\ (MaxPerInterval > 0 => recent[b] = << >>))
      BY <1>2 DEF BucketsKnow, Pruned
    <2>1. CASE b \in DOMAIN buckets'
      BY <1>3, <2>1 DEF RatesInv, BucketsKnow, Pruned
    <2>2. CASE b \in E
      BY <1>3, <1>5, <2>2
    <2>3. CASE b \notin DOMAIN buckets
      BY <1>3, <2>3 DEF RatesInv, BucketsKnow
    <2> QED BY <1>3, <2>1, <2>2, <2>3
  <1>8. RatesHold'
    BY <1>2, RatesKeep DEF RatesInv, LimiterTypeOK
  <1> QED BY <1>3, <1>4, <1>6, <1>7, <1>8 DEF RatesInv, DisposedIsEmpty

\* A new fetch is queued, in a bucket that may have to be created.
LEMMA PushKeeps ==
    ASSUME RatesInv, NEW f \in Fetches, NEW E \in SUBSET {c \in DOMAIN buckets : IsIdle(c)},
           NEW after, task[f] = "new", ~disposed, Len(queues[Bucket(f)]) < MaxQueue,
           after = [c \in DOMAIN Without(buckets, E) \cup {Bucket(f)} |->
                      IF c \in DOMAIN Without(buckets, E) THEN Without(buckets, E)[c] ELSE NewBucket],
           Push(f, Bucket(f), after),
           UNCHANGED <<disposed, recent, of>>
    PROVE  RatesInv'
  <1> DEFINE b == Bucket(f)
             q == queues[b]
  <1>1. /\ task' \in [Fetches -> {"new", "queued", "running", "bypassing", "over"}]
        /\ task'[f] = "queued" /\ \A g \in Fetches : g # f => task'[g] = task[g]
        /\ b \in Buckets /\ q \in Seq(Fetches) /\ Len(q) < MaxQueue
    BY BucketExists DEF Push, RunAt, RatesInv, LimiterTypeOK
  <1>2. \A c \in Buckets : Running(c)' = Running(c)
    BY <1>1 DEF Running, Bucket
  <1>3. /\ queues' = [queues EXCEPT ![b] = Append(q, f)]
        /\ buckets' = after /\ pending' = pending \cup {b} /\ scheduled' = TRUE /\ timer' = Never
    BY DEF Push, ScheduleNow
  <1>4. /\ DOMAIN buckets' = (DOMAIN buckets \ E) \cup {b}
        /\ \A c \in DOMAIN buckets \ E : buckets'[c] = buckets[c]
        /\ b \notin DOMAIN buckets \ E => buckets'[b] = NewBucket
    BY <1>3 DEF Without
  <1>5. NewBucket \in BucketStates
    <2>1. 0 \in 0..Cardinality(Fetches) /\ << >> \in Seq(Ages) /\ Never \in Timers
      BY FS_CardinalityType, FetchesAssumption DEF Timers
    <2> QED BY <2>1 DEF NewBucket, BucketStates
  <1>6. \A c \in E : Running(c) = {} /\ queues[c] = << >> /\ (MaxPerInterval > 0 => recent[c] = << >>)
    BY IdleIsForgettable
  <1>7. queues \in [Buckets -> Seq(Fetches)]
    BY DEF RatesInv, LimiterTypeOK
  <1>8. /\ Append(q, f) \in Seq(Fetches) /\ Len(Append(q, f)) = Len(q) + 1
        /\ Append(q, f)[Len(q) + 1] = f /\ \A i \in 1..Len(q) : Append(q, f)[i] = q[i]
    BY <1>1
  <1> HIDE DEF b, q
  <1>9. \A c \in Buckets : queues'[c] = IF c = b THEN Append(q, f) ELSE queues[c]
    BY <1>3, <1>7
  <1>10. LimiterTypeOK'
    <2>1. DOMAIN buckets' \subseteq Buckets /\ \A c \in DOMAIN buckets' : buckets'[c] \in BucketStates
      BY <1>1, <1>4, <1>5 DEF RatesInv, LimiterTypeOK
    <2>2. \A c \in Buckets : Len(queues'[c]) <= MaxQueue
      <3>1. Len(Append(q, f)) <= MaxQueue
        BY <1>1, <1>8, LimitsAssumption
      <3>2. \A c \in Buckets : Len(queues[c]) <= MaxQueue
        BY DEF RatesInv, LimiterTypeOK
      <3> QED BY <1>9, <3>1, <3>2
    <2>3. queues' \in [Buckets -> Seq(Fetches)]
      BY <1>3, <1>7, <1>8
    <2> QED BY <1>1, <1>3, <2>1, <2>2, <2>3 DEF RatesInv, LimiterTypeOK, Timers
  <1>11. QueuesHoldWaiting'
    <2>1. \A c \in Buckets : queues'[c] # << >> => c \in DOMAIN buckets'
      BY <1>4, <1>6, <1>9 DEF RatesInv, QueuesHoldWaiting
    <2>2. ASSUME NEW c \in Buckets, NEW i \in 1..Len(queues[c])
          PROVE  /\ queues[c][i] \in Fetches /\ queues[c][i] # f
                 /\ task'[queues[c][i]] = "queued" /\ Bucket(queues[c][i]) = c
      <3>1. queues[c][i] \in Fetches
        BY <1>7
      <3> QED BY <1>1, <3>1 DEF RatesInv, QueuesHoldWaiting
    <2>3. ASSUME NEW c \in Buckets, c # b
          PROVE  \A i \in 1..Len(queues'[c]) :
                    /\ task'[queues'[c][i]] = "queued" /\ Bucket(queues'[c][i]) = c
                    /\ \A j \in 1..Len(queues'[c]) : queues'[c][i] = queues'[c][j] => i = j
      BY <1>9, <2>2, <2>3 DEF RatesInv, QueuesHoldWaiting
    <2>4. \A i \in 1..Len(queues'[b]) :
             /\ task'[queues'[b][i]] = "queued" /\ Bucket(queues'[b][i]) = b
             /\ \A j \in 1..Len(queues'[b]) : queues'[b][i] = queues'[b][j] => i = j
      <3>1. /\ queues'[b] = Append(q, f) /\ queues[b] = q /\ Bucket(f) = b
            /\ \A i \in 1..Len(q) : task'[q[i]] = "queued" /\ Bucket(q[i]) = b /\ q[i] # f
            /\ \A i, j \in 1..Len(q) : q[i] = q[j] => i = j
        BY <1>1, <1>9, <2>2 DEF RatesInv, QueuesHoldWaiting, b, q
      <3>2. \A i \in 1..(Len(q) + 1) : i \in 1..Len(q) \/ i = Len(q) + 1
        BY <1>1
      <3> QED BY <1>1, <1>8, <3>1, <3>2
    <2>5. \A g \in Fetches : Bucket(g)' = Bucket(g)
      BY DEF Bucket
    <2>6. \A c \in Buckets : \A i \in 1..Len(queues'[c]) : queues'[c][i] \in Fetches
      BY <1>10 DEF LimiterTypeOK
    <2> QED BY <2>1, <2>3, <2>4, <2>5, <2>6 DEF QueuesHoldWaiting, Bucket
  <1>12. BucketsKnow'
    <2> SUFFICES ASSUME NEW c \in Buckets
                 PROVE  IF c \in DOMAIN buckets'
                        THEN /\ buckets'[c].active = Cardinality(Running(c))
                             /\ MaxPerInterval > 0 => recent[c] = Recent(buckets'[c].started)
                        ELSE Running(c) = {} /\ (MaxPerInterval > 0 => recent[c] = << >>)
      BY <1>2 DEF BucketsKnow, Pruned
    <2>1. CASE c \in DOMAIN buckets \ E
      BY <1>4, <2>1 DEF RatesInv, BucketsKnow, Pruned
    <2>2. CASE c \notin DOMAIN buckets \ E
      <3>1. Running(c) = {} /\ (MaxPerInterval > 0 => recent[c] = << >>)
        BY <1>6, <2>2 DEF RatesInv, BucketsKnow
      <3>2. c \in DOMAIN buckets' => buckets'[c] = NewBucket
        BY <1>4, <2>2
      <3>3. Cardinality(Running(c)) = 0
        BY <3>1, FS_EmptySet
      <3> QED BY <3>1, <3>2, <3>3, NothingRecent DEF NewBucket
    <2> QED BY <2>1, <2>2
  <1>13. RatesHold'
    BY <1>2, RatesKeep DEF RatesInv, LimiterTypeOK
  <1> QED BY <1>10, <1>11, <1>12, <1>13 DEF RatesInv, DisposedIsEmpty

\* The state of a bucket after its head has started, or could not.
LEMMA Looks ==
    ASSUME RatesInv, NEW b \in DOMAIN buckets
    PROVE  /\ Looked(b) \in BucketStates /\ Looked(b).active = buckets[b].active
           /\ MaxPerInterval > 0 => Recent(Looked(b).started) = Pruned(b)
  <1>1. buckets[b] \in BucketStates /\ buckets[b].started \in Seq(Ages)
    BY DEF RatesInv, LimiterTypeOK, BucketStates
  <1>2. Pruned(b) \in Seq(Ages) /\ Recent(Pruned(b)) = Pruned(b)
    BY <1>1, RecentType, RecentOfRecent DEF Pruned
  <1>3. CASE Looked(b) = buckets[b]
    BY <1>1, <1>3 DEF Pruned
  <1>4. CASE Looked(b) = [buckets[b] EXCEPT !.started = Pruned(b)]
    BY <1>1, <1>2, <1>4 DEF BucketStates
  <1> QED BY <1>3, <1>4 DEF Looked

\* A bucket that need not wait has a slot, and a start left in the interval.
LEMMA Waits ==
    ASSUME RatesInv, NEW b \in DOMAIN buckets
    PROVE  /\ WaitTime(b) \in Ages
           /\ WaitTime(b) = 0 =>
                /\ ~Saturated(b)
                /\ MaxPerInterval > 0 => Len(Pruned(b)) < MaxPerInterval
  <1>1. buckets[b].started \in Seq(Ages)
    BY DEF RatesInv, LimiterTypeOK, BucketStates
  <1> DEFINE p == Pruned(b)
  <1>2. p \in Seq(Ages) /\ (p # << >> => Head(p) < Interval)
    BY <1>1, RecentType DEF Pruned
  <1>3. MaxPerInterval > 0 /\ Len(p) >= MaxPerInterval => p # << >> /\ Head(p) \in Ages
    BY <1>2, LimitsAssumption
  <1>4. MaxPerInterval > 0 /\ Len(p) >= MaxPerInterval =>
           Interval - Head(p) \in Ages /\ Interval - Head(p) # 0
    BY <1>2, <1>3, LimitsAssumption DEF Ages
  <1>5. Len(p) \in Nat /\ 0 \in Ages /\ 1 \in Ages
    BY <1>2, LimitsAssumption DEF Ages
  <1> HIDE DEF p
  <1>6. WaitTime(b) = IF Saturated(b) THEN 1
                      ELSE IF MaxPerInterval = 0 \/ Len(p) < MaxPerInterval THEN 0
                      ELSE Interval - Head(p)
    BY DEF WaitTime, p
  <1> QED BY <1>4, <1>5, <1>6, LimitsAssumption DEF p

\* drain() starts the head of a queue only where it may.
LEMMA DrainKeeps ==
    ASSUME RatesInv, Drain, UNCHANGED of
    PROVE  RatesInv'
  <1> DEFINE full  == {b \in pending : queues[b] # << >>}
             ready == {b \in full : WaitTime(b) = 0}
             heads == {Head(queues[b]) : b \in ready}
             waits == {WaitTime(b) : b \in full}
  <1>1. /\ buckets' = [b \in DOMAIN buckets |->
                         IF b \in ready THEN Started(b)
                         ELSE IF b \in full THEN Looked(b) ELSE buckets[b]]
        /\ queues' = [b \in Buckets |-> IF b \in ready THEN Tail(queues[b]) ELSE queues[b]]
        /\ task' = [f \in Fetches |-> IF f \in heads THEN "running" ELSE task[f]]
        /\ recent' = [b \in Buckets |-> IF b \in ready THEN Append(recent[b], 0) ELSE recent[b]]
        /\ pending' = {b \in full : b \in ready => Len(queues[b]) > 1}
        /\ scheduled' = (pending' # {} /\ 0 \in waits)
        /\ timer' = IF pending' # {} /\ 0 \notin waits
                    THEN CHOOSE w \in waits : \A v \in waits : w <= v ELSE Never
        /\ UNCHANGED <<disposed, of>>
    BY DEF Drain, DrainBuckets, DrainAgain
  <1>2. /\ full \subseteq Buckets /\ ready \subseteq full /\ full \subseteq DOMAIN buckets
        /\ \A b \in full : b \in DOMAIN buckets /\ queues[b] # << >>
    BY DEF RatesInv, LimiterTypeOK, QueuesHoldWaiting
  <1>3. \A b \in Buckets : queues[b] \in Seq(Fetches) /\ Len(queues[b]) \in Nat
    BY DEF RatesInv, LimiterTypeOK
  <1>4. \A b \in ready : /\ 1 \in 1..Len(queues[b]) /\ Head(queues[b]) = queues[b][1]
                         /\ Head(queues[b]) \in Fetches
    BY <1>2, <1>3
  <1>5. \A b \in ready : task[Head(queues[b])] = "queued" /\ Bucket(Head(queues[b])) = b
    BY <1>2, <1>4 DEF RatesInv, QueuesHoldWaiting
  <1>6. \A b \in full : WaitTime(b) \in Ages
    BY <1>2, Waits
  <1>7. \A b \in ready : ~Saturated(b) /\ (MaxPerInterval > 0 => Len(Pruned(b)) < MaxPerInterval)
    BY <1>2, Waits
  <1>8. \A b \in Buckets : b \in ready \/ b \notin ready
    OBVIOUS
  <1>9. \A f \in heads : Bucket(f) \in ready /\ f = Head(queues[Bucket(f)])
    BY <1>5
  <1>10. timer' \in Timers
    <2>1. CASE timer' = Never
      BY <2>1 DEF Timers
    <2>2. CASE pending' # {} /\ 0 \notin waits
      <3>1. waits \subseteq Ages /\ waits # {}
        BY <1>1, <1>6, <2>2
      <3>2. waits \in SUBSET Nat
        BY <3>1, AgesNat
      <3> HIDE DEF waits
      <3>3. \E w \in waits : \A v \in waits : w <= v
        BY <3>1, <3>2, Least
      <3>4. timer' \in waits
        BY <1>1, <2>2, <3>3
      <3> QED BY <3>1, <3>4 DEF Timers
    <2> QED BY <1>1, <2>1, <2>2
  <1>11. pending' \subseteq Buckets /\ scheduled' \in BOOLEAN
    BY <1>1, <1>2
  <1> HIDE DEF full, ready, heads, waits
  <1>12. \A b \in Buckets : Running(b)' = IF b \in ready THEN Running(b) \cup {Head(queues[b])}
                                          ELSE Running(b)
    <2> SUFFICES ASSUME NEW b \in Buckets, NEW f \in Fetches
                 PROVE  task'[f] = "running" /\ Bucket(f) = b
                          <=> (task[f] = "running" /\ Bucket(f) = b)
                                \/ (b \in ready /\ f = Head(queues[b]))
      BY <1>1, <1>4 DEF Running, Bucket
    <2>1. f \in heads <=> \E c \in ready : f = Head(queues[c])
      BY DEF heads
    <2> QED BY <1>1, <1>5, <1>9, <2>1
  <1>13. ASSUME NEW b \in ready
         PROVE  /\ Cardinality(Running(b)') = Cardinality(Running(b)) + 1
                /\ buckets[b].active = Cardinality(Running(b))
    <2>1. b \in Buckets /\ b \in DOMAIN buckets /\ Head(queues[b]) \notin Running(b)
      BY <1>2, <1>5 DEF Running
    <2>2. Cardinality(Running(b) \cup {Head(queues[b])}) = Cardinality(Running(b)) + 1
      BY <2>1, FS_AddElement, RunningCounts
    <2> QED BY <1>12, <2>1, <2>2 DEF RatesInv, BucketsKnow
  <1>14. ASSUME NEW b \in ready
         PROVE  /\ Started(b) \in BucketStates
                /\ Started(b).active = Cardinality(Running(b)')
                /\ MaxPerInterval > 0 => Recent(Started(b).started) = Append(Pruned(b), 0)
    <2>1. /\ Looked(b) \in BucketStates /\ Looked(b).active = buckets[b].active
          /\ MaxPerInterval > 0 => Recent(Looked(b).started) = Pruned(b)
      BY <1>2, Looks
    <2>2. Cardinality(Running(b)') \in 0..Cardinality(Fetches)
      <3>1. Running(b)' \subseteq Fetches
        BY DEF Running
      <3> QED BY <3>1, FS_Subset, FS_CardinalityType, FetchesAssumption
    <2>3. buckets[b].active + 1 = Cardinality(Running(b)')
      BY <1>13
    <2>4. Looked(b).started \in Seq(Ages) /\ Append(Looked(b).started, 0) \in Seq(Ages)
      BY <2>1, AgesNat DEF BucketStates
    <2>5. /\ Started(b) \in BucketStates /\ Started(b).active = buckets[b].active + 1
          /\ MaxPerInterval > 0 => Started(b).started = Append(Looked(b).started, 0)
      <3> DEFINE st == IF MaxPerInterval = 0 THEN Looked(b).started ELSE Append(Looked(b).started, 0)
      <3>1. st \in Seq(Ages) /\ Never \in Timers
        BY <2>4 DEF Timers
      <3>2. Started(b) = [Looked(b) EXCEPT !.active = buckets[b].active + 1, !.cleanup = Never,
                                           !.started = st]
        BY <2>1 DEF Started
      <3>3. MaxPerInterval > 0 => st = Append(Looked(b).started, 0)
        BY LimitsAssumption
      <3> HIDE DEF st
      <3> QED BY <2>1, <2>2, <2>3, <3>1, <3>2, <3>3 DEF BucketStates
    <2>6. MaxPerInterval > 0 => Recent(Started(b).started) = Append(Recent(Looked(b).started), 0)
      BY <2>4, <2>5, RecentOfAppend
    <2> QED BY <2>1, <2>3, <2>5, <2>6
  <1>15. LimiterTypeOK'
    <2>1. \A b \in DOMAIN buckets : buckets[b] \in BucketStates /\ Looked(b) \in BucketStates
      BY Looks DEF RatesInv, LimiterTypeOK
    <2>2. DOMAIN buckets' \subseteq Buckets /\ \A b \in DOMAIN buckets' : buckets'[b] \in BucketStates
      BY <1>1, <1>14, <2>1 DEF RatesInv, LimiterTypeOK
    <2>3. \A b \in ready : Tail(queues[b]) \in Seq(Fetches) /\ Len(Tail(queues[b])) <= Len(queues[b])
      BY <1>2, <1>3
    <2>4. \A b \in Buckets : queues'[b] \in Seq(Fetches) /\ Len(queues'[b]) <= Len(queues[b])
      BY <1>1, <1>3, <2>3
    <2>5. \A b \in Buckets : Len(queues'[b]) <= MaxQueue
      <3>1. \A b \in Buckets : Len(queues[b]) <= MaxQueue /\ Len(queues'[b]) \in Nat
        BY <2>4 DEF RatesInv, LimiterTypeOK
      <3> QED BY <1>3, <2>4, <3>1, LimitsAssumption
    <2>6. queues' \in [Buckets -> Seq(Fetches)]
      BY <1>1, <2>4
    <2>7. \A b \in Buckets : recent[b] \in Seq(Ages) /\ Append(recent[b], 0) \in Seq(Ages)
      BY AgesNat DEF RatesInv, LimiterTypeOK
    <2>8. recent' \in [Buckets -> Seq(Ages)]
      BY <1>1, <2>7
    <2>9. task' \in [Fetches -> {"new", "queued", "running", "bypassing", "over"}]
      BY <1>1 DEF RatesInv, LimiterTypeOK
    <2> QED BY <1>1, <1>10, <1>11, <2>2, <2>5, <2>6, <2>8, <2>9 DEF RatesInv, LimiterTypeOK
  <1>16. QueuesHoldWaiting'
    <2> SUFFICES ASSUME NEW b \in Buckets
                 PROVE  /\ queues'[b] # << >> => b \in DOMAIN buckets'
                        /\ \A i \in 1..Len(queues'[b]) :
                              /\ task'[queues'[b][i]] = "queued" /\ Bucket(queues'[b][i]) = b
                              /\ \A j \in 1..Len(queues'[b]) : queues'[b][i] = queues'[b][j] => i = j
      <3>1. of' = of
        OBVIOUS
      <3> QED BY <3>1 DEF QueuesHoldWaiting, Bucket
    <2> DEFINE q == queues[b]
    <2>1. /\ q \in Seq(Fetches)
          /\ \A i \in 1..Len(q) : /\ task[q[i]] = "queued" /\ Bucket(q[i]) = b /\ q[i] \in Fetches
                                  /\ \A j \in 1..Len(q) : q[i] = q[j] => i = j
          /\ q # << >> => b \in DOMAIN buckets
      BY <1>3 DEF RatesInv, QueuesHoldWaiting
    <2>2. DOMAIN buckets' = DOMAIN buckets
      BY <1>1
    <2>3. CASE b \in ready
      <3>1. queues'[b] = Tail(q) /\ q # << >> /\ Head(q) = q[1]
        BY <1>1, <1>2, <1>3, <2>3
      <3>2. /\ Len(Tail(q)) = Len(q) - 1
            /\ \A i \in 1..(Len(q) - 1) : Tail(q)[i] = q[i + 1] /\ i + 1 \in 1..Len(q)
        BY <2>1, <3>1
      <3> HIDE DEF q
      <3>3. ASSUME NEW i \in 2..Len(q)
            PROVE  task'[q[i]] = "queued"
        <4>1. i \in 1..Len(q) /\ 1 \in 1..Len(q) /\ i # 1
          BY <2>1
        <4>2. q[i] \in Fetches /\ Bucket(q[i]) = b /\ task[q[i]] = "queued" /\ q[i] # q[1]
          BY <2>1, <4>1
        <4>3. q[i] \notin heads
          BY <1>9, <3>1, <4>2 DEF q
        <4> QED BY <1>1, <4>2, <4>3
      <3>4. \A i \in 1..(Len(q) - 1) : i + 1 \in 2..Len(q)
        BY <2>1
      <3> QED BY <2>1, <2>2, <3>1, <3>2, <3>3, <3>4
    <2>4. CASE b \notin ready
      <3>1. queues'[b] = q
        BY <1>1, <2>4
      <3>2. \A i \in 1..Len(q) : q[i] \notin heads
        BY <1>9, <2>1, <2>4
      <3>3. \A i \in 1..Len(q) : task'[q[i]] = "queued"
        BY <1>1, <2>1, <3>2
      <3> QED BY <2>1, <2>2, <3>1, <3>3
    <2> QED BY <2>3, <2>4
  <1>17. ASSUME NEW b \in Buckets
         PROVE  IF b \in DOMAIN buckets'
                THEN /\ buckets'[b].active = Cardinality(Running(b)')
                     /\ MaxPerInterval > 0 => recent'[b] = Recent(buckets'[b].started)
                ELSE disposed \/ (Running(b)' = {} /\ (MaxPerInterval > 0 => recent'[b] = << >>))
    <2>1. CASE b \in ready
      <3>1. b \in DOMAIN buckets /\ buckets'[b] = Started(b) /\ recent'[b] = Append(recent[b], 0)
        BY <1>1, <1>2, <2>1
      <3>2. MaxPerInterval > 0 => recent[b] = Pruned(b)
        BY <3>1 DEF RatesInv, BucketsKnow
      <3> QED BY <1>1, <1>14, <2>1, <3>1, <3>2
    <2>2. CASE b \in DOMAIN buckets \ ready
      <3>1. buckets'[b] \in {Looked(b), buckets[b]} /\ recent'[b] = recent[b] /\ Running(b)' = Running(b)
        BY <1>1, <1>12, <2>2
      <3>2. Looked(b).active = buckets[b].active
            /\ (MaxPerInterval > 0 => Recent(Looked(b).started) = Pruned(b))
        BY <2>2, Looks
      <3>3. buckets[b].active = Cardinality(Running(b)) /\ (MaxPerInterval > 0 => recent[b] = Pruned(b))
        BY <2>2 DEF RatesInv, BucketsKnow
      <3> QED BY <1>1, <2>2, <3>1, <3>2, <3>3 DEF Pruned
    <2>3. CASE b \notin DOMAIN buckets
      <3>1. b \notin ready /\ recent'[b] = recent[b] /\ Running(b)' = Running(b) /\ b \notin DOMAIN buckets'
        BY <1>1, <1>2, <1>12, <2>3
      <3> QED BY <2>3, <3>1 DEF RatesInv, BucketsKnow
    <2> QED BY <2>1, <2>2, <2>3
  <1>18. BucketsKnow'
    BY <1>1, <1>17 DEF BucketsKnow, Pruned
  <1>19. RatesHold'
    <2> SUFFICES ASSUME NEW b \in Buckets
                 PROVE  /\ MaxPerInterval > 0 => Len(recent'[b]) <= MaxPerInterval
                        /\ MaxConcurrent > 0 => Cardinality(Running(b)') <= MaxConcurrent \/ disposed
      BY <1>1 DEF RatesHold, Running
    <2>1. /\ MaxPerInterval > 0 => Len(recent[b]) <= MaxPerInterval
          /\ MaxConcurrent > 0 => Cardinality(Running(b)) <= MaxConcurrent \/ disposed
      BY DEF RatesInv, RatesHold, Running
    <2>2. CASE b \notin ready
      BY <1>1, <1>12, <2>1, <2>2
    <2>3. CASE b \in ready
      <3>1. b \in DOMAIN buckets
        BY <1>2, <2>3
      <3>2. MaxPerInterval > 0 => recent[b] = Pruned(b) /\ Len(recent[b]) < MaxPerInterval
        BY <1>7, <2>3, <3>1 DEF RatesInv, BucketsKnow
      <3>3. recent[b] \in Seq(Ages) /\ recent'[b] = Append(recent[b], 0)
        BY <1>1, <2>3 DEF RatesInv, LimiterTypeOK
      <3>4. Len(recent'[b]) = Len(recent[b]) + 1 /\ Len(recent[b]) \in Nat
        BY <3>3
      <3>5. MaxConcurrent > 0 => Cardinality(Running(b)) < MaxConcurrent
        <4>1. Cardinality(Running(b)) \in Nat
          BY RunningCounts, FS_CardinalityType
        <4> QED BY <1>7, <1>13, <2>3, <4>1, LimitsAssumption DEF Saturated
      <3>6. Cardinality(Running(b)) \in Nat
        BY RunningCounts, FS_CardinalityType
      <3> QED BY <1>13, <2>3, <3>2, <3>4, <3>5, <3>6, LimitsAssumption
    <2> QED BY <2>2, <2>3
  <1> QED BY <1>1, <1>15, <1>16, <1>18, <1>19 DEF RatesInv, DisposedIsEmpty

\* A step that queues nothing and starts nothing: what buckets know is enough.
LEMMA NothingStarted ==
    ASSUME RatesInv, LimiterTypeOK', BucketsKnow', DisposedIsEmpty',
           disposed => disposed', UNCHANGED <<queues, of>>,
           \A b \in Buckets : queues[b] # << >> => b \in DOMAIN buckets',
           \A f \in Fetches : task[f] = "queued" => task'[f] = "queued",
           \A b \in Buckets : Running(b)' \subseteq Running(b) /\ Len(recent'[b]) <= Len(recent[b])
    PROVE  RatesInv'
  <1>1. RatesHold'
    BY RatesKeep DEF LimiterTypeOK
  <1>2. QueuesHoldWaiting'
    <2>1. \A b \in Buckets : \A i \in 1..Len(queues[b]) : queues[b][i] \in Fetches
      BY DEF RatesInv, LimiterTypeOK
    <2> QED BY <2>1 DEF RatesInv, QueuesHoldWaiting, Bucket
  <1> QED BY <1>1, <1>2 DEF RatesInv

\* A running fetch leaves; what is left of its bucket may be forgotten.
LEMMA EndKeeps ==
    ASSUME RatesInv, NEW f \in Fetches, NEW b \in Buckets, b = Bucket(f), End(f, b), UNCHANGED of
    PROVE  RatesInv'
  <1> DEFINE s == [buckets[b] EXCEPT !.active = @ - 1]
  <1>1. /\ task[f] = "running" /\ f \in Running(b)
        /\ UNCHANGED <<queues, disposed, recent, of>>
    BY DEF End, Running
  <1>2. /\ task' \in [Fetches -> {"new", "queued", "running", "bypassing", "over"}]
        /\ task'[f] = "over" /\ \A g \in Fetches : g # f => task'[g] = task[g]
    BY DEF End, RunAt, RatesInv, LimiterTypeOK
  <1>3. Running(b)' = Running(b) \ {f} /\ \A c \in Buckets : c # b => Running(c)' = Running(c)
    BY <1>1, <1>2 DEF Running, Bucket
  <1>4. \A g \in Fetches : task[g] = "queued" => task'[g] = "queued"
    BY <1>1, <1>2
  <1>5. CASE disposed
    <2>1. UNCHANGED <<buckets, pending, scheduled, timer>>
      BY <1>5 DEF End
    <2>2. LimiterTypeOK'
      BY <1>1, <1>2, <2>1 DEF RatesInv, LimiterTypeOK
    <2>3. BucketsKnow' /\ DisposedIsEmpty'
      BY <1>1, <1>5, <2>1 DEF RatesInv, BucketsKnow, DisposedIsEmpty
    <2>4. \A c \in Buckets : recent[c] \in Seq(Ages)
      BY DEF RatesInv, LimiterTypeOK
    <2> QED BY <1>1, <1>3, <1>4, <2>1, <2>2, <2>3, <2>4, NothingStarted
            DEF RatesInv, QueuesHoldWaiting
  <1>6. CASE ~disposed
    <2>1. /\ buckets' = IF queues[b] # << >> \/ s.active > 0 THEN [buckets EXCEPT ![b] = s]
                        ELSE IF s.started = << >> THEN Without(buckets, {b})
                        ELSE [buckets EXCEPT ![b] = [s EXCEPT !.cleanup = Interval]]
          /\ pending' = IF queues[b] # << >> THEN pending \cup {b} ELSE pending
          /\ scheduled' = TRUE /\ timer' = Never
      BY <1>6 DEF End, ScheduleNow
    <2>2. /\ b \in DOMAIN buckets /\ buckets[b] \in BucketStates
          /\ buckets[b].active = Cardinality(Running(b))
          /\ MaxPerInterval > 0 => recent[b] = Recent(buckets[b].started)
      BY <1>1, <1>6 DEF RatesInv, BucketsKnow, LimiterTypeOK, Pruned
    <2>3. /\ Cardinality(Running(b)') = Cardinality(Running(b)) - 1
          /\ Cardinality(Running(b)') \in 0..Cardinality(Fetches)
          /\ Cardinality(Running(b)') = 0 => Running(b)' = {}
      <3>1. Cardinality(Running(b) \ {f}) = Cardinality(Running(b)) - 1
        BY <1>1, RunningCounts, FS_RemoveElement
      <3>2. Running(b) \ {f} \subseteq Running(b) /\ IsFiniteSet(Running(b) \ {f})
        BY RunningCounts, FS_Subset
      <3>3. Cardinality(Running(b) \ {f}) \in Nat /\ Cardinality(Running(b)) \in 0..Cardinality(Fetches)
            /\ (Cardinality(Running(b) \ {f}) = 0 => Running(b) \ {f} = {})
        BY <3>2, RunningCounts, FS_CardinalityType, FS_EmptySet
      <3>4. Cardinality(Fetches) \in Nat
        BY FS_CardinalityType, FetchesAssumption
      <3> QED BY <1>3, <3>1, <3>3, <3>4
    <2>4. /\ s \in BucketStates /\ s.active = Cardinality(Running(b)') /\ s.started = buckets[b].started
          /\ [s EXCEPT !.cleanup = Interval] \in BucketStates
          /\ [s EXCEPT !.cleanup = Interval].active = s.active
          /\ [s EXCEPT !.cleanup = Interval].started = s.started
      <3>1. Interval \in Timers
        BY LimitsAssumption DEF Timers, Ages
      <3> QED BY <2>2, <2>3, <3>1 DEF BucketStates
    <2>5. /\ \A c \in DOMAIN buckets : c # b => c \in DOMAIN buckets' /\ buckets'[c] = buckets[c]
          /\ DOMAIN buckets' \subseteq DOMAIN buckets
      BY <2>1 DEF Without
    <2>6. b \in DOMAIN buckets' => /\ buckets'[b] \in BucketStates
                                   /\ buckets'[b].active = Cardinality(Running(b)')
                                   /\ buckets'[b].started = buckets[b].started
      <3> HIDE DEF s
      <3> QED BY <2>1, <2>2, <2>4 DEF Without
    <2>7. b \notin DOMAIN buckets' => queues[b] = << >> /\ s.active = 0 /\ s.started = << >>
      <3>1. s.active \in Nat
        BY <2>3, <2>4
      <3> HIDE DEF s
      <3> QED BY <2>1, <2>2, <3>1 DEF Without
    <2>8. b \notin DOMAIN buckets' => Running(b)' = {} /\ (MaxPerInterval > 0 => recent[b] = << >>)
      BY <2>2, <2>3, <2>4, <2>7, NothingRecent
    <2> HIDE DEF s
    <2>9. LimiterTypeOK'
      BY <1>1, <1>2, <2>1, <2>5, <2>6 DEF RatesInv, LimiterTypeOK, Timers
    <2>10. BucketsKnow'
      <3> SUFFICES ASSUME NEW c \in Buckets
                   PROVE  IF c \in DOMAIN buckets'
                          THEN /\ buckets'[c].active = Cardinality(Running(c)')
                               /\ MaxPerInterval > 0 => recent[c] = Recent(buckets'[c].started)
                          ELSE Running(c)' = {} /\ (MaxPerInterval > 0 => recent[c] = << >>)
        BY <1>1 DEF BucketsKnow, Pruned
      <3>1. CASE c = b
        BY <2>2, <2>6, <2>8, <3>1
      <3>2. CASE c # b
        BY <1>3, <1>6, <2>5, <3>2 DEF RatesInv, BucketsKnow, Pruned
      <3> QED BY <3>1, <3>2
    <2>11. \A c \in Buckets : queues[c] # << >> => c \in DOMAIN buckets'
      BY <2>5, <2>7 DEF RatesInv, QueuesHoldWaiting
    <2>12. \A c \in Buckets : Running(c)' \subseteq Running(c) /\ Len(recent'[c]) <= Len(recent[c])
      <3>1. \A c \in Buckets : recent[c] \in Seq(Ages)
        BY DEF RatesInv, LimiterTypeOK
      <3> QED BY <1>1, <1>3, <3>1
    <2>13. DisposedIsEmpty'
      BY <1>1, <1>6 DEF DisposedIsEmpty
    <2> QED BY <1>1, <1>4, <2>9, <2>10, <2>11, <2>12, <2>13, NothingStarted
  <1> QED BY <1>5, <1>6

\* The cleanup timer prunes a bucket, and drops it if it has nothing left.
LEMMA CleanupKeeps ==
    ASSUME RatesInv, NEW b \in Buckets, Cleanup(b), UNCHANGED of
    PROVE  RatesInv'
  <1> DEFINE s == [buckets[b] EXCEPT !.cleanup = Never, !.started = Pruned(b)]
  <1>1. /\ b \in DOMAIN buckets
        /\ buckets' = IF s.active = 0 /\ s.started = << >> /\ queues[b] = << >>
                      THEN Without(buckets, {b}) ELSE [buckets EXCEPT ![b] = s]
        /\ UNCHANGED <<queues, pending, scheduled, timer, disposed, task, recent, of>>
    BY DEF Cleanup
  <1>2. buckets[b] \in BucketStates /\ buckets[b].started \in Seq(Ages)
    BY <1>1 DEF RatesInv, LimiterTypeOK, BucketStates
  <1>3. Pruned(b) \in Seq(Ages) /\ Recent(Pruned(b)) = Pruned(b)
    BY <1>2, RecentType, RecentOfRecent DEF Pruned
  <1>4. s \in BucketStates /\ s.active = buckets[b].active /\ s.started = Pruned(b)
    BY <1>2, <1>3 DEF BucketStates, Timers
  <1> HIDE DEF s
  <1>5. \A c \in Buckets : Running(c)' = Running(c)
    BY <1>1 DEF Running, Bucket
  <1>6. /\ \A c \in DOMAIN buckets : c # b => c \in DOMAIN buckets' /\ buckets'[c] = buckets[c]
        /\ DOMAIN buckets' \subseteq DOMAIN buckets
        /\ b \in DOMAIN buckets' => buckets'[b] = s
        /\ b \notin DOMAIN buckets' => s.active = 0 /\ s.started = << >> /\ queues[b] = << >>
    BY <1>1 DEF Without
  <1>7. /\ buckets[b].active = Cardinality(Running(b))
        /\ MaxPerInterval > 0 => recent[b] = Pruned(b)
    BY <1>1 DEF RatesInv, BucketsKnow
  <1>8. LimiterTypeOK'
    BY <1>1, <1>4, <1>6 DEF RatesInv, LimiterTypeOK
  <1>9. BucketsKnow'
    <2> SUFFICES ASSUME NEW c \in Buckets
                 PROVE  IF c \in DOMAIN buckets'
                        THEN /\ buckets'[c].active = Cardinality(Running(c))
                             /\ MaxPerInterval > 0 => recent[c] = Recent(buckets'[c].started)
                        ELSE disposed \/ (Running(c) = {} /\ (MaxPerInterval > 0 => recent[c] = << >>))
      BY <1>1, <1>5 DEF BucketsKnow, Pruned
    <2>1. CASE c = b
      BY <1>3, <1>4, <1>6, <1>7, <2>1, RunningCounts
    <2>2. CASE c # b
      BY <1>6, <2>2 DEF RatesInv, BucketsKnow, Pruned
    <2> QED BY <2>1, <2>2
  <1>10. DisposedIsEmpty'
    BY <1>1, <1>6 DEF RatesInv, DisposedIsEmpty
  <1>11. \A c \in Buckets : queues[c] # << >> => c \in DOMAIN buckets'
    BY <1>6 DEF RatesInv, QueuesHoldWaiting
  <1>12. \A c \in Buckets : Running(c)' \subseteq Running(c) /\ Len(recent'[c]) <= Len(recent[c])
    <2>1. \A c \in Buckets : recent[c] \in Seq(Ages)
      BY DEF RatesInv, LimiterTypeOK
    <2> QED BY <1>1, <1>5, <2>1
  <1> QED BY <1>1, <1>8, <1>9, <1>10, <1>11, <1>12, NothingStarted

\* dispose() empties everything but the history.
LEMMA DisposeKeeps ==
    ASSUME RatesInv, Dispose, UNCHANGED of
    PROVE  RatesInv'
  <1>1. /\ disposed' = TRUE /\ buckets' = NoBuckets /\ queues' = [b \in Buckets |-> << >>]
        /\ pending' = {} /\ scheduled' = FALSE /\ timer' = Never
        /\ task' = [f \in Fetches |-> IF task[f] = "queued" THEN "over" ELSE task[f]]
        /\ UNCHANGED <<recent, of>>
    BY DEF Dispose
  <1>2. DOMAIN buckets' = {} /\ \A b \in Buckets : queues'[b] = << >>
    BY <1>1 DEF NoBuckets
  <1>3. \A b \in Buckets : Running(b)' = Running(b)
    BY <1>1 DEF Running, Bucket
  <1>4. LimiterTypeOK'
    <2>1. << >> \in Seq(Fetches) /\ Len(<< >>) <= MaxQueue
      BY LimitsAssumption
    <2>2. queues' \in [Buckets -> Seq(Fetches)] /\ \A b \in Buckets : Len(queues'[b]) <= MaxQueue
      BY <1>1, <2>1
    <2>3. task' \in [Fetches -> {"new", "queued", "running", "bypassing", "over"}]
      BY <1>1 DEF RatesInv, LimiterTypeOK
    <2> QED BY <1>1, <1>2, <2>2, <2>3 DEF RatesInv, LimiterTypeOK, Timers
  <1>5. QueuesHoldWaiting'
    BY <1>2 DEF QueuesHoldWaiting
  <1>6. BucketsKnow' /\ DisposedIsEmpty'
    BY <1>1, <1>2 DEF BucketsKnow, DisposedIsEmpty
  <1>7. RatesHold'
    <2>1. \A b \in Buckets : recent[b] \in Seq(Ages)
      BY DEF RatesInv, LimiterTypeOK
    <2> QED BY <1>1, <1>3, <2>1, RatesKeep
  <1> QED BY <1>1, <1>4, <1>5, <1>6, <1>7 DEF RatesInv

\* Time passes.
LEMMA TickKeeps ==
    ASSUME RatesInv, LimiterTick, UNCHANGED of
    PROVE  RatesInv'
  <1>1. /\ buckets' = [b \in DOMAIN buckets |->
                         [buckets[b] EXCEPT !.started = Older(@), !.cleanup = Sooner(@)]]
        /\ timer' = Sooner(timer)
        /\ recent' = [b \in Buckets |-> Recent(Older(recent[b]))]
        /\ UNCHANGED <<queues, pending, scheduled, disposed, task, of>>
    BY DEF LimiterTick
  <1>2. \A t \in Timers : Sooner(t) \in Timers
    BY LimitsAssumption DEF Timers, Ages, Sooner, Never
  <1>3. ASSUME NEW b \in DOMAIN buckets
        PROVE  /\ buckets'[b] \in BucketStates /\ buckets'[b].active = buckets[b].active
               /\ buckets'[b].started = Older(buckets[b].started)
    <2>1. buckets[b] \in BucketStates
      BY DEF RatesInv, LimiterTypeOK
    <2>2. Older(buckets[b].started) \in Seq(Ages) /\ Sooner(buckets[b].cleanup) \in Timers
      BY <1>2, <2>1, OlderType DEF BucketStates
    <2>3. buckets'[b] = [buckets[b] EXCEPT !.started = Older(buckets[b].started),
                                           !.cleanup = Sooner(buckets[b].cleanup)]
      BY <1>1
    <2> QED BY <2>1, <2>2, <2>3 DEF BucketStates
  <1>4. ASSUME NEW b \in Buckets
        PROVE  /\ recent[b] \in Seq(Ages) /\ recent'[b] = Recent(Older(recent[b]))
               /\ recent'[b] \in Seq(Ages) /\ Len(recent'[b]) <= Len(recent[b])
    <2>1. recent[b] \in Seq(Ages)
      BY DEF RatesInv, LimiterTypeOK
    <2>2. Older(recent[b]) \in Seq(Ages) /\ Len(Older(recent[b])) = Len(recent[b])
      BY <2>1, OlderType
    <2> QED BY <1>1, <2>1, <2>2, RecentType
  <1>5. DOMAIN buckets' = DOMAIN buckets
    BY <1>1
  <1>6. \A b \in Buckets : Running(b)' = Running(b)
    BY <1>1 DEF Running, Bucket
  <1>7. LimiterTypeOK'
    <2>1. recent' \in [Buckets -> Seq(Ages)]
      BY <1>1, <1>4
    <2> QED BY <1>1, <1>2, <1>3, <1>5, <2>1 DEF RatesInv, LimiterTypeOK
  <1>8. BucketsKnow'
    <2> SUFFICES ASSUME NEW b \in Buckets
                 PROVE  IF b \in DOMAIN buckets
                        THEN /\ buckets'[b].active = Cardinality(Running(b))
                             /\ MaxPerInterval > 0 => recent'[b] = Recent(buckets'[b].started)
                        ELSE disposed \/ (Running(b) = {} /\ (MaxPerInterval > 0 => recent'[b] = << >>))
      BY <1>1, <1>5, <1>6 DEF BucketsKnow, Pruned
    <2>1. CASE b \in DOMAIN buckets
      <3>1. buckets[b].started \in Seq(Ages)
        BY <2>1 DEF RatesInv, LimiterTypeOK, BucketStates
      <3>2. MaxPerInterval > 0 => recent[b] = Recent(buckets[b].started)
        BY <2>1 DEF RatesInv, BucketsKnow, Pruned
      <3>3. Recent(Older(buckets[b].started)) = Recent(Older(Recent(buckets[b].started)))
        BY <3>1, RecentOfOlder
      <3>4. buckets[b].active = Cardinality(Running(b))
        BY <2>1 DEF RatesInv, BucketsKnow
      <3> QED BY <1>3, <1>4, <2>1, <3>2, <3>3, <3>4
    <2>2. CASE b \notin DOMAIN buckets
      <3>1. disposed \/ (Running(b) = {} /\ (MaxPerInterval > 0 => recent[b] = << >>))
        BY <2>2 DEF RatesInv, BucketsKnow
      <3>2. recent[b] = << >> => recent'[b] = << >>
        BY <1>4
      <3> QED BY <2>2, <3>1, <3>2
    <2> QED BY <2>1, <2>2
  <1>9. DisposedIsEmpty'
    BY <1>1, <1>5 DEF RatesInv, DisposedIsEmpty
  <1> QED BY <1>1, <1>4, <1>5, <1>6, <1>7, <1>8, <1>9, NothingStarted
          DEF RatesInv, QueuesHoldWaiting

-----------------------------------------------------------------------------
(* The steps.                                                              *)

\* A fetch is refused by the breaker or scheduled.
LEMMA FetchKeeps ==
    ASSUME RatesInv, NEW f \in Fetches, Fetch(f)
    PROVE  RatesInv'
  <1>1. UNCHANGED of
    BY DEF Fetch
  <1>2. CASE IsOpenIn(breakers, Breaker(f))
    <2>1. /\ task[f] = "new" /\ RunAt(f, "over")
          /\ UNCHANGED <<buckets, queues, pending, scheduled, timer, disposed, recent>>
      BY <1>2 DEF Fetch
    <2>2. task' \in [Fetches -> {"new", "queued", "running", "bypassing", "over"}]
          /\ \A g \in Fetches : task[g] # "new" => task'[g] = task[g]
      BY <2>1 DEF RunAt, RatesInv, LimiterTypeOK
    <2>3. \A b \in Buckets : Running(b)' = Running(b)
      BY <1>1, <2>1 DEF Running, Bucket, RunAt, RatesInv, LimiterTypeOK
    <2>4. LimiterTypeOK'
      BY <2>1, <2>2 DEF RatesInv, LimiterTypeOK
    <2>5. BucketsKnow'
      BY <2>1, <2>3 DEF RatesInv, BucketsKnow, Pruned
    <2>6. \A b \in Buckets : recent[b] \in Seq(Ages)
      BY DEF RatesInv, LimiterTypeOK
    <2> QED BY <1>1, <2>1, <2>2, <2>3, <2>4, <2>5, <2>6, NothingStarted
            DEF RatesInv, QueuesHoldWaiting, DisposedIsEmpty
  <1>3. CASE ~IsOpenIn(breakers, Breaker(f))
    <2> DEFINE b == Bucket(f)
               evictions == IF b \in DOMAIN buckets \/ Cardinality(DOMAIN buckets) < MaxBuckets
                            THEN {{}} ELSE Evictions
               after(E) == [c \in DOMAIN Without(buckets, E) \cup {b} |->
                              IF c \in DOMAIN Without(buckets, E) THEN Without(buckets, E)[c]
                              ELSE NewBucket]
    <2>1. PICK E \in evictions :
             \/ /\ ~disposed /\ Len(queues[b]) < MaxQueue
                /\ Push(f, b, after(E))
             \/ \E where \in {"bypassing", "over"} :
                   /\ buckets' = Without(buckets, E)
                   /\ RunAt(f, where)
                   /\ UNCHANGED <<queues, pending, scheduled, timer>>
      BY <1>3 DEF Fetch, Schedule
    <2>2. E \in SUBSET {c \in DOMAIN buckets : IsIdle(c)}
      BY DEF Evictions
    <2>3. task[f] = "new" /\ UNCHANGED <<disposed, recent>>
      BY <1>3 DEF Fetch, Schedule
    <2> HIDE DEF evictions
    <2>4. CASE ~disposed /\ Len(queues[b]) < MaxQueue /\ Push(f, b, after(E))
      BY <1>1, <2>2, <2>3, <2>4, PushKeeps
    <2>5. ASSUME NEW where \in {"bypassing", "over"}, buckets' = Without(buckets, E), RunAt(f, where),
                 UNCHANGED <<queues, pending, scheduled, timer>>
          PROVE  RatesInv'
      BY <1>1, <2>2, <2>3, <2>5, RefusedKeeps
    <2> QED BY <2>1, <2>4, <2>5
  <1> QED BY <1>2, <1>3

\* A fetcher settles.
LEMMA SettleKeeps ==
    ASSUME RatesInv, NEW f \in Fetches, NEW success \in BOOLEAN, Settle(f, success)
    PROVE  RatesInv'
  <1>1. UNCHANGED of /\ (End(f, Bucket(f)) \/ EndBypass(f))
    BY DEF Settle
  <1>2. CASE EndBypass(f)
    <2>1. /\ task[f] = "bypassing" /\ RunAt(f, "over")
          /\ UNCHANGED <<buckets, queues, pending, scheduled, timer, disposed, recent>>
      BY <1>2 DEF EndBypass
    <2>2. task' \in [Fetches -> {"new", "queued", "running", "bypassing", "over"}]
          /\ \A g \in Fetches : task[g] # "bypassing" => task'[g] = task[g]
      BY <2>1 DEF RunAt, RatesInv, LimiterTypeOK
    <2>3. \A b \in Buckets : Running(b)' = Running(b)
      BY <1>1, <2>1 DEF Running, Bucket, RunAt, RatesInv, LimiterTypeOK
    <2>4. LimiterTypeOK'
      BY <2>1, <2>2 DEF RatesInv, LimiterTypeOK
    <2>5. BucketsKnow'
      BY <2>1, <2>3 DEF RatesInv, BucketsKnow, Pruned
    <2>6. \A b \in Buckets : recent[b] \in Seq(Ages)
      BY DEF RatesInv, LimiterTypeOK
    <2> QED BY <1>1, <2>1, <2>2, <2>3, <2>4, <2>5, <2>6, NothingStarted
            DEF RatesInv, QueuesHoldWaiting, DisposedIsEmpty
  <1>3. CASE End(f, Bucket(f))
    <2>1. PICK b \in Buckets : b = Bucket(f)
      BY BucketExists DEF RatesInv
    <2>2. End(f, b)
      BY <1>3, <2>1
    <2> QED BY <1>1, <2>1, <2>2, EndKeeps
  <1> QED BY <1>1, <1>2, <1>3

\* Steps of the breakers do not concern the limiter.
LEMMA OthersKeep ==
    ASSUME RatesInv, UNCHANGED <<limiterVars, of>>
    PROVE  RatesInv'
  <1>1. UNCHANGED <<buckets, queues, pending, scheduled, timer, disposed, task, recent, of>>
    BY DEF limiterVars
  <1>2. \A b \in Buckets : Running(b)' = Running(b)
    BY <1>1 DEF Running, Bucket
  <1>3. LimiterTypeOK' /\ BucketsKnow' /\ DisposedIsEmpty'
    BY <1>1, <1>2 DEF RatesInv, LimiterTypeOK, BucketsKnow, DisposedIsEmpty, Pruned
  <1>4. \A b \in Buckets : recent[b] \in Seq(Ages)
    BY DEF RatesInv, LimiterTypeOK
  <1> QED BY <1>1, <1>2, <1>3, <1>4, NothingStarted DEF RatesInv, QueuesHoldWaiting

\* Every step keeps the invariant.
LEMMA NextRates == RatesInv /\ [Next]_vars => RatesInv'
  <1> SUFFICES ASSUME RatesInv, [Next]_vars
               PROVE  RatesInv'
    OBVIOUS
  <1>1. CASE \E f \in Fetches : Fetch(f)
    BY <1>1, FetchKeeps
  <1>2. CASE \E f \in Fetches, success \in BOOLEAN : Settle(f, success)
    BY <1>2, SettleKeeps
  <1>3. CASE Limiter(Drain)
    BY <1>3, DrainKeeps DEF Limiter
  <1>4. CASE Limiter(Dispose)
    BY <1>4, DisposeKeeps DEF Limiter
  <1>5. CASE \E b \in Buckets : Limiter(Cleanup(b))
    BY <1>5, CleanupKeeps DEF Limiter
  <1>6. CASE Tick
    BY <1>6, TickKeeps DEF Tick
  <1>7. CASE (\E k \in Keys \cap Breakers : Invalidate(k)) \/ Clear \/ UNCHANGED vars
    <2>1. UNCHANGED <<limiterVars, of>>
      BY <1>7 DEF Invalidate, Clear, vars
    <2> QED BY <2>1, OthersKeep
  <1> QED BY <1>1, <1>2, <1>3, <1>4, <1>5, <1>6, <1>7 DEF Next

\* No bucket starts more fetches within an interval than it may, and no more
\* run at once, though idle buckets are dropped and created anew
\* (drain, waitTime, evictIdleBuckets, cleanupBucket).
THEOREM RatesAreKept == Spec => []RatesHold
  <1>1. Init => RatesInv
    BY InitRates
  <1>2. RatesInv => RatesHold
    BY DEF RatesInv
  <1> QED BY <1>1, <1>2, NextRates, PTL DEF Spec

-----------------------------------------------------------------------------
(* The table of breakers: what is left when positions are taken out.       *)

\* How many elements of K come before j.
Rank(K, j) == Cardinality({h \in K : h < j})

LEMMA PositionsNat ==
    ASSUME NEW N \in Nat, NEW K \in SUBSET (1..N)
    PROVE  \A h \in K : h \in Nat /\ 1 <= h /\ h <= N
  <1> SUFFICES ASSUME NEW h \in K PROVE h \in Nat /\ 1 <= h /\ h <= N
    OBVIOUS
  <1>1. h \in 1..N
    OBVIOUS
  <1> QED BY <1>1

LEMMA PositionsFinite ==
    ASSUME NEW N \in Nat, NEW K \in SUBSET (1..N)
    PROVE  /\ IsFiniteSet(K) /\ Cardinality(K) \in Nat
           /\ \A j : Rank(K, j) \in Nat /\ Rank(K, j) <= Cardinality(K)
  <1>1. IsFiniteSet(1..N)
    BY FS_Interval
  <1>2. IsFiniteSet(K) /\ Cardinality(K) \in Nat
    BY <1>1, FS_Subset, FS_CardinalityType
  <1>3. ASSUME NEW j PROVE Rank(K, j) \in Nat /\ Rank(K, j) <= Cardinality(K)
    <2>1. {h \in K : h < j} \in SUBSET K
      OBVIOUS
    <2> QED BY <1>2, <2>1, FS_Subset, FS_CardinalityType DEF Rank
  <1> QED BY <1>2, <1>3

\* A non-empty set of positions has a last one, and all others come before it.
LEMMA LastPosition ==
    ASSUME NEW N \in Nat, NEW K \in SUBSET (1..N), K # {}
    PROVE  \E g \in K : {h \in K : h < g} = K \ {g} /\ Rank(K, g) = Cardinality(K) - 1
  <1>0. \A h \in K : h \in Nat /\ h <= N
    BY PositionsNat
  <1> DEFINE T == {N - h : h \in K}
  <1>1. PICK n \in T : \A m \in T : n <= m
    <2>1. \A h \in K : N - h \in Nat
      BY <1>0
    <2>2. T # {} /\ T \in SUBSET Nat
      BY <2>1
    <2> HIDE DEF T
    <2> QED BY <2>2, Least
  <1>2. PICK g \in K : n = N - g
    BY <1>1
  <1>3. \A h \in K : h <= g
    <2> SUFFICES ASSUME NEW h \in K PROVE h <= g
      OBVIOUS
    <2>1. N - h \in T
      OBVIOUS
    <2>2. n <= N - h
      BY <1>1, <2>1
    <2> QED BY <1>0, <1>2, <2>2
  <1>4. {h \in K : h < g} = K \ {g}
    <2>1. \A h \in K : h < g <=> h # g
      BY <1>0, <1>3
    <2> QED BY <2>1
  <1>5. Cardinality(K \ {g}) = Cardinality(K) - 1
    BY PositionsFinite, FS_RemoveElement
  <1> QED BY <1>4, <1>5 DEF Rank

\* Ranks tell positions apart, and all ranks are taken.
LEMMA RankGrows ==
    ASSUME NEW N \in Nat, NEW K \in SUBSET (1..N), NEW i \in K, NEW j \in K, i < j
    PROVE  Rank(K, i) < Rank(K, j)
  <1>0. \A h \in K : h \in Nat
    BY PositionsNat
  <1> DEFINE before == {h \in K : h < i}
             after  == {h \in K : h < j}
  <1>1. before \cup {i} \in SUBSET after /\ i \notin before
    <2>1. i \in Nat /\ j \in Nat
      BY <1>0
    <2>2. ~(i < i) /\ \A h \in K : h < i => h < j
      BY <1>0, <2>1
    <2> QED BY <2>2
  <1>2. IsFiniteSet(before) /\ IsFiniteSet(after) /\ Cardinality(before) \in Nat /\ Cardinality(after) \in Nat
    <2>1. before \in SUBSET (1..N) /\ after \in SUBSET (1..N)
      OBVIOUS
    <2> HIDE DEF before, after
    <2> QED BY <2>1, PositionsFinite
  <1> HIDE DEF before, after
  <1>3. Cardinality(before) + 1 <= Cardinality(after)
    <2>1. Cardinality(before \cup {i}) = Cardinality(before) + 1
      BY <1>1, <1>2, FS_AddElement
    <2>2. Cardinality(before \cup {i}) <= Cardinality(after)
      BY <1>1, <1>2, FS_Subset
    <2> QED BY <2>1, <2>2
  <1>4. Rank(K, i) = Cardinality(before) /\ Rank(K, j) = Cardinality(after)
    BY DEF Rank, before, after
  <1> QED BY <1>2, <1>3, <1>4

LEMMA RanksApart ==
    ASSUME NEW N \in Nat, NEW K \in SUBSET (1..N), NEW i \in K, NEW j \in K, Rank(K, i) = Rank(K, j)
    PROVE  i = j
  <1>1. i \in Nat /\ j \in Nat /\ Rank(K, i) \in Nat /\ Rank(K, j) \in Nat
    BY PositionsFinite, PositionsNat
  <1>2. i < j => Rank(K, i) < Rank(K, j)
    BY RankGrows
  <1>3. j < i => Rank(K, j) < Rank(K, i)
    BY RankGrows
  <1> QED BY <1>1, <1>2, <1>3

LEMMA RanksTaken ==
    ASSUME NEW N \in Nat, NEW K \in SUBSET (1..N), NEW m \in Nat, m < Cardinality(K)
    PROVE  \E j \in K : Rank(K, j) = m
  <1> DEFINE T == {j \in K : Rank(K, j) >= m}
  <1>0. Cardinality(K) \in Nat /\ \A j \in K : Rank(K, j) \in Nat
    BY PositionsFinite
  <1>1. T # {} /\ T \in SUBSET Nat
    <2>1. K # {}
      BY <1>0, FS_EmptySet
    <2>2. PICK g \in K : Rank(K, g) = Cardinality(K) - 1
      BY <2>1, LastPosition
    <2>3. T \in SUBSET Nat
      BY PositionsNat
    <2> QED BY <1>0, <2>2, <2>3
  <1>2. PICK j \in T : \A t \in T : j <= t
    <2> HIDE DEF T
    <2> QED BY <1>1, Least
  <1>3. ASSUME Rank(K, j) # m PROVE FALSE
    <2> DEFINE P == {h \in K : h < j}
    <2>1. P \in SUBSET (1..N) /\ Cardinality(P) = Rank(K, j) /\ \A p \in P : p \in K /\ p < j
      BY DEF Rank
    <2>2. P # {}
      BY <1>0, <1>2, <1>3, <2>1, FS_EmptySet
    <2>3. PICK p \in P : Rank(P, p) = Cardinality(P) - 1
      <3> HIDE DEF P
      <3> QED BY <2>1, <2>2, LastPosition
    <2>3a. \A h \in K : h \in Nat
      BY PositionsNat
    <2>3b. \A h \in K : h < p => h < j
      BY <1>2, <2>1, <2>3a
    <2>4. {h \in K : h < p} = {h \in P : h < p}
      BY <2>3b
    <2>5. Rank(K, p) = Rank(K, j) - 1
      BY <2>1, <2>3, <2>4 DEF Rank
    <2>6. p \in Nat /\ j \in Nat /\ p \in K /\ p < j /\ j \in K
      BY <1>2, <2>1, <2>3a
    <2>7. p \in T
      BY <1>0, <1>2, <1>3, <2>5, <2>6
    <2> QED BY <1>2, <2>6, <2>7
  <1> QED BY <1>2, <1>3

\* What DropAt leaves: the other entries, in their order.
IsRest(r, bs, gone) ==
    /\ r \in Seq(BreakerStates)
    /\ Len(r) = Len(bs) - Cardinality(gone) /\ Len(r) \in Nat /\ Cardinality(gone) \in Nat
    /\ \A i \in DOMAIN r : \E j \in DOMAIN bs \ gone : r[i] = bs[j] /\ Rank(DOMAIN bs \ gone, j) = i - 1
    /\ \A j \in DOMAIN bs \ gone : \E i \in DOMAIN r : r[i] = bs[j]

LEMMA DropAtIs ==
    ASSUME NEW bs \in Seq(BreakerStates), NEW gone \in SUBSET DOMAIN bs
    PROVE  IsRest(DropAt(bs, gone), bs, gone)
  <1> DEFINE N == Len(bs)
             K == DOMAIN bs \ gone
             n == Cardinality(gone)
             r == DropAt(bs, gone)
             at(i) == CHOOSE j \in K : Rank(K, j) = i - 1
  <1>1. N \in Nat /\ DOMAIN bs = 1..N /\ K \in SUBSET (1..N) /\ gone \in SUBSET (1..N)
        /\ \A j \in 1..N : bs[j] \in BreakerStates
    OBVIOUS
  <1>2. n \in Nat /\ Cardinality(K) = N - n /\ Cardinality(K) \in Nat
    <2> DEFINE D == 1..N
    <2>1. IsFiniteSet(D) /\ Cardinality(D) = N
      BY <1>1, FS_Interval
    <2>2. D \cap gone = gone /\ K = D \ gone
      BY <1>1
    <2> HIDE DEF D, K
    <2>3. Cardinality(D \ gone) = Cardinality(D) - Cardinality(D \cap gone)
      BY <2>1, FS_Difference
    <2>4. Cardinality(K) = N - n
      BY <2>1, <2>2, <2>3
    <2> QED BY <1>1, <2>4, PositionsFinite
  <1>3. r = [i \in 1..(N - n) |-> bs[at(i)]]
    BY DEF DropAt, Rank
  <1> HIDE DEF r, K, N, n
  <1>4. ASSUME NEW i \in 1..(N - n) PROVE at(i) \in K /\ Rank(K, at(i)) = i - 1
    <2>1. i \in Int /\ 1 <= i /\ i <= N - n
      BY <1>1, <1>2
    <2>2. i - 1 \in Nat /\ i - 1 < Cardinality(K)
      BY <1>1, <1>2, <2>1
    <2>3. \E j \in K : Rank(K, j) = i - 1
      BY <1>1, <2>2, RanksTaken
    <2> QED BY <2>3
  <1>5. N - n \in Nat
    BY <1>2
  <1>6. r \in Seq(BreakerStates) /\ Len(r) = N - n /\ DOMAIN r = 1..(N - n)
    <2>1. \A i \in 1..(N - n) : bs[at(i)] \in BreakerStates
      BY <1>1, <1>4
    <2>2. r \in [1..(N - n) -> BreakerStates]
      BY <1>3, <2>1
    <2> QED BY <1>5, <2>2, SeqDef DEF Seq
  <1>7. \A i \in DOMAIN r : \E j \in K : r[i] = bs[j] /\ Rank(K, j) = i - 1
    BY <1>3, <1>4, <1>6
  <1>8. ASSUME NEW j \in K PROVE \E i \in DOMAIN r : r[i] = bs[j]
    <2> DEFINE i == Rank(K, j) + 1
    <2>1. Rank(K, j) \in Nat /\ Rank(K, j) < Cardinality(K)
      <3>1. PICK g \in K : Rank(K, g) = Cardinality(K) - 1 /\ {h \in K : h < g} = K \ {g}
        BY <1>1, LastPosition
      <3>2. j = g \/ j < g
        BY <3>1
      <3>3. j = g \/ Rank(K, j) < Rank(K, g)
        BY <1>1, <3>2, RankGrows
      <3>4. Rank(K, j) \in Nat /\ Rank(K, g) \in Nat
        BY <1>1, PositionsFinite
      <3> QED BY <1>2, <3>1, <3>3, <3>4
    <2>2. i \in 1..(N - n) /\ Rank(K, j) = i - 1
      BY <1>2, <2>1
    <2> HIDE DEF i
    <2>3. at(i) = j
      BY <1>1, <1>4, <2>2, RanksApart
    <2> QED BY <1>3, <1>6, <2>2, <2>3
  <1> QED BY <1>2, <1>5, <1>6, <1>7, <1>8 DEF IsRest, r, K, N, n

\* FirstOf takes all the positions, or as many as it may.
LEMMA FirstOfIs ==
    ASSUME NEW N \in Nat, NEW hits \in SUBSET (1..N), NEW n \in Nat
    PROVE  /\ FirstOf(hits, n) \in SUBSET hits
           /\ FirstOf(hits, n) # hits => Cardinality(FirstOf(hits, n)) >= n
  <1> DEFINE g == FirstOf(hits, n)
  <1>1. g \in SUBSET hits /\ \A i \in hits : i \in g <=> Rank(hits, i) < n
    BY DEF FirstOf, Rank
  <1> HIDE DEF g
  <1>2. ASSUME g # hits PROVE Cardinality(g) >= n
    <2>1. hits \ g # {} /\ hits \ g \in SUBSET Nat
      BY <1>1, <1>2, PositionsNat
    <2>2. PICK i \in hits \ g : \A m \in hits \ g : i <= m
      BY <2>1, Least
    <2>3a. \A h \in hits : h \in Nat
      BY PositionsNat
    <2>3b. \A h \in hits : h < i => h \in g
      BY <2>2, <2>3a
    <2>3. {h \in hits : h < i} \in SUBSET g
      BY <2>3b
    <2>4. IsFiniteSet(g) /\ Cardinality(g) \in Nat /\ Rank(hits, i) \in Nat
      BY <1>1, PositionsFinite
    <2>5. Rank(hits, i) <= Cardinality(g)
      BY <2>3, <2>4, FS_Subset DEF Rank
    <2>6. ~(Rank(hits, i) < n)
      BY <1>1, <2>2
    <2> QED BY <2>4, <2>5, <2>6
  <1> QED BY <1>1, <1>2 DEF g

-----------------------------------------------------------------------------
(* The breakers, and the failures they count.                              *)

KeysApart(bs) == \A i, j \in DOMAIN bs : bs[i].key = bs[j].key => i = j

LEMMA DropAtApart ==
    ASSUME NEW bs \in Seq(BreakerStates), NEW gone \in SUBSET DOMAIN bs, KeysApart(bs)
    PROVE  KeysApart(DropAt(bs, gone))
  <1> DEFINE r == DropAt(bs, gone)
             K == DOMAIN bs \ gone
  <1>0. IsRest(r, bs, gone)
    BY DropAtIs
  <1> HIDE DEF r
  <1>1. /\ r \in Seq(BreakerStates)
        /\ \A i \in DOMAIN r : \E j \in K : r[i] = bs[j] /\ Rank(K, j) = i - 1
    BY <1>0 DEF IsRest
  <1> SUFFICES ASSUME NEW i \in DOMAIN r, NEW h \in DOMAIN r, r[i].key = r[h].key PROVE i = h
    BY DEF KeysApart, r
  <1>2. PICK j \in K : r[i] = bs[j] /\ Rank(K, j) = i - 1
    BY <1>1
  <1>3. PICK g \in K : r[h] = bs[g] /\ Rank(K, g) = h - 1
    BY <1>1
  <1>4. j = g
    BY <1>2, <1>3 DEF KeysApart
  <1>5. DOMAIN r = 1..Len(r) /\ Len(r) \in Nat
    BY <1>1
  <1>6. i \in Int /\ h \in Int
    BY <1>5
  <1> QED BY <1>2, <1>3, <1>4, <1>6

\* Pruning takes away only whole entries, down to the limit, and one that is
\* open only when all that stay are.
LEMMA PruneBreakersIs ==
    ASSUME NEW bs \in Seq(BreakerStates), KeysApart(bs)
    PROVE  LET r == PruneBreakers(bs)
           IN  /\ r \in Seq(BreakerStates) /\ KeysApart(r) /\ Len(r) <= MaxEntries
               /\ \A i \in DOMAIN r : \E j \in DOMAIN bs : r[i] = bs[j]
               /\ \A j \in DOMAIN bs :
                     bs[j].open /\ bs[j].left > 0 /\ (\A i \in DOMAIN r : r[i] # bs[j])
                       => \A i \in DOMAIN r : r[i].open
  <1> DEFINE calm == {i \in DOMAIN bs : ~bs[i].open \/ bs[i].left = 0}
             gone == FirstOf(calm, Excess(bs))
             rest == DropAt(bs, gone)
             more == FirstOf(DOMAIN rest, Excess(rest))
             r    == DropAt(rest, more)
  <1>0. r = PruneBreakers(bs)
    BY DEF PruneBreakers
  <1>1. /\ Len(bs) \in Nat /\ DOMAIN bs = 1..Len(bs) /\ calm \in SUBSET (1..Len(bs))
        /\ MaxEntries \in Nat /\ Excess(bs) \in Nat
    BY BreakerAssumption DEF Excess
  <1>2. gone \in SUBSET calm /\ (gone # calm => Cardinality(gone) >= Excess(bs))
    <2> HIDE DEF calm
    <2> QED BY <1>1, FirstOfIs
  <1>3. gone \in SUBSET DOMAIN bs
    BY <1>2
  <1> HIDE DEF gone
  <1>3a. IsRest(rest, bs, gone) /\ KeysApart(rest)
    BY <1>3, DropAtIs, DropAtApart
  <1> HIDE DEF rest
  <1>4. /\ rest \in Seq(BreakerStates) /\ KeysApart(rest)
        /\ Len(rest) = Len(bs) - Cardinality(gone) /\ Len(rest) \in Nat /\ Cardinality(gone) \in Nat
        /\ \A i \in DOMAIN rest : \E j \in DOMAIN bs \ gone : rest[i] = bs[j]
        /\ \A j \in DOMAIN bs \ gone : \E i \in DOMAIN rest : rest[i] = bs[j]
    BY <1>3a DEF IsRest
  <1>5. DOMAIN rest = 1..Len(rest) /\ Excess(rest) \in Nat
    BY <1>1, <1>4 DEF Excess
  <1>6. more \in SUBSET DOMAIN rest /\ (more # DOMAIN rest => Cardinality(more) >= Excess(rest))
    BY <1>4, <1>5, FirstOfIs
  <1> HIDE DEF more
  <1>6a. IsRest(r, rest, more) /\ KeysApart(r)
    BY <1>4, <1>6, DropAtIs, DropAtApart
  <1> HIDE DEF r
  <1>7. /\ r \in Seq(BreakerStates) /\ KeysApart(r)
        /\ Len(r) = Len(rest) - Cardinality(more) /\ Len(r) \in Nat /\ Cardinality(more) \in Nat
        /\ \A i \in DOMAIN r : \E j \in DOMAIN rest \ more : r[i] = rest[j]
        /\ \A j \in DOMAIN rest \ more : \E i \in DOMAIN r : r[i] = rest[j]
    BY <1>6a DEF IsRest
  <1>8. Len(r) <= MaxEntries
    <2>1. CASE more = DOMAIN rest
      <3>1. Cardinality(1..Len(rest)) = Len(rest)
        BY <1>4, FS_Interval
      <3> QED BY <1>1, <1>4, <1>5, <1>7, <2>1, <3>1
    <2>2. CASE more # DOMAIN rest
      BY <1>1, <1>4, <1>6, <1>7, <2>2 DEF Excess
    <2> QED BY <2>1, <2>2
  <1>9. \A i \in DOMAIN r : \E j \in DOMAIN bs \ gone : r[i] = bs[j]
    BY <1>4, <1>7
  <1>10. ASSUME NEW j \in DOMAIN bs, bs[j].open, bs[j].left > 0, \A i \in DOMAIN r : r[i] # bs[j]
         PROVE  \A i \in DOMAIN r : r[i].open
    <2>1. j \notin gone
      <3>1. bs[j] \in BreakerStates
        OBVIOUS
      <3>2. bs[j].left \in Int
        BY <3>1, BreakerAssumption DEF BreakerStates
      <3> QED BY <1>2, <1>10, <3>2
    <2>2. PICK h \in DOMAIN rest : rest[h] = bs[j]
      BY <1>4, <2>1
    <2>3. h \in more
      BY <1>7, <1>10, <2>2
    <2>4. Excess(rest) > 0
      <3>1. Rank(DOMAIN rest, h) < Excess(rest)
        BY <2>3 DEF more, FirstOf, Rank
      <3>2. Rank(DOMAIN rest, h) \in Nat
        BY <1>4, <1>5, PositionsFinite
      <3> QED BY <1>5, <3>1, <3>2
    <2>5. gone = calm
      <3> HIDE DEF calm
      <3>1. Len(rest) > MaxEntries
        BY <1>1, <1>4, <2>4 DEF Excess
      <3>2. Len(bs) > MaxEntries + Cardinality(gone)
        BY <1>1, <1>4, <3>1
      <3>3. Excess(bs) > Cardinality(gone)
        BY <1>1, <1>4, <3>2 DEF Excess
      <3> QED BY <1>1, <1>2, <1>4, <3>3
    <2> QED BY <1>9, <2>5
  <1> QED BY <1>0, <1>7, <1>8, <1>9, <1>10

\* Fetches of breaker b that ran and failed.
FailuresOf(b) == {f \in failures : Breaker(f) = b}

\* Every failure that a breaker counts is one of its own, and each of them ended
\* its fetch, so that none is counted twice.
BreakersInv ==
    /\ breakers \in Seq(BreakerStates) /\ KeysApart(breakers) /\ Len(breakers) <= MaxEntries
    /\ failures \subseteq Fetches
    /\ \A f \in failures : task[f] = "over"
    /\ \A i \in DOMAIN breakers : breakers[i].failures <= Cardinality(FailuresOf(breakers[i].key))

\* A settled fetch stays settled: what the queues hold is queued.
LEMMA OverStaysOver ==
    ASSUME RatesInv, [Next]_vars, NEW f \in Fetches, task[f] = "over"
    PROVE  task'[f] = "over" /\ of' = of
  <1>1. /\ task \in [Fetches -> {"new", "queued", "running", "bypassing", "over"}]
        /\ \A b \in Buckets : queues[b] \in Seq(Fetches)
        /\ QueuesHoldWaiting
    BY DEF RatesInv, LimiterTypeOK
  <1>2. ASSUME NEW g \in Fetches, Fetch(g) PROVE task'[f] = "over" /\ of' = of
    BY <1>1, <1>2 DEF Fetch, Schedule, Push, RunAt
  <1>3. ASSUME NEW g \in Fetches, NEW success \in BOOLEAN, Settle(g, success)
        PROVE  task'[f] = "over" /\ of' = of
    BY <1>1, <1>3 DEF Settle, End, EndBypass, RunAt
  <1>4. ASSUME Limiter(Drain) PROVE task'[f] = "over" /\ of' = of
    <2> DEFINE full  == {b \in pending : queues[b] # << >>}
               ready == {b \in full : WaitTime(b) = 0}
               heads == {Head(queues[b]) : b \in ready}
    <2>1. task' = [g \in Fetches |-> IF g \in heads THEN "running" ELSE task[g]] /\ of' = of
      BY <1>4 DEF Limiter, Drain, DrainBuckets
    <2>2. pending \subseteq Buckets
      BY DEF RatesInv, LimiterTypeOK
    <2>3. ASSUME NEW b \in ready PROVE Head(queues[b]) # f
      <3>1. b \in Buckets /\ queues[b] # << >>
        BY <2>2
      <3>2. Head(queues[b]) = queues[b][1] /\ 1 \in 1..Len(queues[b])
        BY <1>1, <3>1
      <3> QED BY <1>1, <3>1, <3>2 DEF QueuesHoldWaiting
    <2> HIDE DEF ready
    <2> QED BY <2>1, <2>3
  <1>5. ASSUME Limiter(Dispose) PROVE task'[f] = "over" /\ of' = of
    BY <1>5 DEF Limiter, Dispose
  <1>6. ASSUME NEW b \in Buckets, Limiter(Cleanup(b)) PROVE task'[f] = "over" /\ of' = of
    BY <1>6 DEF Limiter, Cleanup
  <1>7. ASSUME Tick PROVE task'[f] = "over" /\ of' = of
    BY <1>7 DEF Tick, LimiterTick
  <1>8. ASSUME (\E k \in Keys \cap Breakers : Invalidate(k)) \/ Clear \/ UNCHANGED vars
        PROVE  task'[f] = "over" /\ of' = of
    BY <1>8 DEF Invalidate, Clear, vars, limiterVars
  <1> QED BY <1>2, <1>3, <1>4, <1>5, <1>6, <1>7, <1>8 DEF Next

\* The steps that count no failure.
LEMMA BreakersKeep ==
    ASSUME RatesInv, BreakersInv, [Next]_vars, failures' = failures, of' = of,
           breakers' \in Seq(BreakerStates), KeysApart(breakers'), Len(breakers') <= Len(breakers),
           \A i \in DOMAIN breakers' : \E j \in DOMAIN breakers :
              breakers'[i].key = breakers[j].key /\ breakers'[i].failures = breakers[j].failures
    PROVE  BreakersInv'
  <1>1. Len(breakers) \in Nat /\ Len(breakers') \in Nat /\ MaxEntries \in Nat
    BY BreakerAssumption DEF BreakersInv
  <1>2. Len(breakers') <= MaxEntries
    BY <1>1 DEF BreakersInv
  <1>3. \A f \in failures : task'[f] = "over"
    BY OverStaysOver DEF BreakersInv
  <1>4. ASSUME NEW i \in DOMAIN breakers'
        PROVE  breakers'[i].failures <= Cardinality({f \in failures' : Breaker(f)' = breakers'[i].key})
    <2>1. PICK j \in DOMAIN breakers :
             breakers'[i].key = breakers[j].key /\ breakers'[i].failures = breakers[j].failures
      OBVIOUS
    <2>2. {f \in failures' : Breaker(f)' = breakers'[i].key} = FailuresOf(breakers[j].key)
      BY <2>1 DEF FailuresOf, Breaker
    <2> QED BY <2>1, <2>2 DEF BreakersInv
  <1>5. (\A i \in DOMAIN breakers : breakers[i].failures <= Cardinality(FailuresOf(breakers[i].key)))'
    BY <1>4 DEF FailuresOf
  <1>6. KeysApart(breakers)'
    BY DEF KeysApart
  <1> QED BY <1>2, <1>3, <1>5, <1>6 DEF BreakersInv

LEMMA ForgetKeeps ==
    ASSUME BreakersInv, NEW b, breakers' = Forget(breakers, b)
    PROVE  /\ breakers' \in Seq(BreakerStates) /\ KeysApart(breakers')
           /\ Len(breakers') <= Len(breakers)
           /\ \A i \in DOMAIN breakers' : \E j \in DOMAIN breakers :
                 breakers'[i].key = breakers[j].key /\ breakers'[i].failures = breakers[j].failures
  <1> DEFINE gone == {i \in DOMAIN breakers : breakers[i].key = b}
  <1>1. breakers \in Seq(BreakerStates) /\ KeysApart(breakers) /\ gone \in SUBSET DOMAIN breakers
    BY DEF BreakersInv
  <1>2. breakers' = DropAt(breakers, gone)
    BY DEF Forget
  <1> HIDE DEF gone
  <1>3. IsRest(breakers', breakers, gone) /\ KeysApart(breakers')
    BY <1>1, <1>2, DropAtIs, DropAtApart
  <1>4. /\ breakers' \in Seq(BreakerStates)
        /\ Len(breakers') = Len(breakers) - Cardinality(gone) /\ Cardinality(gone) \in Nat
        /\ \A i \in DOMAIN breakers' : \E j \in DOMAIN breakers : breakers'[i] = breakers[j]
    BY <1>3 DEF IsRest
  <1>5. Len(breakers) \in Nat
    BY <1>1
  <1>6. Len(breakers') <= Len(breakers)
    BY <1>4, <1>5
  <1>7. \A i \in DOMAIN breakers' : \E j \in DOMAIN breakers :
           breakers'[i].key = breakers[j].key /\ breakers'[i].failures = breakers[j].failures
    BY <1>4
  <1> QED BY <1>3, <1>4, <1>6, <1>7

LEMMA TimeKeeps ==
    ASSUME BreakersInv, BreakerTick
    PROVE  /\ breakers' \in Seq(BreakerStates) /\ KeysApart(breakers')
           /\ Len(breakers') <= Len(breakers)
           /\ \A i \in DOMAIN breakers' : \E j \in DOMAIN breakers :
                 breakers'[i].key = breakers[j].key /\ breakers'[i].failures = breakers[j].failures
  <1> DEFINE n == Len(breakers)
  <1>1. n \in Nat /\ DOMAIN breakers = 1..n /\ KeysApart(breakers)
        /\ \A i \in 1..n : breakers[i] \in BreakerStates
    BY DEF BreakersInv
  <1> HIDE DEF n
  <1>2. /\ DOMAIN breakers' = 1..n
        /\ \A i \in 1..n : breakers'[i] = [breakers[i] EXCEPT !.left = IF @ > 0 THEN @ - 1 ELSE 0]
        /\ breakers' = [i \in 1..n |-> breakers'[i]]
    BY <1>1 DEF BreakerTick
  <1>3. ASSUME NEW i \in 1..n
        PROVE  /\ breakers'[i] \in BreakerStates
               /\ breakers'[i].key = breakers[i].key /\ breakers'[i].failures = breakers[i].failures
    BY <1>1, <1>2, BreakerAssumption DEF BreakerStates
  <1>4. breakers' \in Seq(BreakerStates) /\ Len(breakers') = n
    <2>1. breakers' \in [1..n -> BreakerStates]
      BY <1>2, <1>3
    <2> QED BY <1>1, <2>1, SeqDef
  <1>5. KeysApart(breakers')
    BY <1>1, <1>2, <1>3 DEF KeysApart
  <1> QED BY <1>1, <1>2, <1>3, <1>4, <1>5 DEF n

\* The breaker counts one more failure, or begins to count, and the table is pruned.
LEMMA RecordFailureIs ==
    ASSUME BreakersInv, NEW b \in Breakers, RecordFailure(b)
    PROVE  /\ breakers' \in Seq(BreakerStates) /\ KeysApart(breakers') /\ Len(breakers') <= MaxEntries
           /\ \A i \in DOMAIN breakers' :
                 \/ \E j \in DOMAIN breakers : breakers'[i] = breakers[j]
                 \/ breakers'[i].key = b /\ breakers'[i].failures = 1
                 \/ /\ breakers'[i].key = b
                    /\ \E j \in DOMAIN breakers :
                          breakers[j].key = b /\ breakers'[i].failures = breakers[j].failures + 1
           /\ \A j \in DOMAIN breakers :
                 /\ breakers[j].key # b /\ breakers[j].open /\ breakers[j].left > 0
                 /\ \A i \in DOMAIN breakers' : breakers'[i] # breakers[j]
                 => \A i \in DOMAIN breakers' : breakers'[i].open
  <1> DEFINE new  == [key |-> b, failures |-> 0, open |-> FALSE, left |-> 0]
             with == IF Holds(breakers, b) THEN breakers ELSE Append(breakers, new)
             at   == At(with, b)
             e    == Failed(with[at])
             bs   == [with EXCEPT ![at] = e]
  <1>1. breakers' = PruneBreakers(bs)
    BY DEF RecordFailure
  <1>2. breakers \in Seq(BreakerStates) /\ KeysApart(breakers)
    BY DEF BreakersInv
  <1>3. new \in BreakerStates
    BY BreakerAssumption DEF BreakerStates
  <1>4. /\ with \in Seq(BreakerStates) /\ KeysApart(with)
        /\ \A j \in DOMAIN breakers : j \in DOMAIN with /\ with[j] = breakers[j]
        /\ \A i \in DOMAIN with : i \in DOMAIN breakers \/ with[i] = new
        /\ \E i \in DOMAIN with : with[i].key = b
    <2>1. CASE Holds(breakers, b)
      BY <1>2, <2>1 DEF Holds
    <2>2. CASE ~Holds(breakers, b)
      <3> DEFINE w == Append(breakers, new)
      <3>1. /\ w \in Seq(BreakerStates) /\ DOMAIN w = 1..(Len(breakers) + 1)
            /\ DOMAIN breakers = 1..Len(breakers) /\ Len(breakers) \in Nat
            /\ \A j \in 1..Len(breakers) : w[j] = breakers[j]
            /\ w[Len(breakers) + 1] = new
        BY <1>2, <1>3
      <3>2. \A i \in DOMAIN w : i \in DOMAIN breakers \/ i = Len(breakers) + 1
        BY <3>1
      <3>3. with = w
        BY <2>2
      <3>4. new.key = b
        OBVIOUS
      <3> HIDE DEF w, new
      <3>5. \A i \in DOMAIN breakers : w[i].key # b
        BY <2>2, <3>1 DEF Holds
      <3>6. KeysApart(w)
        BY <1>2, <3>1, <3>2, <3>4, <3>5 DEF KeysApart
      <3>7. Len(breakers) + 1 \in DOMAIN w /\ \A j \in DOMAIN breakers : j \in DOMAIN w
        BY <3>1
      <3> HIDE DEF with
      <3> QED BY <3>1, <3>2, <3>3, <3>4, <3>6, <3>7
    <2> QED BY <2>1, <2>2
  <1> HIDE DEF with
  <1>5. at \in DOMAIN with /\ with[at].key = b
    BY <1>4 DEF At
  <1> HIDE DEF at
  <1>6. with[at] \in BreakerStates /\ (at \in DOMAIN breakers \/ with[at] = new)
    BY <1>4, <1>5
  <1>7. e \in BreakerStates /\ e.key = b /\ e.failures = with[at].failures + 1
    <2>1. PICK s \in BreakerStates : s = with[at]
      BY <1>6
    <2>2. /\ s.key \in Breakers /\ s.failures \in Nat /\ s.open \in BOOLEAN /\ s.left \in 0..Cooldown
          /\ s = [key |-> s.key, failures |-> s.failures, open |-> s.open, left |-> s.left]
          /\ s.key = b
      BY <1>5, <2>1 DEF BreakerStates
    <2>3. Cooldown \in 0..Cooldown /\ s.failures + 1 \in Nat
      BY <2>2, BreakerAssumption
    <2>4. \/ e = [key |-> b, failures |-> s.failures + 1, open |-> TRUE, left |-> Cooldown]
          \/ e = [key |-> b, failures |-> s.failures + 1, open |-> s.open, left |-> s.left]
      BY <2>1, <2>2 DEF Failed
    <2> HIDE DEF e
    <2>5. CASE e = [key |-> b, failures |-> s.failures + 1, open |-> TRUE, left |-> Cooldown]
      BY <2>1, <2>3, <2>5 DEF BreakerStates
    <2>6. CASE e = [key |-> b, failures |-> s.failures + 1, open |-> s.open, left |-> s.left]
      BY <2>1, <2>2, <2>3, <2>6 DEF BreakerStates
    <2> QED BY <2>4, <2>5, <2>6
  <1> HIDE DEF e
  <1>8. /\ bs \in Seq(BreakerStates) /\ DOMAIN bs = DOMAIN with
        /\ \A j \in DOMAIN with : bs[j] = IF j = at THEN e ELSE with[j]
    BY <1>4, <1>5, <1>7, ExceptSeq
  <1> HIDE DEF bs
  <1>9. KeysApart(bs)
    BY <1>4, <1>5, <1>7, <1>8 DEF KeysApart
  <1>10. /\ breakers' \in Seq(BreakerStates) /\ KeysApart(breakers') /\ Len(breakers') <= MaxEntries
         /\ \A i \in DOMAIN breakers' : \E j \in DOMAIN bs : breakers'[i] = bs[j]
         /\ \A j \in DOMAIN bs :
               bs[j].open /\ bs[j].left > 0 /\ (\A i \in DOMAIN breakers' : breakers'[i] # bs[j])
                 => \A i \in DOMAIN breakers' : breakers'[i].open
    BY <1>1, <1>8, <1>9, PruneBreakersIs
  <1>11. ASSUME NEW i \in DOMAIN breakers'
         PROVE  \/ \E j \in DOMAIN breakers : breakers'[i] = breakers[j]
                \/ breakers'[i].key = b /\ breakers'[i].failures = 1
                \/ /\ breakers'[i].key = b
                   /\ \E j \in DOMAIN breakers :
                         breakers[j].key = b /\ breakers'[i].failures = breakers[j].failures + 1
    <2>1. PICK j \in DOMAIN bs : breakers'[i] = bs[j]
      BY <1>10
    <2>2. CASE j = at
      <3>1. breakers'[i] = e
        BY <1>8, <2>1, <2>2
      <3>2. CASE at \in DOMAIN breakers
        BY <1>4, <1>5, <1>7, <3>1, <3>2
      <3>3. CASE with[at] = new
        BY <1>7, <3>1, <3>3
      <3> QED BY <1>6, <3>2, <3>3
    <2>3. CASE j # at /\ j \in DOMAIN breakers
      BY <1>4, <1>8, <2>1, <2>3
    <2>4. CASE j # at /\ with[j] = new
      <3>1. with[j].key = b
        BY <2>4
      <3> QED BY <1>4, <1>5, <1>8, <2>4, <3>1 DEF KeysApart
    <2> QED BY <1>4, <1>8, <2>2, <2>3, <2>4
  <1>12. ASSUME NEW j \in DOMAIN breakers,
                breakers[j].key # b, breakers[j].open, breakers[j].left > 0,
                \A i \in DOMAIN breakers' : breakers'[i] # breakers[j]
         PROVE  \A i \in DOMAIN breakers' : breakers'[i].open
    <2>1. j \in DOMAIN bs /\ j # at /\ bs[j] = breakers[j]
      BY <1>4, <1>5, <1>8, <1>12
    <2> QED BY <1>10, <1>12, <2>1
  <1> QED BY <1>10, <1>11, <1>12

\* A fetcher that ran and failed.
LEMMA FailureKeeps ==
    ASSUME RatesInv, BreakersInv, NEW f \in Fetches, Settle(f, FALSE)
    PROVE  /\ BreakersInv' /\ of' = of
           /\ \A g \in failures' \ failures, b \in Breakers :
                 Breaker(g) # b /\ IsOpenIn(breakers, b) /\ ~Holds(breakers', b)
                   => \A i \in DOMAIN breakers' : breakers'[i].open
  <1>1. /\ of' = of /\ failures' = failures \cup {f} /\ task[f] # "over" /\ task' = [task EXCEPT ![f] = "over"]
        /\ RecordFailure(Breaker(f))
    BY DEF Settle, End, EndBypass, RunAt
  <1>2. task \in [Fetches -> {"new", "queued", "running", "bypassing", "over"}] /\ of \in [Fetches -> Keys]
    BY DEF RatesInv, LimiterTypeOK
  <1>3. PICK b \in Breakers : b = Breaker(f)
    BY <1>2, ScopeAssumption DEF Breaker
  <1>4. RecordFailure(b)
    BY <1>1, <1>3
  <1>5. /\ breakers' \in Seq(BreakerStates) /\ KeysApart(breakers') /\ Len(breakers') <= MaxEntries
        /\ \A i \in DOMAIN breakers' :
              \/ \E j \in DOMAIN breakers : breakers'[i] = breakers[j]
              \/ breakers'[i].key = b /\ breakers'[i].failures = 1
              \/ /\ breakers'[i].key = b
                 /\ \E j \in DOMAIN breakers :
                       breakers[j].key = b /\ breakers'[i].failures = breakers[j].failures + 1
        /\ \A j \in DOMAIN breakers :
              /\ breakers[j].key # b /\ breakers[j].open /\ breakers[j].left > 0
              /\ \A i \in DOMAIN breakers' : breakers'[i] # breakers[j]
              => \A i \in DOMAIN breakers' : breakers'[i].open
    BY <1>4, RecordFailureIs
  <1>6. failures \subseteq Fetches /\ f \notin failures /\ \A g \in failures' : task'[g] = "over"
    BY <1>1, <1>2 DEF BreakersInv
  <1>7. \A c : IsFiniteSet(FailuresOf(c)) /\ Cardinality(FailuresOf(c)) \in Nat
    <2> SUFFICES ASSUME NEW c PROVE IsFiniteSet(FailuresOf(c)) /\ Cardinality(FailuresOf(c)) \in Nat
      OBVIOUS
    <2>1. FailuresOf(c) \in SUBSET Fetches
      BY <1>6 DEF FailuresOf
    <2> QED BY <2>1, FetchesAssumption, FS_Subset, FS_CardinalityType
  <1>8. ASSUME NEW i \in DOMAIN breakers'
        PROVE  breakers'[i].failures <= Cardinality({g \in failures' : Breaker(g)' = breakers'[i].key})
    <2> DEFINE c == breakers'[i].key
               F == {g \in failures' : Breaker(g)' = c}
    <2>1. F = IF c = b THEN FailuresOf(c) \cup {f} ELSE FailuresOf(c)
      BY <1>1, <1>3 DEF FailuresOf, Breaker
    <2>2. f \notin FailuresOf(c)
      BY <1>6 DEF FailuresOf
    <2>3. Cardinality(F) = IF c = b THEN Cardinality(FailuresOf(c)) + 1 ELSE Cardinality(FailuresOf(c))
      <3> HIDE DEF F, c
      <3>1. Cardinality(FailuresOf(c) \cup {f}) = Cardinality(FailuresOf(c)) + 1
        BY <1>7, <2>2, FS_AddElement
      <3> QED BY <2>1, <3>1
    <2>4. Cardinality(FailuresOf(c)) \in Nat
      BY <1>7
    <2> HIDE DEF F
    <2>5. \A j \in DOMAIN breakers :
             /\ breakers[j].failures \in Nat
             /\ breakers[j].key = c => breakers[j].failures <= Cardinality(FailuresOf(c))
      <3>1. \A j \in DOMAIN breakers : breakers[j] \in BreakerStates
        BY DEF BreakersInv
      <3>2. \A j \in DOMAIN breakers : breakers[j].failures \in Nat
        BY <3>1 DEF BreakerStates
      <3> QED BY <3>2 DEF BreakersInv
    <2> HIDE DEF c
    <2>6. CASE \E j \in DOMAIN breakers : breakers'[i] = breakers[j]
      <3>1. PICK j \in DOMAIN breakers : breakers'[i] = breakers[j]
        BY <2>6
      <3>2. breakers[j].key = c
        BY <3>1 DEF c
      <3> QED BY <2>3, <2>4, <2>5, <3>1, <3>2 DEF F, c
    <2>7. CASE c = b /\ breakers'[i].failures = 1
      BY <2>3, <2>4, <2>7 DEF F, c
    <2>8. CASE c = b /\ \E j \in DOMAIN breakers :
                           breakers[j].key = b /\ breakers'[i].failures = breakers[j].failures + 1
      <3>1. breakers'[i].failures <= Cardinality(F)
        BY <2>3, <2>4, <2>5, <2>8
      <3> QED BY <3>1 DEF F, c
    <2> QED BY <1>5, <2>6, <2>7, <2>8 DEF c
  <1>9. BreakersInv'
    <2>1. (\A i \in DOMAIN breakers : breakers[i].failures <= Cardinality(FailuresOf(breakers[i].key)))'
      BY <1>8 DEF FailuresOf
    <2>2. KeysApart(breakers)'
      BY <1>5 DEF KeysApart
    <2>3. (failures \subseteq Fetches /\ \A g \in failures : task[g] = "over")'
      BY <1>1, <1>6
    <2> QED BY <1>5, <2>1, <2>2, <2>3 DEF BreakersInv
  <1>10. ASSUME NEW g \in failures' \ failures, NEW c \in Breakers,
                Breaker(g) # c, IsOpenIn(breakers, c), ~Holds(breakers', c)
         PROVE  \A i \in DOMAIN breakers' : breakers'[i].open
    <2>1. c # b
      BY <1>1, <1>3, <1>10
    <2>2. PICK j \in DOMAIN breakers : breakers[j].key = c /\ breakers[j].open /\ breakers[j].left > 0
      BY <1>10 DEF IsOpenIn
    <2>3. \A i \in DOMAIN breakers' : breakers'[i] # breakers[j]
      BY <1>10, <2>2 DEF Holds
    <2> QED BY <1>5, <2>1, <2>2, <2>3
  <1> QED BY <1>1, <1>9, <1>10

LEMMA NextBreakers ==
    ASSUME RatesInv, BreakersInv, [Next]_vars
    PROVE  /\ BreakersInv' /\ of' = of
           /\ \A g \in failures' \ failures, b \in Breakers :
                 Breaker(g) # b /\ IsOpenIn(breakers, b) /\ ~Holds(breakers', b)
                   => \A i \in DOMAIN breakers' : breakers'[i].open
  <1> DEFINE Kept == /\ breakers' \in Seq(BreakerStates) /\ KeysApart(breakers')
                     /\ Len(breakers') <= Len(breakers)
                     /\ \A i \in DOMAIN breakers' : \E j \in DOMAIN breakers :
                           breakers'[i].key = breakers[j].key /\ breakers'[i].failures = breakers[j].failures
  <1>1. ASSUME breakers' = breakers PROVE Kept
    <2>1. breakers \in Seq(BreakerStates) /\ KeysApart(breakers)
      BY DEF BreakersInv
    <2>2. Len(breakers) \in Nat
      BY <2>1
    <2> QED BY <1>1, <2>1, <2>2
  <1>2. ASSUME breakers' = << >> PROVE Kept
    <2> DEFINE none == << >>
    <2>1. none \in Seq(BreakerStates) /\ DOMAIN none = {} /\ Len(none) = 0
      OBVIOUS
    <2>2. Len(breakers) \in Nat
      BY DEF BreakersInv
    <2>3. breakers' = none
      BY <1>2
    <2> HIDE DEF none
    <2> QED BY <2>1, <2>2, <2>3 DEF KeysApart
  <1>3. ASSUME NEW b, breakers' = Forget(breakers, b) PROVE Kept
    BY <1>3, ForgetKeeps
  <1>4. ASSUME BreakerTick PROVE Kept
    BY <1>4, TimeKeeps
  <1> HIDE DEF Kept
  <1>5. ASSUME Kept, failures' = failures, of' = of
        PROVE  /\ BreakersInv' /\ of' = of
               /\ \A g \in failures' \ failures, b \in Breakers :
                     Breaker(g) # b /\ IsOpenIn(breakers, b) /\ ~Holds(breakers', b)
                       => \A i \in DOMAIN breakers' : breakers'[i].open
    BY <1>5, BreakersKeep DEF Kept
  <1>6. CASE \E f \in Fetches : Fetch(f)
    <2>1. PICK f \in Fetches : Fetch(f)
      BY <1>6
    <2>2. failures' = failures /\ of' = of
      BY <2>1 DEF Fetch
    <2>3. breakers' = breakers \/ breakers' = Forget(breakers, Breaker(f))
      BY <2>1 DEF Fetch, AssertClosed
    <2> QED BY <1>1, <1>3, <1>5, <2>2, <2>3
  <1>7. CASE \E f \in Fetches : Settle(f, TRUE)
    <2>1. PICK f \in Fetches : Settle(f, TRUE)
      BY <1>7
    <2>2. failures' = failures /\ of' = of /\ breakers' = Forget(breakers, Breaker(f))
      BY <2>1 DEF Settle, RecordSuccess
    <2> QED BY <1>3, <1>5, <2>2
  <1>8. CASE \E f \in Fetches : Settle(f, FALSE)
    BY <1>8, FailureKeeps
  <1>9. CASE Limiter(Drain) \/ Limiter(Dispose) \/ \E b \in Buckets : Limiter(Cleanup(b))
    <2>1. breakers' = breakers /\ failures' = failures /\ of' = of
      BY <1>9 DEF Limiter
    <2> QED BY <1>1, <1>5, <2>1
  <1>10. CASE \E k \in Keys \cap Breakers : Invalidate(k)
    <2>1. PICK k \in Keys \cap Breakers : Invalidate(k)
      BY <1>10
    <2>2. failures' = failures /\ of' = of /\ breakers' = Forget(breakers, k)
      BY <2>1 DEF Invalidate, RecordSuccess
    <2> QED BY <1>3, <1>5, <2>2
  <1>11. CASE Clear
    BY <1>2, <1>5, <1>11 DEF Clear, ClearBreakers
  <1>12. CASE Tick
    BY <1>4, <1>5, <1>12 DEF Tick
  <1>13. CASE UNCHANGED vars
    BY <1>1, <1>5, <1>13 DEF vars
  <1>14. \A success \in BOOLEAN : success = TRUE \/ success = FALSE
    OBVIOUS
  <1> QED BY <1>6, <1>7, <1>8, <1>9, <1>10, <1>11, <1>12, <1>13, <1>14 DEF Next

LEMMA InitBreakersInv == ASSUME Init PROVE BreakersInv
  <1> DEFINE none == << >>
  <1>1. none \in Seq(BreakerStates) /\ DOMAIN none = {} /\ Len(none) = 0
    OBVIOUS
  <1>2. breakers = none /\ failures = {}
    BY DEF Init, InitBreakers
  <1> HIDE DEF none
  <1> QED BY <1>1, <1>2, BreakerAssumption DEF BreakersInv, KeysApart

\* Limiter and table of breakers keep their types: no bucket queues and no table
\* holds more than it may, and no breaker is listed twice (schedule, pruneIfNeeded).
THEOREM FetchGuardsTypeCorrect == Spec => []TypeOK
  <1>1. Init => RatesInv /\ BreakersInv
    BY InitRates, InitBreakersInv
  <1>2. RatesInv /\ BreakersInv /\ [Next]_vars => RatesInv' /\ BreakersInv'
    BY NextRates, NextBreakers
  <1>3. RatesInv /\ BreakersInv => TypeOK
    BY DEF RatesInv, BreakersInv, TypeOK, BreakerTypeOK, KeysApart
  <1> QED BY <1>1, <1>2, <1>3, PTL DEF Spec

\* A breaker counts only fetchers of its own that ran and failed, each once, however
\* late they end and whatever the limiter refused (recordCircuitFailure); and a
\* failure of another key takes an open one out of the full table only if just
\* open ones stay there (pruneIfNeeded).
THEOREM BreakersAreFair == Spec => BreakersJudgeFetches
  <1>1. Init => RatesInv /\ BreakersInv
    BY InitRates, InitBreakersInv
  <1>2. RatesInv /\ BreakersInv /\ [Next]_vars => RatesInv' /\ BreakersInv'
    BY NextRates, NextBreakers
  <1>3. RatesInv /\ BreakersInv /\ [Next]_vars =>
          [/\ \A i \in DOMAIN breakers' :
                 breakers'[i].failures <=
                    Cardinality({f \in failures' : Breaker(f) = breakers'[i].key})
           /\ \A f \in failures' \ failures, b \in Breakers :
                 Breaker(f) # b /\ IsOpenIn(breakers, b) /\ ~Holds(breakers', b)
                   => \A i \in DOMAIN breakers' : breakers'[i].open]_vars
    <2> SUFFICES ASSUME RatesInv, BreakersInv, [Next]_vars
                 PROVE  /\ \A i \in DOMAIN breakers' :
                              breakers'[i].failures <=
                                 Cardinality({f \in failures' : Breaker(f) = breakers'[i].key})
                        /\ \A f \in failures' \ failures, b \in Breakers :
                              Breaker(f) # b /\ IsOpenIn(breakers, b) /\ ~Holds(breakers', b)
                                => \A i \in DOMAIN breakers' : breakers'[i].open
      OBVIOUS
    <2>1. BreakersInv' /\ of' = of
      BY NextBreakers
    <2>2. ASSUME NEW i \in DOMAIN breakers'
          PROVE  breakers'[i].failures <= Cardinality({f \in failures' : Breaker(f) = breakers'[i].key})
      <3>1. {f \in failures' : Breaker(f) = breakers'[i].key} = {f \in failures' : Breaker(f)' = breakers'[i].key}
        BY <2>1 DEF Breaker
      <3> QED BY <2>1, <3>1 DEF BreakersInv, FailuresOf
    <2> QED BY <2>2, NextBreakers
  <1> QED BY <1>1, <1>2, <1>3, PTL DEF Spec, BreakersJudgeFetches
=============================================================================
