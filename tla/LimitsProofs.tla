---------------------------- MODULE LimitsProofs ----------------------------
(***************************************************************************)
(* Proofs about the logins and the limiter, for every value of the         *)
(* constants: RateLimiter (what its buckets count, and what they admit in  *)
(* any stretch of time), LoginThrottle (how many failures and plain answers *)
(* get past it) and AdminSessions (which password opened a session).       *)
(***************************************************************************)
EXTENDS MCLimits, FiniteSetTheorems, SequenceTheorems, TLAPS

-----------------------------------------------------------------------------
(* Logs of what a bucket admitted.                                         *)

\* The entries of a log from an instant on.
Since(log, from) == {i \in DOMAIN log : from <= log[i]}

\* What a bucket that is consumed with a lag tells of its log: how late the
\* last entry is, and how many entries there are since an instant that lies k
\* windows before the start of the present one.
Accounted(log, bucket, limit, window, lag) ==
    /\ bucket.count = 0 => log = <<>>
    /\ \A i \in DOMAIN log : log[i] < bucket.started + window + lag
    /\ \A from, k \in Nat :
         bucket.started + lag <= from + k * window =>
             Cardinality(Since(log, from)) <= limit * k + bucket.count

\* An entry that is appended is the last one.
LEMMA AppendedLog ==
  ASSUME NEW S, NEW log \in Seq(S), NEW t \in S
  PROVE  /\ Append(log, t) \in Seq(S)
         /\ Len(log) \in Nat /\ DOMAIN log = 1..Len(log)
         /\ DOMAIN Append(log, t) = DOMAIN log \union {Len(log) + 1}
         /\ Len(log) + 1 \notin DOMAIN log
         /\ Append(log, t)[Len(log) + 1] = t
         /\ \A i \in DOMAIN log : Append(log, t)[i] = log[i] /\ log[i] \in S
  OBVIOUS

\* A bucket without a row accounts for an empty log.
LEMMA EmptyAccount ==
  ASSUME NEW log, log = <<>>, NEW bucket, bucket.count = 0,
         NEW limit \in Nat, NEW window \in Nat, NEW lag \in Nat
  PROVE  /\ Accounted(log, bucket, limit, window, lag)
         /\ \A from \in Nat : Cardinality(Stretch(log, window, from)) = 0
  <1>1. DOMAIN log = {}
    OBVIOUS
  <1>2. \A from \in Nat : Since(log, from) = {} /\ Stretch(log, window, from) = {}
    BY <1>1 DEF Since, Stretch
  <1>3. Cardinality({}) = 0
    BY FS_EmptySet
  <1>4. \A k \in Nat : 0 <= limit * k + bucket.count
    <2>1. \A k \in Nat : limit * k \in Nat
      OBVIOUS
    <2>2. QED
      BY <2>1
  <1>5. \A from, k \in Nat : Cardinality(Since(log, from)) <= limit * k + bucket.count
    BY <1>2, <1>3, <1>4
  <1>6. QED
    BY <1>1, <1>2, <1>3, <1>5 DEF Accounted

\* A log is finite, and so is any part of it.
LEMMA LogIsFinite ==
  ASSUME NEW log \in Seq(Nat)
  PROVE  \A some \in SUBSET (DOMAIN log) : IsFiniteSet(some) /\ Cardinality(some) \in Nat
  <1>1. PICK n \in Nat : n = Len(log)
    OBVIOUS
  <1>2. IsFiniteSet(1..n)
    BY FS_Interval
  <1>3. IsFiniteSet(DOMAIN log)
    BY <1>1, <1>2
  <1>4. QED
    BY <1>3, FS_Subset, FS_CardinalityType

\* An entry adds one at most to what is counted, and nothing to a stretch or
\* to a time that it is not in.
LEMMA LogGrows ==
  ASSUME NEW log \in Seq(Nat), NEW t \in Nat, NEW window \in Nat, NEW from \in Nat
  PROVE  /\ Cardinality(Since(Append(log, t), from)) <= Cardinality(Since(log, from)) + 1
         /\ ~(from <= t /\ t < from + window) =>
              Stretch(Append(log, t), window, from) = Stretch(log, window, from)
  <1> DEFINE n == Len(log) + 1
             old == Since(log, from)
             new == Since(Append(log, t), from)
  <1>1. /\ DOMAIN Append(log, t) = DOMAIN log \union {n} /\ n \notin DOMAIN log
        /\ Append(log, t)[n] = t
        /\ \A i \in DOMAIN log : Append(log, t)[i] = log[i]
    BY AppendedLog
  <1>2. old \in SUBSET (DOMAIN log) /\ new \subseteq old \union {n}
    BY <1>1 DEF Since
  <1>3. ~(from <= t /\ t < from + window) =>
              Stretch(Append(log, t), window, from) = Stretch(log, window, from)
    BY <1>1 DEF Stretch
  <1> HIDE DEF n, old, new
  <1>4. IsFiniteSet(old) /\ Cardinality(old) \in Nat
    BY <1>2, LogIsFinite
  <1>5. /\ IsFiniteSet(old \union {n})
        /\ Cardinality(old \union {n}) = IF n \in old THEN Cardinality(old) ELSE Cardinality(old) + 1
    BY <1>4, FS_AddElement
  <1>6. Cardinality(new) <= Cardinality(old \union {n})
    BY <1>2, <1>5, FS_Subset
  <1>7. IsFiniteSet(new) /\ Cardinality(new) \in Nat
    BY <1>2, <1>5, FS_Subset, FS_CardinalityType
  <1>8. Cardinality(new) <= Cardinality(old) + 1
    BY <1>4, <1>5, <1>6, <1>7
  <1>9. QED
    BY <1>3, <1>8 DEF old, new

\* One time less.
LEMMA OneLess ==
  ASSUME NEW k \in Nat, k # 0, NEW m \in Nat
  PROVE  /\ k - 1 \in Nat
         /\ k * m \in Nat /\ (k - 1) * m \in Nat /\ m * (k - 1) \in Nat
         /\ k * m = (k - 1) * m + m /\ m * k = m * (k - 1) + m
  <1>1. k - 1 \in Nat
    OBVIOUS
  <1>2. PICK j \in Nat : j = k - 1
    BY <1>1
  <1>3. k = j + 1
    BY <1>2
  <1>4. (j + 1) * m = j * m + m /\ m * (j + 1) = m * j + m /\ j * m \in Nat /\ m * j \in Nat
    OBVIOUS
  <1>5. QED
    BY <1>1, <1>2, <1>3, <1>4

\* A bucket that restarts its window still accounts for its log: what is as old
\* as the window before lies one window further back.
LEMMA RestartKeepsAccount ==
  ASSUME NEW log \in Seq(Nat), NEW bucket \in Bucket, NEW limit \in Nat, NEW window \in Nat,
         NEW lag \in Nat, NEW start \in Nat,
         Accounted(log, bucket, limit, window, lag), bucket.count <= limit,
         bucket.count = 0 \/ bucket.started + window <= start
  PROVE  /\ \A i \in DOMAIN log : log[i] < start + window + lag
         /\ \A from, k \in Nat : start + lag <= from + k * window =>
              Cardinality(Since(log, from)) <= limit * k
  <1>0. bucket.count \in Nat /\ bucket.started \in Nat
    BY DEF Bucket
  <1>1. \A i \in DOMAIN log : log[i] \in Nat
    BY AppendedLog
  <1>2. \A i \in DOMAIN log : log[i] < start + window + lag
    <2>1. CASE bucket.count = 0
      BY <2>1 DEF Accounted
    <2>2. CASE bucket.started + window <= start
      BY <1>0, <1>1, <2>2 DEF Accounted
    <2>3. QED
      BY <2>1, <2>2
  <1>3. ASSUME NEW from \in Nat, NEW k \in Nat, start + lag <= from + k * window
        PROVE  Cardinality(Since(log, from)) <= limit * k
    <2>0. limit * k \in Nat
      OBVIOUS
    <2>1. ASSUME \A i \in DOMAIN log : log[i] < from
          PROVE  Cardinality(Since(log, from)) <= limit * k
      <3>1. Since(log, from) = {}
        BY <1>1, <2>1 DEF Since
      <3>2. QED
        BY <2>0, <3>1, FS_EmptySet
    <2>2. CASE bucket.count = 0
      BY <2>1, <2>2 DEF Accounted
    <2>3. CASE bucket.started + window <= start /\ k = 0
      <3>1. bucket.started + window + lag <= from
        BY <1>0, <1>3, <2>3
      <3>2. \A i \in DOMAIN log : log[i] < from
        BY <1>0, <1>1, <3>1 DEF Accounted
      <3>3. QED
        BY <2>1, <3>2
    <2>4. CASE bucket.started + window <= start /\ k # 0
      <3> DEFINE full == k * window
                 before == (k - 1) * window
                 room == limit * (k - 1)
      <3>1. /\ k - 1 \in Nat /\ full \in Nat /\ before \in Nat /\ room \in Nat
            /\ full = before + window /\ limit * k = room + limit
        BY <2>4, OneLess
      <3>2. start + lag <= from + full
        BY <1>3
      <3> HIDE DEF full, before, room
      <3>3. bucket.started + lag <= from + before
        BY <1>0, <2>4, <3>1, <3>2
      <3>4. Cardinality(Since(log, from)) <= room + bucket.count
        BY <3>1, <3>3 DEF Accounted, before, room
      <3>5. Cardinality(Since(log, from)) \in Nat
        BY LogIsFinite DEF Since
      <3>6. QED
        BY <1>0, <3>1, <3>4, <3>5
    <2>5. QED
      BY <2>2, <2>3, <2>4
  <1>4. QED
    BY <1>2, <1>3

\* A bucket that is consumed accounts for the log, whether the request is
\* entered there, at its commit, or not.
LEMMA ConsumptionIsAccounted ==
  ASSUME NEW log \in Seq(Nat), NEW bucket \in Bucket, NEW limit \in Nat \ {0},
         NEW window \in Nat, NEW lag \in Nat, NEW at \in Nat, NEW commit \in Nat,
         at <= commit, commit <= at + lag, window # 0,
         Accounted(log, bucket, limit, window, lag), bucket.count <= limit,
         Admits(bucket, limit, window, at)
  PROVE  /\ Accounted(log, Consumed(bucket, window, at), limit, window, lag)
         /\ Accounted(Append(log, commit), Consumed(bucket, window, at), limit, window, lag)
  <1> SUFFICES ASSUME NEW more \in {log, Append(log, commit)}
               PROVE  Accounted(more, Consumed(bucket, window, at), limit, window, lag)
    OBVIOUS
  <1> DEFINE new == Consumed(bucket, window, at)
  <1>0. bucket.count \in Nat /\ bucket.started \in Nat
    BY DEF Bucket
  <1>1. /\ \A i \in DOMAIN more : more[i] = commit \/ (i \in DOMAIN log /\ more[i] = log[i])
        /\ \A i \in DOMAIN log : log[i] \in Nat
        /\ more \in Seq(Nat)
    <2>1. CASE more = log
      BY <2>1, AppendedLog
    <2>2. CASE more = Append(log, commit)
      BY <2>2, AppendedLog
    <2>3. QED
      BY <2>1, <2>2
  <1>2. \A from \in Nat : Cardinality(Since(more, from)) <= Cardinality(Since(log, from)) + 1
    <2> SUFFICES ASSUME NEW from \in Nat
                 PROVE  Cardinality(Since(more, from)) <= Cardinality(Since(log, from)) + 1
      OBVIOUS
    <2>1. Cardinality(Since(log, from)) \in Nat
      BY LogIsFinite DEF Since
    <2>2. CASE more = log
      BY <2>1, <2>2
    <2>3. CASE more = Append(log, commit)
      BY <2>3, LogGrows
    <2>4. QED
      BY <2>2, <2>3
  <1>3. \A from \in Nat : Cardinality(Since(more, from)) \in Nat /\ Cardinality(Since(log, from)) \in Nat
    BY <1>1, LogIsFinite DEF Since
  <1>4. CASE bucket.count = 0 \/ Expired(bucket, window, at)
    <2>1. new.count = 1 /\ new.started = at
      BY <1>4 DEF Consumed
    <2>2. /\ \A i \in DOMAIN log : log[i] < at + window + lag
          /\ \A from, k \in Nat : at + lag <= from + k * window =>
               Cardinality(Since(log, from)) <= limit * k
      BY <1>4, RestartKeepsAccount DEF Expired
    <2> HIDE DEF new
    <2>3. \A i \in DOMAIN more : more[i] < new.started + window + lag
      BY <1>1, <2>1, <2>2
    <2>4. ASSUME NEW from \in Nat, NEW k \in Nat, new.started + lag <= from + k * window
          PROVE  Cardinality(Since(more, from)) <= limit * k + new.count
      <3> DEFINE room == limit * k
      <3>1. room \in Nat
        OBVIOUS
      <3>2. Cardinality(Since(log, from)) <= room
        BY <2>1, <2>2, <2>4
      <3> DEFINE c == Cardinality(Since(more, from))
                 d == Cardinality(Since(log, from))
      <3>3. c \in Nat /\ d \in Nat /\ c <= d + 1 /\ d <= room
        BY <1>2, <1>3, <3>2
      <3> HIDE DEF room, c, d
      <3>4. c <= room + new.count
        BY <2>1, <3>1, <3>3
      <3>5. QED
        BY <3>4 DEF room, c
    <2>5. QED
      BY <2>1, <2>3, <2>4 DEF Accounted, new
  <1>5. CASE ~(bucket.count = 0 \/ Expired(bucket, window, at))
    <2>1. new.count = bucket.count + 1 /\ new.started = bucket.started
      BY <1>5 DEF Consumed
    <2>2. at < bucket.started + window
      BY <1>0, <1>5 DEF Expired
    <2> HIDE DEF new
    <2>3. \A i \in DOMAIN more : more[i] < new.started + window + lag
      <3>1. commit < bucket.started + window + lag
        BY <1>0, <2>2
      <3>2. QED
        BY <1>1, <2>1, <3>1 DEF Accounted
    <2>4. ASSUME NEW from \in Nat, NEW k \in Nat, new.started + lag <= from + k * window
          PROVE  Cardinality(Since(more, from)) <= limit * k + new.count
      <3> DEFINE room == limit * k
      <3>1. room \in Nat
        OBVIOUS
      <3>2. Cardinality(Since(log, from)) <= room + bucket.count
        BY <2>1, <2>4 DEF Accounted
      <3> DEFINE c == Cardinality(Since(more, from))
                 d == Cardinality(Since(log, from))
      <3>3. c \in Nat /\ d \in Nat /\ c <= d + 1 /\ d <= room + bucket.count
        BY <1>2, <1>3, <3>2
      <3> HIDE DEF room, c, d
      <3>4. c <= room + new.count
        BY <1>0, <2>1, <3>1, <3>3
      <3>5. QED
        BY <3>4 DEF room, c
    <2>5. QED
      BY <1>0, <2>1, <2>3, <2>4 DEF Accounted, new
  <1>6. QED
    BY <1>4, <1>5

\* No stretch of a log that is accounted for has more entries than the windows
\* that it can touch have room.
LEMMA StretchIsBounded ==
  ASSUME NEW log \in Seq(Nat), NEW bucket \in Bucket, NEW limit \in Nat, NEW window \in Nat,
         NEW lag \in Nat, NEW windows \in Nat, NEW from \in Nat,
         Accounted(log, bucket, limit, window, lag), bucket.count <= limit,
         window # 0, 2 * window + lag < windows * window + 2,
         bucket.started < from + window
  PROVE  Cardinality(Stretch(log, window, from)) <= limit * windows
  <1>0. bucket.count \in Nat /\ bucket.started \in Nat
    BY DEF Bucket
  <1>1. windows # 0
    <2>1. windows = 0 => windows * window = 0
      OBVIOUS
    <2>2. QED
      BY <2>1
  <1> DEFINE full == windows * window
             before == (windows - 1) * window
             room == limit * (windows - 1)
  <1>2. /\ windows - 1 \in Nat /\ full \in Nat /\ before \in Nat /\ room \in Nat
        /\ full = before + window /\ limit * windows = room + limit
    BY <1>1, OneLess
  <1>3. 2 * window + lag < full + 2
    OBVIOUS
  <1> HIDE DEF full, before, room
  <1>5. bucket.started + lag <= from + before
    BY <1>0, <1>2, <1>3
  <1>6. Cardinality(Since(log, from)) <= room + bucket.count
    BY <1>2, <1>5 DEF Accounted, before, room
  <1>7. /\ Stretch(log, window, from) \in SUBSET Since(log, from)
        /\ Since(log, from) \in SUBSET (DOMAIN log)
    BY DEF Stretch, Since
  <1>8. /\ IsFiniteSet(Since(log, from)) /\ Cardinality(Since(log, from)) \in Nat
        /\ Cardinality(Stretch(log, window, from)) \in Nat
        /\ Cardinality(Stretch(log, window, from)) <= Cardinality(Since(log, from))
    <2>1. Stretch(log, window, from) \in SUBSET (DOMAIN log)
      BY <1>7
    <2>2. QED
      BY <1>7, <2>1, LogIsFinite, FS_Subset
  <1>9. QED
    BY <1>0, <1>2, <1>6, <1>8


-----------------------------------------------------------------------------
(* RateLimiter.                                                            *)

\* The invariant is inductive as it stands: types and the quota.
LimiterIInv ==
    /\ TypeOK
    /\ WithinLimit

\* A consumed bucket starts when it did, or at the reading of the clock.
LEMMA ConsumedType ==
  ASSUME NEW bucket \in Stamped, NEW at \in 0..MaxTime
  PROVE  /\ Consumed(bucket, Window, at) \in Stamped
         /\ Consumed(bucket, Window, at).count > 0
  BY LimiterAssumption DEF Consumed, Stamped

\* The guard of the upsert keeps the count within the limit.
LEMMA ConsumedWithinLimit ==
  ASSUME NEW bucket \in Stamped, NEW at \in 0..MaxTime, bucket.count <= Limit,
         Admits(bucket, Limit, Window, at)
  PROVE  Consumed(bucket, Window, at).count <= Limit
  BY LimiterAssumption DEF Consumed, Admits, Stamped

\* A late request keeps the start of the window, or the window was over.
LEMMA ConsumedStart ==
  ASSUME NEW bucket \in Stamped, NEW at \in 0..MaxTime, bucket.count > 0,
         Consumed(bucket, Window, at).started # bucket.started
  PROVE  Consumed(bucket, Window, at).started >= bucket.started + Window
  BY LimiterAssumption DEF Consumed, Expired, Stamped

\* Charging a request's buckets keeps the types and the quota.
LEMMA ConsumePreserves ==
  ASSUME LimiterIInv, NEW c \in Callers, Consume(c)
  PROVE  LimiterIInv'
  <1>1. asks[c].at \in 0..MaxTime /\ asks[c].wants \subseteq Buckets
    BY DEF LimiterIInv, TypeOK
  <1>2. buckets' \in [Buckets -> Stamped]
    BY <1>1, ConsumedType DEF Consume, LimiterIInv, TypeOK, Stamped
  <1>3. \A b \in Buckets : buckets'[b].count <= Limit
    <2> SUFFICES ASSUME NEW b \in Buckets PROVE buckets'[b].count <= Limit
      OBVIOUS
    <2>1. buckets[b] \in Stamped /\ buckets[b].count <= Limit
      BY DEF LimiterIInv, TypeOK, WithinLimit
    <2>2. CASE b \in Charged(c)
      <3>1. Admits(buckets[b], Limit, Window, asks[c].at)
        BY <2>2 DEF Charged, Allowed
      <3>2. QED
        BY <1>1, <2>1, <2>2, <3>1, ConsumedWithinLimit DEF Consume
    <2>3. CASE b \notin Charged(c)
      BY <2>1, <2>3 DEF Consume
    <2>4. QED
      BY <2>2, <2>3
  <1>4. admitted' \in [Buckets \ Resettable -> Seq(0..MaxTime)]
    <2>1. \A b \in Buckets \ Resettable :
              admitted[b] \in Seq(0..MaxTime) /\ Append(admitted[b], clock) \in Seq(0..MaxTime)
      BY AppendedLog DEF LimiterIInv, TypeOK
    <2>2. QED
      BY <2>1 DEF Consume
  <1>5. /\ asks' \in [Callers -> [wants : SUBSET Buckets, at : 0..MaxTime]]
        /\ clock' = clock
    BY LimiterAssumption DEF Consume, Idle, LimiterIInv, TypeOK
  <1>6. QED
    BY <1>2, <1>3, <1>4, <1>5 DEF LimiterIInv, TypeOK, WithinLimit

\* Every step of the limiter keeps the invariant.
LEMMA LimiterNextPreserves == LimiterIInv /\ [Next]_vars => LimiterIInv'
  <1> SUFFICES ASSUME LimiterIInv, [Next]_vars PROVE LimiterIInv'
    OBVIOUS
  <1>1. CASE UNCHANGED vars
    BY <1>1 DEF vars, LimiterIInv, TypeOK, WithinLimit
  <1>2. ASSUME NEW c \in Callers, NEW wants \in SUBSET Buckets, Ask(c, wants) PROVE LimiterIInv'
    BY <1>2 DEF Ask, LimiterIInv, TypeOK, WithinLimit
  <1>3. ASSUME NEW b \in Resettable, Reset(b) PROVE LimiterIInv'
    BY <1>3, LimiterAssumption DEF Reset, NoBucket, Stamped, LimiterIInv, TypeOK, WithinLimit
  <1>4. CASE Tick
    BY <1>4, LimiterAssumption DEF Tick, LimiterIInv, TypeOK, WithinLimit
  <1>5. QED
    BY <1>1, <1>2, <1>3, <1>4, ConsumePreserves DEF Next

\* The limiter starts with no bucket.
LEMMA LimiterInitIInv == Init => LimiterIInv
  BY LimiterAssumption DEF Init, Idle, NoBucket, Stamped, LimiterIInv, TypeOK, WithinLimit

\* The inductive invariant holds in every reachable state.
THEOREM LimiterInvariance == Spec => []LimiterIInv
  BY LimiterInitIInv, LimiterNextPreserves, PTL DEF Spec

\* No window ever counts more requests than the limit.
THEOREM QuotaHolds == Spec => []WithinLimit
  BY LimiterInvariance, PTL DEF LimiterIInv

\* Windows of one bucket are disjoint although clock readings arrive late.
THEOREM WindowsAreDisjoint == Spec => WindowsDoNotOverlap
  <1>1. ASSUME LimiterIInv, Next, NEW b \in Buckets, buckets[b].count > 0, buckets'[b].count > 0,
               buckets'[b].started # buckets[b].started
        PROVE  buckets'[b].started >= buckets[b].started + Window
    <2>1. ASSUME NEW r \in Resettable, Reset(r) PROVE FALSE
      BY <1>1, <2>1, LimiterAssumption DEF Reset, NoBucket, LimiterIInv, TypeOK
    <2>2. ASSUME NEW c \in Callers, Consume(c)
          PROVE  buckets'[b].started >= buckets[b].started + Window
      <3>1. buckets[b] \in Stamped /\ asks[c].at \in 0..MaxTime
        BY <1>1, <2>2 DEF LimiterIInv, TypeOK
      <3>2. buckets'[b] = Consumed(buckets[b], Window, asks[c].at)
        <4>1. buckets'[b] # buckets[b]
          BY <1>1
        <4>2. QED
          BY <2>2, <4>1 DEF Consume
      <3>3. QED
        BY <1>1, <3>1, <3>2, ConsumedStart
    <2>3. QED
      BY <1>1, <2>1, <2>2 DEF Next, Ask, Tick
  <1>2. LimiterIInv /\ [Next]_vars =>
            [\A b \in Buckets :
                buckets[b].count > 0 /\ buckets'[b].count > 0
                        /\ buckets'[b].started # buckets[b].started
                    => buckets'[b].started >= buckets[b].started + Window]_vars
    BY <1>1
  <1>3. QED
    BY <1>2, LimiterInvariance, PTL DEF Spec, WindowsDoNotOverlap

\* Consuming a bucket that admits the request always shows.
LEMMA ConsumedDiffers ==
  ASSUME NEW bucket \in Stamped, NEW at \in 0..MaxTime
  PROVE  Consumed(bucket, Window, at) # bucket
  BY LimiterAssumption DEF Consumed, Expired, Stamped

\* A request is counted in every bucket it names, or in none of them: however
\* many requests commit beside it, a denial leaves nothing behind.
THEOREM ChargesAreWhole == Spec => AllOrNothing
  <1> DEFINE Whole == \A c \in Callers : asks[c] # Idle /\ asks'[c] = Idle =>
                        \/ \A b \in asks[c].wants : buckets'[b].count > 0 /\ buckets'[b] # buckets[b]
                        \/ UNCHANGED buckets
  <1>1. ASSUME LimiterIInv, Next, NEW c \in Callers, asks[c] # Idle, asks'[c] = Idle
        PROVE  \/ \A b \in asks[c].wants : buckets'[b].count > 0 /\ buckets'[b] # buckets[b]
               \/ UNCHANGED buckets
    <2>1. ASSUME NEW d \in Callers, NEW wants \in SUBSET Buckets, wants # {}, Ask(d, wants)
          PROVE  FALSE
      BY <1>1, <2>1 DEF Ask, Idle, LimiterIInv, TypeOK
    <2>2. ASSUME NEW d \in Callers, Consume(d)
          PROVE  \/ \A b \in asks[c].wants : buckets'[b].count > 0 /\ buckets'[b] # buckets[b]
                 \/ UNCHANGED buckets
      <3>1. d = c
        BY <1>1, <2>2 DEF Consume, LimiterIInv, TypeOK
      <3>2. asks[c].wants \subseteq Buckets /\ asks[c].at \in 0..MaxTime
        BY <1>1 DEF LimiterIInv, TypeOK
      <3>3. CASE Allowed(c)
        <4>1. ASSUME NEW b \in asks[c].wants
              PROVE  buckets'[b] = Consumed(buckets[b], Window, asks[c].at)
          BY <2>2, <3>1, <3>2, <3>3 DEF Consume, Charged
        <4>2. \A b \in asks[c].wants : buckets[b] \in Stamped
          BY <1>1, <3>2 DEF LimiterIInv, TypeOK
        <4>3. QED
          BY <3>2, <4>1, <4>2, ConsumedType, ConsumedDiffers
      <3>4. CASE ~Allowed(c)
        BY <1>1, <2>2, <3>1, <3>4 DEF Consume, Charged, LimiterIInv, TypeOK
      <3>5. QED
        BY <3>3, <3>4
    <2>3. ASSUME UNCHANGED asks PROVE FALSE
      BY <1>1, <2>3
    <2>4. QED
      BY <1>1, <2>1, <2>2, <2>3 DEF Next, Reset, Tick
  <1>2. LimiterIInv /\ [Next]_vars => [Whole]_vars
    BY <1>1
  <1>3. QED
    BY <1>2, LimiterInvariance, PTL DEF Spec, AllOrNothing

\* The windows of the limiter that a stretch can touch.
LEMMA WindowsTouchedFacts ==
  /\ WindowsTouched \in Nat
  /\ 2 * Window + MaxLag < WindowsTouched * Window + 2
  <1> DEFINE span == 3 * Window + MaxLag - 2
  <1>1. span \in Nat /\ Window \in Nat /\ Window > 0 /\ MaxLag \in Nat
    BY LimiterAssumption
  <1> HIDE DEF span
  <1>2. /\ span \div Window \in Nat
        /\ span < (span \div Window) * Window + Window
    BY <1>1
  <1>3. WindowsTouched = span \div Window
    BY DEF WindowsTouched, span
  <1> DEFINE whole == WindowsTouched * Window
  <1>4. whole \in Int /\ span < whole + Window
    BY <1>1, <1>2, <1>3
  <1> HIDE DEF whole
  <1>5. 2 * Window + MaxLag < whole + 2
    BY <1>1, <1>4 DEF span
  <1>6. QED
    BY <1>2, <1>3, <1>5 DEF whole

\* Requests in flight have read the clock not long ago.
AsksAreTimely ==
    \A c \in Callers : asks[c].wants # {} => asks[c].at <= clock /\ clock <= asks[c].at + MaxLag

\* Every bucket accounts for what it admitted, and started in the past.
LogsAreKept ==
    /\ \A b \in Buckets : buckets[b].started <= clock
    /\ \A b \in Buckets \ Resettable :
          Accounted(admitted[b], buckets[b], Limit, Window, MaxLag)

\* What bounds a burst, beside types and quota.
BurstIInv ==
    /\ AsksAreTimely
    /\ LogsAreKept
    /\ BurstIsBounded

\* A log of the limiter's clock is one of numbers.
LEMMA LogOfNumbers ==
  ASSUME LimiterIInv, NEW b \in Buckets \ Resettable
  PROVE  /\ admitted[b] \in Seq(Nat) /\ buckets[b] \in Bucket /\ buckets[b].count <= Limit
         /\ clock \in Nat
  <1>1. admitted[b] \in Seq(0..MaxTime)
    BY DEF LimiterIInv, TypeOK
  <1>2. admitted[b] \in Seq(Nat)
    BY <1>1, LimiterAssumption
  <1>3. QED
    BY <1>2, LimiterAssumption DEF LimiterIInv, TypeOK, WithinLimit, Stamped, Bucket

\* Charging keeps the bound: of a stretch that the present window no longer
\* touches, nothing is admitted any more.
LEMMA ConsumeKeepsBound ==
  ASSUME LimiterIInv, LimiterIInv', BurstIInv, NEW c \in Callers, Consume(c)
  PROVE  BurstIInv'
  <1> DEFINE at == asks[c].at
  <1>1. /\ asks[c].wants # {} /\ at \in Nat /\ clock \in Nat
        /\ at <= clock /\ clock <= at + MaxLag /\ UNCHANGED clock
        /\ Limit \in Nat \ {0} /\ Window \in Nat \ {0} /\ MaxLag \in Nat
    BY LimiterAssumption DEF Consume, LimiterIInv, TypeOK, BurstIInv, AsksAreTimely
  <1>2. AsksAreTimely'
    BY <1>1 DEF Consume, Idle, LimiterIInv, TypeOK, BurstIInv, AsksAreTimely
  <1>3. \A b \in Buckets : /\ buckets'[b] = IF b \in Charged(c)
                                 THEN Consumed(buckets[b], Window, at) ELSE buckets[b]
                           /\ buckets[b] \in Stamped
                           /\ b \in Charged(c) => Admits(buckets[b], Limit, Window, at)
    BY DEF Consume, LimiterIInv, TypeOK, Charged, Allowed
  <1>4. \A b \in Buckets \ Resettable :
            admitted'[b] = IF b \in Charged(c) THEN Append(admitted[b], clock) ELSE admitted[b]
    BY DEF Consume
  <1> HIDE DEF at
  <1>5. \A b \in Buckets : buckets'[b].started <= clock'
    <2> SUFFICES ASSUME NEW b \in Buckets PROVE buckets'[b].started <= clock
      BY <1>1
    <2>1. buckets[b].started <= clock
      BY DEF BurstIInv, LogsAreKept
    <2>2. Consumed(buckets[b], Window, at).started \in {at, buckets[b].started}
      BY DEF Consumed
    <2>3. QED
      BY <1>1, <1>3, <2>1, <2>2
  <1>6. ASSUME NEW b \in Buckets \ Resettable
        PROVE  /\ Accounted(admitted'[b], buckets'[b], Limit, Window, MaxLag)
               /\ \A from \in 0..MaxTime :
                    Cardinality(Stretch(admitted'[b], Window, from)) <= Limit * WindowsTouched
    <2> DEFINE log == admitted[b]
               bucket == buckets[b]
    <2>1. /\ log \in Seq(Nat) /\ bucket \in Bucket /\ bucket.count <= Limit
          /\ Accounted(log, bucket, Limit, Window, MaxLag)
          /\ \A from \in 0..MaxTime :
               Cardinality(Stretch(log, Window, from)) <= Limit * WindowsTouched
      BY LogOfNumbers DEF BurstIInv, LogsAreKept, BurstIsBounded
    <2>2. /\ admitted'[b] \in Seq(Nat) /\ buckets'[b] \in Bucket /\ buckets'[b].count <= Limit
      <3>1. admitted'[b] \in Seq(0..MaxTime)
        BY DEF LimiterIInv, TypeOK
      <3>2. admitted'[b] \in Seq(Nat)
        BY <3>1, LimiterAssumption
      <3>3. QED
        BY <3>2, LimiterAssumption DEF LimiterIInv, TypeOK, WithinLimit, Stamped, Bucket
    <2>3. CASE b \notin Charged(c)
      BY <1>3, <1>4, <2>1, <2>3
    <2>4. CASE b \in Charged(c)
      <3>1. admitted'[b] = Append(log, clock) /\ buckets'[b] = Consumed(bucket, Window, at)
        BY <1>3, <1>4, <2>4
      <3>2. Admits(bucket, Limit, Window, at)
        BY <1>3, <2>4
      <3>5. \A from \in Nat : from + Window <= buckets'[b].started =>
                Stretch(Append(log, clock), Window, from) = Stretch(log, Window, from)
        <4> SUFFICES ASSUME NEW from \in Nat, from + Window <= buckets'[b].started
                     PROVE  Stretch(Append(log, clock), Window, from) = Stretch(log, Window, from)
          OBVIOUS
        <4>1. ~(from <= clock /\ clock < from + Window)
          BY <1>1, <1>5, <2>2 DEF Bucket
        <4>2. QED
          BY <1>1, <2>1, <4>1, LogGrows
      <3> HIDE DEF log, bucket
      <3>3. Accounted(Append(log, clock), Consumed(bucket, Window, at), Limit, Window, MaxLag)
        BY <1>1, <2>1, <3>2, ConsumptionIsAccounted
      <3>4. Accounted(admitted'[b], buckets'[b], Limit, Window, MaxLag)
        BY <3>1, <3>3
      <3>6. ASSUME NEW from \in 0..MaxTime
            PROVE  Cardinality(Stretch(admitted'[b], Window, from)) <= Limit * WindowsTouched
        <4>1. from \in Nat
          BY LimiterAssumption
        <4>2. CASE buckets'[b].started < from + Window
          BY <1>1, <2>2, <3>4, <4>1, <4>2, WindowsTouchedFacts, StretchIsBounded
        <4>3. CASE from + Window <= buckets'[b].started
          BY <2>1, <3>1, <3>5, <4>1, <4>3
        <4>4. QED
          BY <1>1, <2>2, <4>1, <4>2, <4>3 DEF Bucket
      <3>7. QED
        BY <3>4, <3>6
    <2>5. QED
      BY <2>3, <2>4
  <1>7. QED
    BY <1>2, <1>5, <1>6 DEF BurstIInv, LogsAreKept, BurstIsBounded

\* In any stretch of time as long as a window, wherever it begins, a bucket
\* admits no more than the windows that the stretch can touch.
LEMMA BurstInvariance == Spec => []BurstIInv
  <1>1. Init => BurstIInv
    <2> SUFFICES ASSUME Init PROVE BurstIInv
      OBVIOUS
    <2>1. AsksAreTimely
      BY DEF Init, Idle, AsksAreTimely
    <2>2. ASSUME NEW b \in Buckets \ Resettable
          PROVE  /\ Accounted(admitted[b], buckets[b], Limit, Window, MaxLag)
                 /\ \A from \in Nat : Cardinality(Stretch(admitted[b], Window, from)) = 0
      <3>1. admitted[b] = <<>> /\ buckets[b].count = 0
        BY DEF Init, NoBucket
      <3>2. QED
        BY <3>1, LimiterAssumption, EmptyAccount
    <2>3. \A b \in Buckets : buckets[b].started <= clock
      BY DEF Init, NoBucket
    <2>4. BurstIsBounded
      <3>1. 0 <= Limit * WindowsTouched
        BY LimiterAssumption, WindowsTouchedFacts
      <3>2. \A from \in 0..MaxTime : from \in Nat
        BY LimiterAssumption
      <3>3. QED
        BY <2>2, <3>1, <3>2 DEF BurstIsBounded
    <2>5. QED
      BY <2>1, <2>2, <2>3, <2>4 DEF BurstIInv, LogsAreKept
  <1>2. LimiterIInv /\ LimiterIInv' /\ BurstIInv /\ [Next]_vars => BurstIInv'
    <2> SUFFICES ASSUME LimiterIInv, LimiterIInv', BurstIInv, [Next]_vars PROVE BurstIInv'
      OBVIOUS
    <2>1. CASE UNCHANGED vars
      BY <2>1 DEF vars, BurstIInv, AsksAreTimely, LogsAreKept, BurstIsBounded
    <2>2. ASSUME NEW c \in Callers, NEW wants \in SUBSET Buckets, Ask(c, wants) PROVE BurstIInv'
      <3>1. AsksAreTimely'
        BY <2>2, LimiterAssumption
           DEF Ask, LimiterIInv, TypeOK, BurstIInv, AsksAreTimely
      <3>2. QED
        BY <2>2, <3>1 DEF Ask, BurstIInv, LogsAreKept, BurstIsBounded
    <2>3. ASSUME NEW r \in Resettable, Reset(r) PROVE BurstIInv'
      <3>1. \A b \in Buckets : \/ buckets'[b] = buckets[b]
                               \/ b \in Resettable /\ buckets'[b].started = 0
        BY <2>3, LimiterAssumption DEF Reset, NoBucket, LimiterIInv, TypeOK
      <3>2. UNCHANGED <<clock, asks, admitted>> /\ clock \in Nat
        BY <2>3, LimiterAssumption DEF Reset, LimiterIInv, TypeOK
      <3>3. QED
        BY <3>1, <3>2 DEF BurstIInv, AsksAreTimely, LogsAreKept, BurstIsBounded
    <2>4. CASE Tick
      <3>1. UNCHANGED <<buckets, asks, admitted>> /\ clock' = clock + 1 /\ clock \in Nat
        BY <2>4, LimiterAssumption DEF Tick, LimiterIInv, TypeOK
      <3>2. AsksAreTimely'
        BY <2>4, <3>1, LimiterAssumption
           DEF Tick, Idle, LimiterIInv, TypeOK, BurstIInv, AsksAreTimely
      <3>3. \A b \in Buckets : buckets[b].started \in Nat
        BY LimiterAssumption DEF LimiterIInv, TypeOK, Stamped
      <3>4. QED
        BY <3>1, <3>2, <3>3 DEF BurstIInv, LogsAreKept, BurstIsBounded
    <2>5. QED
      BY <2>1, <2>2, <2>3, <2>4, ConsumeKeepsBound DEF Next
  <1>3. QED
    BY <1>1, <1>2, LimiterInvariance, PTL DEF Spec

-----------------------------------------------------------------------------
(* AdminSessions.                                                          *)

\* A login under way has verified the password that is in force, of an
\* administrator who exists, unless it overlapped with another request.
LoginsAreCurrent ==
    \A l \in Logins : logins[l] # NoLogin =>
        /\ Exists(logins[l].admin)
        /\ logins[l].admin \in crossed
             \/ logins[l].loaded.hash.secret = issued[logins[l].admin].secret

\* A rotation under way has read the address that is stored.
RotationsAreCurrent ==
    \A o \in Operators : commands[o].step \in {"updating", "revoking"} =>
        /\ Exists(commands[o].admin) /\ commands[o].loaded \in Admin
        /\ commands[o].admin \in crossed
             \/ commands[o].loaded.email = admins[commands[o].admin].email

\* A revocation covers every session that is accepted.
RevocationsReach ==
    \A o \in Operators : commands[o].step = "revoking" /\ commands[o].admin \notin crossed =>
        Revocable(commands[o].admin) \subseteq commands[o].revokes

\* Credentials were issued to whoever exists, and sessions are hers.
AdminsAreKnown ==
    /\ \A a \in Admins : Exists(a) => issued[a] \in Credentials
    /\ \A t \in Accepted : Exists(sessions[t].admin)

\* What logins and commands under way rely on, beside what is to be shown.
SessionsIInv ==
    /\ SessionsTypeOK
    /\ SessionsAreCurrent
    /\ CredentialsAreOfOneCommand
    /\ LoginsAreCurrent
    /\ RotationsAreCurrent
    /\ RevocationsReach
    /\ AdminsAreKnown

\* A row that exists has an address and a hash.
LEMMA ExistingAdmin ==
  ASSUME SessionsTypeOK, NEW a \in Admins
  PROVE  /\ Exists(a) => admins[a] \in Admin
         /\ admins[a] \in Admin => Exists(a)
  BY SessionsAssumption DEF SessionsTypeOK, Exists, NoAdmin, Admin

\* A login or a command under way has all its fields, and a session that is
\* accepted is one.
LEMMA UnderWay ==
  ASSUME SessionsTypeOK
  PROVE  /\ \A l \in Logins : logins[l] # NoLogin =>
              logins[l] \in [admin : Admins, loaded : Admin]
         /\ \A o \in Operators : commands[o].step # "none" =>
              commands[o] \in
                [step : {"creating", "updating", "revoking"}, admin : Admins,
                 loaded : Admin \union {NoAdmin}, asked : Credentials, revokes : SUBSET Tokens]
         /\ \A t \in Accepted : sessions[t] \in Session
  BY DEF SessionsTypeOK, NoCommand, NoSession, Accepted

\* A flush leaves a row, with the columns it writes.
LEMMA FlushedAdmin ==
  ASSUME NEW row \in Admin, NEW loaded \in Admin, NEW object \in Admin, NEW stamped
  PROVE  LET after == Flush(row, loaded, object, stamped)
         IN  /\ after \in Admin
             /\ after.email = IF object.email # loaded.email \/ "email" \in stamped
                                THEN object.email ELSE row.email
             /\ after.hash = IF object.hash # loaded.hash \/ "hash" \in stamped
                               THEN object.hash ELSE row.hash
  <1>1. DOMAIN row = {"email", "hash"}
    BY DEF Admin
  <1>2. Flush(row, loaded, object, stamped) =
          [c \in {"email", "hash"} |->
              IF object[c] # loaded[c] \/ c \in stamped THEN object[c] ELSE row[c]]
    BY <1>1 DEF Flush
  <1>3. QED
    BY <1>2 DEF Admin

\* Opening a session: a login that is not crossed writes back what is stored.
LEMMA OpenSessionPreserves ==
  ASSUME SessionsIInv, NEW l \in Logins, NEW t \in Tokens, OpenSession(l, t)
  PROVE  SessionsIInv'
  <1> DEFINE a == logins[l].admin
             loaded == logins[l].loaded
  <1>1. /\ a \in Admins /\ loaded \in Admin /\ Exists(a) /\ admins[a] \in Admin
        /\ a \in crossed \/ loaded.hash.secret = issued[a].secret
    BY UnderWay, ExistingAdmin DEF OpenSession, SessionsIInv, LoginsAreCurrent
  <1> HIDE DEF a, loaded
  <1>2. /\ sessions' = [sessions EXCEPT ![t] =
                 [admin |-> a, open |-> TRUE, secret |-> loaded.hash.secret]]
        /\ admins' = [admins EXCEPT ![a] = Flush(admins[a], loaded, Rehashed(loaded), {})]
        /\ crossed' = IF \E o \in Operators :
                              commands[o].step = "revoking" /\ commands[o].admin = a
                           THEN crossed \union {a} ELSE crossed
        /\ logins' = [logins EXCEPT ![l] = NoLogin]
        /\ commands' = commands /\ issued' = issued
    BY DEF OpenSession, a, loaded
  <1> DEFINE row == Flush(admins[a], loaded, Rehashed(loaded), {})
  <1>3. /\ row \in Admin /\ row.email = admins[a].email
        /\ row.hash.secret \in {admins[a].hash.secret, loaded.hash.secret}
    <2>1. Rehashed(loaded) \in Admin /\ Rehashed(loaded).email = loaded.email
          /\ Rehashed(loaded).hash.secret = loaded.hash.secret
      BY <1>1 DEF Rehashed, Admin, Hash
    <2>2. QED
      BY <1>1, <2>1, FlushedAdmin
  <1> HIDE DEF row
  <1>4. admins' = [admins EXCEPT ![a] = row]
    BY <1>2 DEF row
  <1>5. /\ SessionsTypeOK
        /\ admins \in [Admins -> Admin \union {NoAdmin}]
        /\ sessions \in [Tokens -> Session \union {NoSession}]
        /\ crossed \subseteq crossed' /\ crossed' \subseteq crossed \union {a}
    BY <1>1, <1>2 DEF SessionsIInv, SessionsTypeOK
  <1>6. SessionsTypeOK'
    <2>1. [admin |-> a, open |-> TRUE, secret |-> loaded.hash.secret] \in Session
      BY <1>1 DEF Session, Admin, Hash
    <2>2. crossed' \subseteq Admins
      BY <1>1, <1>5 DEF SessionsTypeOK
    <2>3. /\ admins' \in [Admins -> Admin \union {NoAdmin}]
          /\ sessions' \in [Tokens -> Session \union {NoSession}]
      BY <1>2, <1>3, <1>4, <1>5, <2>1
    <2>4. logins' \in [Logins -> [admin : Admins, loaded : Admin] \union {NoLogin}]
      BY <1>2, <1>5 DEF SessionsTypeOK
    <2>5. QED
      BY <1>2, <1>5, <2>2, <2>3, <2>4 DEF SessionsTypeOK
  <1>7. \A b \in Admins : Exists(b)' <=> Exists(b)
    BY <1>1, <1>3, <1>4, <1>5, SessionsAssumption DEF Exists, NoAdmin, Admin
  <1>8. \A b \in Admins : Exists(b) => admins'[b].email = admins[b].email
    BY <1>1, <1>3, <1>4, <1>5
  <1>9. /\ Accepted' \subseteq Accepted \union {t}
        /\ \A u \in Accepted' \ {t} : sessions'[u] = sessions[u]
        /\ sessions'[t].admin = a /\ sessions'[t].secret = loaded.hash.secret
    BY <1>2, <1>5 DEF Accepted
  <1>10. SessionsAreCurrent'
    BY <1>1, <1>2, <1>5, <1>9 DEF SessionsIInv, SessionsAreCurrent
  <1>11. CredentialsAreOfOneCommand'
    <2> SUFFICES ASSUME NEW b \in Admins, Exists(b)', b \notin crossed'
                 PROVE  /\ admins'[b].email = issued[b].email
                        /\ admins'[b].hash.secret = issued[b].secret
      BY <1>2 DEF CredentialsAreOfOneCommand
    <2>1. /\ admins[b].email = issued[b].email
          /\ admins[b].hash.secret = issued[b].secret
      BY <1>5, <1>7 DEF SessionsIInv, CredentialsAreOfOneCommand
    <2>2. QED
      BY <1>1, <1>3, <1>4, <1>5, <2>1
  <1>12. LoginsAreCurrent'
    <2> SUFFICES ASSUME NEW m \in Logins, logins'[m] # NoLogin
                 PROVE  /\ admins'[logins'[m].admin] # NoAdmin
                        /\ logins'[m].admin \in crossed'
                             \/ logins'[m].loaded.hash.secret = issued'[logins'[m].admin].secret
      BY DEF LoginsAreCurrent, Exists
    <2>1. logins'[m] = logins[m]
      BY <1>2, <1>5 DEF SessionsTypeOK
    <2>2. logins[m].admin \in Admins
      BY <1>5, <2>1, UnderWay
    <2>3. QED
      BY <1>2, <1>5, <1>7, <2>1, <2>2 DEF SessionsIInv, LoginsAreCurrent, Exists
  <1>13. RotationsAreCurrent'
    <2>1. \A o \in Operators : commands[o].step \in {"updating", "revoking"} =>
            commands[o].admin \in Admins
      BY <1>5, UnderWay
    <2>2. QED
      BY <1>2, <1>5, <1>7, <1>8, <2>1 DEF SessionsIInv, RotationsAreCurrent
  <1>14. RevocationsReach'
    <2> SUFFICES ASSUME NEW o \in Operators, commands[o].step = "revoking",
                        commands[o].admin \notin crossed', NEW u \in Revocable(commands[o].admin)'
                 PROVE  u \in commands[o].revokes
      BY <1>2 DEF RevocationsReach
    <2>1. commands[o].admin # a
      BY <1>2
    <2>2. u \in Accepted' /\ sessions'[u].admin = commands[o].admin
      BY <1>2 DEF Revocable
    <2>3. u \in Revocable(commands[o].admin)
      BY <1>9, <2>1, <2>2 DEF Revocable
    <2>4. QED
      BY <1>5, <2>3 DEF SessionsIInv, RevocationsReach
  <1>15. AdminsAreKnown'
    <2>1. \A u \in Accepted : sessions[u].admin \in Admins
      BY <1>5, UnderWay DEF Session
    <2>2. \A b \in Admins : Exists(b)' => issued'[b] \in Credentials
      BY <1>2, <1>7 DEF SessionsIInv, AdminsAreKnown
    <2>3. ASSUME NEW u \in Accepted' PROVE admins'[sessions'[u].admin] # NoAdmin
      BY <1>1, <1>7, <1>9, <2>1 DEF SessionsIInv, AdminsAreKnown, Exists
    <2>4. QED
      BY <2>2, <2>3 DEF AdminsAreKnown, Exists
  <1>16. QED
    BY <1>6, <1>10, <1>11, <1>12, <1>13, <1>14, <1>15 DEF SessionsIInv

\* Updating an administrator: either no request overlapped, and then what is
\* stored, issued and open is of this command, or she is marked.
LEMMA UpdatePreserves ==
  ASSUME SessionsIInv, NEW o \in Operators, Update(o)
  PROVE  SessionsIInv'
  <1> DEFINE a == commands[o].admin
             loaded == commands[o].loaded
             asked == commands[o].asked
             revokes == commands[o].revokes
             others == [commands EXCEPT ![o] = NoCommand]
             row == Flush(admins[a], loaded, Rotated(loaded, asked), {"hash"})
  <1>1. /\ SessionsTypeOK
        /\ a \in Admins /\ loaded \in Admin /\ Exists(a) /\ admins[a] \in Admin
        /\ asked \in Credentials
        /\ a \in crossed \/ loaded.email = admins[a].email
        /\ a \in crossed \/ Revocable(a) \subseteq revokes
    BY UnderWay, ExistingAdmin
    DEF Update, SessionsIInv, RotationsAreCurrent, RevocationsReach
  <1>2. /\ admins' = [admins EXCEPT ![a] = row]
        /\ sessions' = [t \in Tokens |->
              IF t \in revokes THEN [sessions[t] EXCEPT !.open = FALSE] ELSE sessions[t]]
        /\ issued' = [issued EXCEPT ![a] = asked]
        /\ crossed' = IF a \in Entered(logins, others) THEN crossed \union {a} ELSE crossed
        /\ commands' = others
        /\ logins' = logins
    BY DEF Update
  <1>3. /\ row \in Admin /\ row.hash.secret = asked.secret
        /\ a \in crossed \/ row.email = asked.email
    <2>1. /\ Rotated(loaded, asked) \in Admin
          /\ Rotated(loaded, asked).email = asked.email
          /\ Rotated(loaded, asked).hash.secret = asked.secret
      BY <1>1 DEF Rotated, Admin, Hash, Credentials
    <2> HIDE DEF a, loaded, asked
    <2>2. QED
      BY <1>1, <2>1, FlushedAdmin
  <1> HIDE DEF row
  <1>4. /\ crossed \subseteq crossed' /\ crossed' \subseteq crossed \union {a}
        /\ a \notin crossed' => a \notin Entered(logins, others)
    BY <1>2
  <1> HIDE DEF a, asked, loaded, revokes
  <1>5. \A c \in Operators : commands'[c].step # "none" =>
          c # o /\ commands'[c] = commands[c]
    BY <1>1, <1>2 DEF SessionsTypeOK, NoCommand
  <1>6. a \notin crossed' =>
          /\ \A l \in Logins : logins[l] # NoLogin => logins[l].admin # a
          /\ \A c \in Operators : commands'[c].step \in {"updating", "revoking"} =>
               commands[c].admin # a
    BY <1>2, <1>4, <1>5 DEF Entered
  <1> HIDE DEF others
  <1>7. /\ \A b \in Admins : (admins'[b] # NoAdmin) <=> (admins[b] # NoAdmin)
        /\ \A b \in Admins \ {a} : admins'[b] = admins[b] /\ issued'[b] = issued[b]
        /\ admins'[a] = row /\ issued'[a] = asked
    BY <1>1, <1>2, <1>3, SessionsAssumption DEF Exists, NoAdmin, Admin, SessionsTypeOK
  <1>8. /\ Accepted' \subseteq Accepted \ revokes
        /\ \A t \in Accepted' : sessions'[t] = sessions[t]
    <2>1. ASSUME NEW t \in Accepted', t \in revokes PROVE FALSE
      <3>1. sessions[t] \in Session \union {NoSession}
        BY <1>1 DEF SessionsTypeOK, Accepted
      <3>2. ~[sessions[t] EXCEPT !.open = FALSE].open
        BY <3>1 DEF Session, NoSession
      <3>3. QED
        BY <1>2, <2>1, <3>2 DEF Accepted
    <2>2. QED
      BY <1>2, <2>1 DEF Accepted
  <1>9. SessionsTypeOK'
    <2>1. admins' \in [Admins -> Admin \union {NoAdmin}]
      BY <1>1, <1>2, <1>3 DEF SessionsTypeOK
    <2>2. sessions' \in [Tokens -> Session \union {NoSession}]
      <3>1. ASSUME NEW t \in Tokens
            PROVE  [sessions[t] EXCEPT !.open = FALSE] \in Session \union {NoSession}
        <4>1. sessions[t] \in Session \union {NoSession}
          BY <1>1 DEF SessionsTypeOK
        <4>2. CASE sessions[t] \in Session
          BY <4>2 DEF Session
        <4>3. CASE sessions[t] = NoSession
          <5>1. sessions[t] \in [open : {FALSE}]
            BY <4>3 DEF NoSession
          <5>2. [sessions[t] EXCEPT !.open = FALSE] \in [open : {FALSE}]
            BY <5>1
          <5>3. ASSUME NEW r \in [open : {FALSE}] PROVE r = NoSession
            <6>1. r = [open |-> r.open] /\ r.open = FALSE
              OBVIOUS
            <6>2. QED
              BY <6>1, Zenon DEF NoSession
          <5>4. QED
            BY <5>2, <5>3
        <4>4. QED
          BY <4>1, <4>2, <4>3
      <3>2. QED
        BY <1>1, <1>2, <3>1 DEF SessionsTypeOK
    <2>3. /\ issued' \in [Admins -> Credentials \union {NoAdmin}]
          /\ crossed' \subseteq Admins
      BY <1>1, <1>2, <1>4 DEF SessionsTypeOK
    <2>4. others \in [Operators ->
         [step : {"creating", "updating", "revoking"}, admin : Admins, loaded : Admin \union {NoAdmin},
          asked : Credentials, revokes : SUBSET Tokens] \union {NoCommand}]
      BY <1>1 DEF SessionsTypeOK, others
    <2>5. QED
      BY <1>1, <1>2, <2>1, <2>2, <2>3, <2>4 DEF SessionsTypeOK
  <1>10. SessionsAreCurrent'
    <2> SUFFICES ASSUME NEW t \in Accepted', sessions[t].admin \notin crossed'
                 PROVE  sessions[t].secret = issued'[sessions[t].admin].secret
      BY <1>8 DEF SessionsAreCurrent
    <2>1. t \in Accepted /\ sessions[t].admin \in Admins
      BY <1>1, <1>8, UnderWay DEF Session
    <2>2. sessions[t].admin # a
      BY <1>1, <1>4, <1>8, <2>1 DEF Revocable
    <2>3. QED
      BY <1>4, <1>7, <2>1, <2>2 DEF SessionsIInv, SessionsAreCurrent
  <1>11. CredentialsAreOfOneCommand'
    <2> SUFFICES ASSUME NEW b \in Admins, admins'[b] # NoAdmin, b \notin crossed'
                 PROVE  /\ admins'[b].email = issued'[b].email
                        /\ admins'[b].hash.secret = issued'[b].secret
      BY DEF CredentialsAreOfOneCommand, Exists
    <2>1. CASE b = a
      BY <1>3, <1>4, <1>7, <2>1
    <2>2. CASE b # a
      BY <1>4, <1>7, <2>2 DEF SessionsIInv, CredentialsAreOfOneCommand, Exists
    <2>3. QED
      BY <2>1, <2>2
  <1>12. LoginsAreCurrent'
    <2> SUFFICES ASSUME NEW m \in Logins, logins[m] # NoLogin
                 PROVE  /\ admins'[logins[m].admin] # NoAdmin
                        /\ logins[m].admin \in crossed'
                             \/ logins[m].loaded.hash.secret = issued'[logins[m].admin].secret
      BY <1>2 DEF LoginsAreCurrent, Exists
    <2>1. logins[m].admin \in Admins
      BY <1>1, UnderWay
    <2>2. QED
      BY <1>4, <1>6, <1>7, <2>1 DEF SessionsIInv, LoginsAreCurrent, Exists
  <1>13. RotationsAreCurrent'
    <2> SUFFICES ASSUME NEW c \in Operators, commands'[c].step \in {"updating", "revoking"}
                 PROVE  /\ admins'[commands'[c].admin] # NoAdmin /\ commands'[c].loaded \in Admin
                        /\ commands'[c].admin \in crossed'
                             \/ commands'[c].loaded.email = admins'[commands'[c].admin].email
      BY DEF RotationsAreCurrent, Exists
    <2>1. commands'[c] = commands[c] /\ commands[c].admin \in Admins
      BY <1>1, <1>5, UnderWay
    <2>2. QED
      BY <1>4, <1>6, <1>7, <2>1 DEF SessionsIInv, RotationsAreCurrent, Exists
  <1>14. RevocationsReach'
    <2> SUFFICES ASSUME NEW c \in Operators, commands'[c].step = "revoking",
                        commands'[c].admin \notin crossed',
                        NEW t \in Accepted', sessions'[t].admin = commands'[c].admin
                 PROVE  t \in commands'[c].revokes
      BY DEF RevocationsReach, Revocable
    <2>1. QED
      BY <1>4, <1>5, <1>8 DEF SessionsIInv, RevocationsReach, Revocable
  <1>15. AdminsAreKnown'
    <2>1. \A t \in Accepted : sessions[t].admin \in Admins
      BY <1>1, UnderWay DEF Session
    <2>2. \A b \in Admins : admins'[b] # NoAdmin => issued'[b] \in Credentials
      BY <1>1, <1>7 DEF SessionsIInv, AdminsAreKnown, Exists
    <2>3. \A t \in Accepted' : admins'[sessions'[t].admin] # NoAdmin
      BY <1>7, <1>8, <2>1 DEF SessionsIInv, AdminsAreKnown, Exists
    <2>4. QED
      BY <2>2, <2>3 DEF AdminsAreKnown, Exists
  <1>16. QED
    BY <1>9, <1>10, <1>11, <1>12, <1>13, <1>14, <1>15 DEF SessionsIInv

\* The steps of a login but the last one change nothing that is stored.
LEMMA LoginPreserves ==
  ASSUME SessionsIInv, NEW l \in Logins,
         AbandonLogin(l) \/ \E e \in Emails, s \in Secrets : Verify(l, e, s)
  PROVE  SessionsIInv'
  <1>1. UNCHANGED <<admins, sessions, commands, issued, crossed>>
    BY DEF AbandonLogin, Verify
  <1>2. \A m \in Logins : logins'[m] # NoLogin =>
          \/ logins'[m] = logins[m]
          \/ \E a \in Admins :
               /\ Exists(a)
               /\ logins'[m] = [admin |-> a, loaded |-> admins[a]]
    BY DEF AbandonLogin, Verify, WithEmail, SessionsIInv, SessionsTypeOK
  <1>3. logins' \in [Logins -> [admin : Admins, loaded : Admin] \union {NoLogin}]
    BY ExistingAdmin DEF AbandonLogin, Verify, WithEmail, SessionsIInv, SessionsTypeOK
  <1>4. LoginsAreCurrent'
    <2> SUFFICES ASSUME NEW m \in Logins, logins'[m] # NoLogin
                 PROVE  /\ admins[logins'[m].admin] # NoAdmin
                        /\ logins'[m].admin \in crossed
                             \/ logins'[m].loaded.hash.secret = issued[logins'[m].admin].secret
      BY <1>1 DEF LoginsAreCurrent, Exists
    <2>1. CASE logins'[m] = logins[m]
      BY <2>1 DEF LoginsAreCurrent, Exists, SessionsIInv
    <2>2. CASE logins'[m] # logins[m]
      <3>1. PICK a \in Admins : Exists(a) /\ logins'[m] = [admin |-> a, loaded |-> admins[a]]
        BY <1>2, <2>2
      <3>2. a \in crossed \/ admins[a].hash.secret = issued[a].secret
        BY <3>1 DEF SessionsIInv, CredentialsAreOfOneCommand
      <3>3. QED
        BY <3>1, <3>2 DEF Exists
    <2>3. QED
      BY <2>1, <2>2
  <1>5. QED
    BY <1>1, <1>3, <1>4
    DEF SessionsIInv, SessionsTypeOK, SessionsAreCurrent, CredentialsAreOfOneCommand,
        RotationsAreCurrent, RevocationsReach, AdminsAreKnown, Exists, Accepted, Revocable

\* Logging out ends a session, and leaves the rest as it is.
LEMMA LogoutPreserves ==
  ASSUME SessionsIInv, NEW t \in Tokens, Logout(t)
  PROVE  SessionsIInv'
  <1>1. sessions[t] \in Session
    BY UnderWay DEF Logout, SessionsIInv
  <1>2. sessions' \in [Tokens -> Session \union {NoSession}]
    BY <1>1 DEF Logout, SessionsIInv, SessionsTypeOK, Session
  <1>3. /\ Accepted' \subseteq Accepted
        /\ \A u \in Accepted' : sessions'[u] = sessions[u]
        /\ UNCHANGED <<admins, logins, commands, issued, crossed>>
    BY <1>1 DEF Logout, Accepted, SessionsIInv, SessionsTypeOK, Session
  <1>4. SessionsAreCurrent' /\ RevocationsReach' /\ AdminsAreKnown'
    BY <1>3
    DEF SessionsIInv, SessionsAreCurrent, RevocationsReach, AdminsAreKnown, Revocable, Exists
  <1>5. QED
    BY <1>2, <1>3, <1>4
    DEF SessionsIInv, SessionsTypeOK, CredentialsAreOfOneCommand, LoginsAreCurrent,
        RotationsAreCurrent, Exists

\* New parameters change no address and no password.
LEMMA OutdatePreserves ==
  ASSUME SessionsIInv, Outdate
  PROVE  SessionsIInv'
  <1>1. \A a \in Admins :
          /\ ~Exists(a) => admins'[a] = NoAdmin
          /\ Exists(a) =>
               /\ admins'[a] \in Admin
               /\ admins'[a].email = admins[a].email
               /\ admins'[a].hash.secret = admins[a].hash.secret
    <2> SUFFICES ASSUME NEW a \in Admins, Exists(a)
                 PROVE  /\ admins'[a] \in Admin
                        /\ admins'[a].email = admins[a].email
                        /\ admins'[a].hash.secret = admins[a].hash.secret
      BY DEF Outdate
    <2>1. admins[a] \in Admin
      BY ExistingAdmin DEF SessionsIInv
    <2>2. admins'[a] = [admins[a] EXCEPT !.hash.modern = FALSE]
      BY DEF Outdate
    <2>3. QED
      BY <2>1, <2>2 DEF Admin, Hash
  <1>2. admins' \in [Admins -> Admin \union {NoAdmin}]
    BY <1>1 DEF Outdate
  <1>3. \A a \in Admins : admins'[a] # NoAdmin <=> admins[a] # NoAdmin
    BY <1>1, SessionsAssumption DEF Exists, NoAdmin, Admin
  <1>4. UNCHANGED <<sessions, logins, commands, issued, crossed>>
    BY DEF Outdate
  <1>5. /\ \A l \in Logins : logins[l] # NoLogin => logins[l].admin \in Admins
        /\ \A o \in Operators : commands[o].step # "none" => commands[o].admin \in Admins
        /\ \A t \in Accepted : sessions[t].admin \in Admins
    BY UnderWay DEF SessionsIInv, Session
  <1>6. CredentialsAreOfOneCommand'
    BY <1>1, <1>3, <1>4 DEF SessionsIInv, CredentialsAreOfOneCommand, Exists
  <1>7. LoginsAreCurrent'
    BY <1>3, <1>4, <1>5 DEF SessionsIInv, LoginsAreCurrent, Exists
  <1>8. RotationsAreCurrent'
    BY <1>1, <1>3, <1>4, <1>5 DEF SessionsIInv, RotationsAreCurrent, Exists
  <1>9. AdminsAreKnown' /\ Accepted' = Accepted
    BY <1>3, <1>4, <1>5 DEF SessionsIInv, AdminsAreKnown, Exists, Accepted
  <1>10. QED
    BY <1>2, <1>4, <1>6, <1>7, <1>8, <1>9
    DEF SessionsIInv, SessionsTypeOK, SessionsAreCurrent, RevocationsReach, Revocable, Accepted

\* A row that is created was no one's, and has the credentials of its command.
LEMMA CreatePreserves ==
  ASSUME SessionsIInv, NEW o \in Operators, Create(o)
  PROVE  SessionsIInv'
  <1> DEFINE a == commands[o].admin
             asked == commands[o].asked
             row == [email |-> asked.email, hash |-> [secret |-> asked.secret, modern |-> TRUE]]
  <1>1. a \in Admins /\ asked \in Credentials /\ ~Exists(a) /\ SessionsTypeOK
    BY UnderWay DEF Create, SessionsIInv
  <1>2. /\ row \in Admin /\ row # NoAdmin
        /\ row.email = asked.email /\ row.hash.secret = asked.secret
    BY <1>1, SessionsAssumption DEF Admin, Hash, Credentials, NoAdmin
  <1>3. /\ admins' = [admins EXCEPT ![a] = row]
        /\ issued' = [issued EXCEPT ![a] = asked]
        /\ commands' = [commands EXCEPT ![o] = NoCommand]
        /\ UNCHANGED <<sessions, logins, crossed>>
    BY DEF Create
  <1> HIDE DEF a, asked, row
  <1>4. SessionsTypeOK'
    BY <1>1, <1>2, <1>3 DEF SessionsTypeOK
  <1>5. /\ admins'[a] = row /\ issued'[a] = asked
        /\ \A b \in Admins \ {a} : admins'[b] = admins[b] /\ issued'[b] = issued[b]
    BY <1>1, <1>3 DEF SessionsTypeOK
  <1>6. \A c \in Operators : commands'[c].step # "none" => commands'[c] = commands[c]
    BY <1>1, <1>3 DEF SessionsTypeOK, NoCommand
  <1>7. /\ \A l \in Logins : logins[l] # NoLogin => logins[l].admin \in Admins \ {a}
        /\ \A c \in Operators : commands[c].step \in {"updating", "revoking"} =>
             commands[c].admin \in Admins \ {a}
        /\ \A t \in Accepted : sessions[t].admin \in Admins \ {a}
    BY <1>1, UnderWay
    DEF SessionsIInv, LoginsAreCurrent, RotationsAreCurrent, AdminsAreKnown, Session
  <1>8. CredentialsAreOfOneCommand' /\ LoginsAreCurrent'
    BY <1>1, <1>2, <1>3, <1>5, <1>7
    DEF SessionsIInv, CredentialsAreOfOneCommand, LoginsAreCurrent, Exists
  <1>9. RotationsAreCurrent' /\ RevocationsReach'
    BY <1>3, <1>5, <1>6, <1>7
    DEF SessionsIInv, RotationsAreCurrent, RevocationsReach, Revocable, Accepted, Exists
  <1>10. SessionsAreCurrent' /\ AdminsAreKnown'
    BY <1>1, <1>2, <1>3, <1>5, <1>7
    DEF SessionsIInv, SessionsAreCurrent, AdminsAreKnown, Accepted, Exists
  <1>11. QED
    BY <1>4, <1>8, <1>9, <1>10 DEF SessionsIInv

\* The steps of a command but its last one only note what it has read.
LEMMA CommandPreserves ==
  ASSUME SessionsIInv, NEW o \in Operators,
         \/ \E a \in Admins, asked \in Credentials :
              BeginCreate(o, a, asked) \/ BeginUpdate(o, a, asked)
         \/ Revoke(o)
         \/ AbandonCommand(o)
  PROVE  SessionsIInv'
  <1>1. UNCHANGED <<admins, sessions, logins, issued, crossed>>
    BY DEF BeginCreate, BeginUpdate, Revoke, AbandonCommand
  <1>2. \E command : commands' = [commands EXCEPT ![o] = command]
    BY DEF BeginCreate, BeginUpdate, Revoke, AbandonCommand
  <1>3. /\ commands' = [commands EXCEPT ![o] = commands'[o]]
        /\ \A c \in Operators \ {o} : commands'[c] = commands[c]
    BY <1>2 DEF SessionsIInv, SessionsTypeOK
  <1>4. /\ commands'[o] \in
             [step : {"creating", "updating", "revoking"}, admin : Admins,
              loaded : Admin \union {NoAdmin}, asked : Credentials, revokes : SUBSET Tokens]
                \union {NoCommand}
        /\ commands'[o].step \in {"updating", "revoking"} =>
             /\ Exists(commands'[o].admin) /\ commands'[o].loaded \in Admin
             /\ commands'[o].admin \in crossed
                  \/ commands'[o].loaded.email = admins[commands'[o].admin].email
        /\ commands'[o].step = "revoking" =>
             Revocable(commands'[o].admin) \subseteq commands'[o].revokes
    <2>1. CASE AbandonCommand(o)
      BY <2>1 DEF AbandonCommand, NoCommand, SessionsIInv, SessionsTypeOK
    <2>2. ASSUME NEW a \in Admins, NEW asked \in Credentials, BeginCreate(o, a, asked)
          PROVE  <1>4!:
      BY <2>2 DEF BeginCreate, Command, SessionsIInv, SessionsTypeOK
    <2>3. ASSUME NEW a \in Admins, NEW asked \in Credentials, BeginUpdate(o, a, asked)
          PROVE  <1>4!:
      <3>1. admins[a] \in Admin
        BY <2>3, ExistingAdmin DEF BeginUpdate, SessionsIInv
      <3>2. QED
        BY <2>3, <3>1 DEF BeginUpdate, Command, SessionsIInv, SessionsTypeOK
    <2>4. CASE Revoke(o)
      <3>1. commands[o] \in
             [step : {"creating", "updating", "revoking"}, admin : Admins,
              loaded : Admin \union {NoAdmin}, asked : Credentials, revokes : SUBSET Tokens]
        BY <2>4, UnderWay DEF Revoke, SessionsIInv
      <3>2. /\ commands'[o].step = "revoking" /\ commands'[o].revokes = Revocable(commands[o].admin)
            /\ commands'[o].admin = commands[o].admin /\ commands'[o].loaded = commands[o].loaded
            /\ commands'[o] \in
                 [step : {"creating", "updating", "revoking"}, admin : Admins,
                  loaded : Admin \union {NoAdmin}, asked : Credentials, revokes : SUBSET Tokens]
        BY <2>4, <3>1 DEF Revoke, Revocable, Accepted, SessionsIInv, SessionsTypeOK
      <3>3. QED
        BY <2>4, <3>2 DEF Revoke, SessionsIInv, RotationsAreCurrent
    <2>5. QED
      BY <2>1, <2>2, <2>3, <2>4
  <1>5. SessionsTypeOK'
    BY <1>1, <1>3, <1>4 DEF SessionsIInv, SessionsTypeOK
  <1>6. RotationsAreCurrent' /\ RevocationsReach'
    BY <1>1, <1>3, <1>4
    DEF SessionsIInv, RotationsAreCurrent, RevocationsReach, Revocable, Accepted, Exists
  <1>7. QED
    BY <1>1, <1>5, <1>6
    DEF SessionsIInv, SessionsAreCurrent, CredentialsAreOfOneCommand, LoginsAreCurrent,
        AdminsAreKnown, Accepted, Exists

\* The sessions invariant holds in every reachable state.
THEOREM SessionsInvariance == SessionsSpec => []SessionsIInv
  <1>1. SessionsInit => SessionsIInv
    BY DEF SessionsInit, SessionsIInv, SessionsTypeOK, SessionsAreCurrent, CredentialsAreOfOneCommand,
           LoginsAreCurrent, RotationsAreCurrent, RevocationsReach, AdminsAreKnown,
           Accepted, Exists, NoSession, NoCommand
  <1>2. SessionsIInv /\ [SessionsNext]_sessionVars => SessionsIInv'
    <2> SUFFICES ASSUME SessionsIInv, [SessionsNext]_sessionVars PROVE SessionsIInv'
      OBVIOUS
    <2>1. CASE UNCHANGED sessionVars
      BY <2>1
      DEF sessionVars, SessionsIInv, SessionsTypeOK, SessionsAreCurrent, CredentialsAreOfOneCommand,
          LoginsAreCurrent, RotationsAreCurrent, RevocationsReach, AdminsAreKnown,
          Accepted, Exists, Revocable
    <2>2. QED
      BY <2>1, LoginPreserves, OpenSessionPreserves, LogoutPreserves, OutdatePreserves,
         CreatePreserves, UpdatePreserves, CommandPreserves DEF SessionsNext
  <1>3. QED
    BY <1>1, <1>2, PTL DEF SessionsSpec

\* An accepted session was opened with the password in force, and address and
\* password are those of one command, for everyone about whom no two requests
\* overlapped.
THEOREM CredentialsAlwaysHold == SessionsSpec => []CredentialsHold
  BY SessionsInvariance, PTL DEF SessionsIInv, CredentialsHold

-----------------------------------------------------------------------------
(* LoginThrottle.                                                          *)

\* A request under way, or none.
Attempt == [phase : Phases, account : SUBSET Accounts, client : SUBSET Clients,
            at : Instants, seen : Nat, admitted : BOOLEAN]

\* The requests that may still store a failure of a client.
Failing(c) ==
    {l \in Attempts : /\ attempts[l].phase \in {"verifying", "failed", "charged", "storing"}
                      /\ c \in attempts[l].client}

\* Those requests and the failures that count are fewer than the limit and the
\* requests there may be: each was admitted when failures alone were too few.
OverrunIsCounted ==
    \A c \in Clients :
        Cardinality(Recent(Accounts, {c}, now)) + Cardinality(Failing(c))
            < MaxFailures + Cardinality(Attempts)

\* An account's bucket accounts for the plain answers it let through.
AnswersAreCounted ==
    \A a \in Accounts :
        /\ accountBuckets[a].started <= now
        /\ accountBuckets[a].count <= AccountLimit(Threshold)
        /\ Accounted(told[a], accountBuckets[a], AccountLimit(Threshold), FailureWindow, 0)

ThrottleIInv ==
    /\ ThrottleTypeOK
    /\ IsFiniteSet(failures)
    /\ OverrunIsCounted
    /\ AnswersAreCounted
    /\ AnswersAreBounded

\* Constants and conversions that every step uses.
LEMMA ThrottleFacts ==
  /\ Instants \in SUBSET Nat /\ FailureWindow \in Nat \ {0}
  /\ AccountLimit(Threshold) \in Nat \ {0}
  /\ AccountLimit(Threshold) = IF Threshold > 1 THEN Threshold - 1 ELSE 1
  /\ IsFiniteSet(Attempts) /\ Cardinality(Attempts) \in Nat
  /\ NoAttempt \in Attempt /\ NoBucket \in LoginBuckets
  <1>1. Instants \in SUBSET Nat /\ FailureWindow \in Nat \ {0} /\ 0 \in Instants
    BY ThrottleAssumption DEF Instants
  <1>2. /\ AccountLimit(Threshold) \in Nat \ {0}
        /\ AccountLimit(Threshold) = IF Threshold > 1 THEN Threshold - 1 ELSE 1
    BY ThrottleAssumption DEF AccountLimit
  <1>3. IsFiniteSet(Attempts) /\ Cardinality(Attempts) \in Nat
    BY ThrottleAssumption, FS_CardinalityType
  <1>4. NoAttempt \in Attempt /\ NoBucket \in LoginBuckets
    BY <1>1 DEF NoAttempt, Attempt, Phases, NoBucket, LoginBuckets
  <1>5. QED
    BY <1>1, <1>2, <1>3, <1>4

\* The failures that count are finitely many.
LEMMA RecentIsFinite ==
  ASSUME IsFiniteSet(failures), NEW accounts, NEW clients, NEW at
  PROVE  /\ IsFiniteSet(Recent(accounts, clients, at))
         /\ Cardinality(Recent(accounts, clients, at)) \in Nat
  <1>1. Recent(accounts, clients, at) \in SUBSET failures
    BY DEF Recent
  <1>2. QED
    BY <1>1, FS_Subset, FS_CardinalityType

\* So are the requests under way.
LEMMA FailingIsFinite ==
  ASSUME NEW c
  PROVE  /\ IsFiniteSet(Failing(c)) /\ Cardinality(Failing(c)) \in Nat
         /\ Cardinality(Failing(c)) <= Cardinality(Attempts)
  <1>1. Failing(c) \in SUBSET Attempts
    BY DEF Failing
  <1>2. QED
    BY <1>1, ThrottleFacts, FS_Subset, FS_CardinalityType

\* What a step makes of one request.
LEMMA AttemptChanged ==
  ASSUME ThrottleTypeOK, NEW l \in Attempts, NEW changed \in Attempt,
         attempts' = [attempts EXCEPT ![l] = changed],
         changed.phase = "idle" <=> changed = NoAttempt
  PROVE  /\ attempts' \in [Attempts -> Attempt]
         /\ \A m \in Attempts : attempts'[m].phase = "idle" <=> attempts'[m] = NoAttempt
  BY DEF ThrottleTypeOK, Attempt

\* A bucket of a login that is consumed keeps its type and its limit.
LEMMA ConsumedLoginBucket ==
  ASSUME NEW bucket \in LoginBuckets, NEW at \in Instants, NEW limit \in Nat \ {0},
         Admits(bucket, limit, FailureWindow, at)
  PROVE  /\ Consumed(bucket, FailureWindow, at) \in LoginBuckets
         /\ bucket.count <= limit => Consumed(bucket, FailureWindow, at).count <= limit
         /\ Consumed(bucket, FailureWindow, at).started \in {at, bucket.started}
  BY DEF Consumed, Admits, LoginBuckets

\* A failure that is stored has the columns of one.
LEMMA NewFailureType ==
  ASSUME IsFiniteSet(failures), NEW a \in Accounts, NEW c \in Clients, NEW at \in Instants
  PROVE  NewFailure(a, c, at) \in Failure
  <1> DEFINE alike == {f \in failures : f.account = a /\ f.client = c /\ f.at = at}
  <1>1. alike \in SUBSET failures
    OBVIOUS
  <1>2. Cardinality(alike) \in Nat
    BY <1>1, FS_Subset, FS_CardinalityType
  <1>3. NewFailure(a, c, at) =
          [account |-> a, client |-> c, at |-> at, number |-> Cardinality(alike)]
    BY DEF NewFailure
  <1> HIDE DEF alike
  <1>4. QED
    BY <1>2, <1>3 DEF Failure

\* Every step keeps the types, and the failures finite.
LEMMA ThrottleTypes ==
  ASSUME ThrottleIInv, ThrottleNext
  PROVE  ThrottleTypeOK' /\ IsFiniteSet(failures')
  <1>0. /\ now \in Instants /\ failures \subseteq Failure /\ IsFiniteSet(failures)
        /\ clientBuckets \in [Clients -> LoginBuckets]
        /\ accountBuckets \in [Accounts -> LoginBuckets]
        /\ attempts \in [Attempts -> Attempt]
        /\ \A l \in Attempts : attempts[l].phase = "idle" <=> attempts[l] = NoAttempt
        /\ told \in [Accounts -> Seq(Instants)]
    BY DEF ThrottleIInv, ThrottleTypeOK, Attempt
  <1> DEFINE Kept ==
           /\ now' \in Instants /\ failures' \subseteq Failure /\ IsFiniteSet(failures')
           /\ clientBuckets' \in [Clients -> LoginBuckets]
           /\ accountBuckets' \in [Accounts -> LoginBuckets]
           /\ attempts' \in [Attempts -> Attempt]
           /\ \A l \in Attempts : attempts'[l].phase = "idle" <=> attempts'[l] = NoAttempt
           /\ told' \in [Accounts -> Seq(Instants)]
  <1>1. SUFFICES Kept
    BY DEF ThrottleTypeOK, Attempt
  <1>2. ASSUME NEW l \in Attempts, NEW changed \in Attempt,
               attempts' = [attempts EXCEPT ![l] = changed],
               changed.phase = "idle" <=> changed = NoAttempt
        PROVE  /\ attempts' \in [Attempts -> Attempt]
               /\ \A m \in Attempts : attempts'[m].phase = "idle" <=> attempts'[m] = NoAttempt
    BY <1>2, AttemptChanged DEF ThrottleIInv
  <1>3. \A l \in Attempts : attempts[l] \in Attempt
    BY <1>0
  <1>4. ASSUME NEW l \in Attempts, NEW a \in Accounts, NEW c \in Clients, Begin(l, a, c)
        PROVE  Kept
    <2> DEFINE changed == [NoAttempt EXCEPT !.phase = "verifying", !.account = {a},
                                            !.client = {c}, !.at = now]
    <2>1. changed \in Attempt /\ changed.phase = "verifying" /\ changed # NoAttempt
      BY <1>0, ThrottleFacts DEF NoAttempt, Attempt, Phases
    <2>2. attempts' = [attempts EXCEPT ![l] = changed]
      BY <1>4 DEF Begin
    <2> HIDE DEF changed
    <2>3. QED
      BY <1>0, <1>2, <1>4, <2>1, <2>2 DEF Begin
  <1>5. ASSUME NEW l \in Attempts, FailVerification(l)
        PROVE  Kept
    <2> DEFINE seen == Cardinality(Recent(attempts[l].account, Clients, attempts[l].at))
               changed == [attempts[l] EXCEPT !.phase = "failed", !.seen = seen]
    <2>1. seen \in Nat
      BY <1>0, RecentIsFinite
    <2>2. attempts' = [attempts EXCEPT ![l] = changed]
      BY <1>5 DEF FailVerification
    <2> HIDE DEF seen
    <2>3. changed \in Attempt /\ changed.phase = "failed" /\ changed # NoAttempt
      BY <1>3, <2>1 DEF NoAttempt, Attempt, Phases
    <2> HIDE DEF changed
    <2>4. QED
      BY <1>0, <1>2, <1>5, <2>2, <2>3 DEF FailVerification
  <1>6. ASSUME NEW l \in Attempts, ChargeClient(l)
        PROVE  Kept
    <2>1. PICK c \in attempts[l].client :
            LET admits == Admits(clientBuckets[c], MaxFailures, FailureWindow, now)
            IN  /\ attempts' = [attempts EXCEPT ![l].phase = "charged", ![l].admitted = admits]
                /\ clientBuckets' = IF admits
                     THEN [clientBuckets EXCEPT ![c] = Consumed(@, FailureWindow, now)]
                     ELSE clientBuckets
      BY <1>6 DEF ChargeClient
    <2> DEFINE admits == Admits(clientBuckets[c], MaxFailures, FailureWindow, now)
               changed == [attempts[l] EXCEPT !.phase = "charged", !.admitted = admits]
    <2>2. admits \in BOOLEAN
      BY DEF Admits, Expired
    <2>3. attempts' = [attempts EXCEPT ![l] = changed]
      BY <2>1
    <2>4. c \in Clients /\ clientBuckets[c] \in LoginBuckets
      BY <1>0, <1>3 DEF Attempt
    <2>5. clientBuckets' \in [Clients -> LoginBuckets]
      BY <1>0, <2>1, <2>4, ConsumedLoginBucket, ThrottleAssumption
    <2> HIDE DEF admits
    <2>6. changed \in Attempt /\ changed.phase = "charged" /\ changed # NoAttempt
      BY <1>3, <2>2 DEF NoAttempt, Attempt, Phases
    <2> HIDE DEF changed
    <2>7. QED
      BY <1>0, <1>2, <1>6, <2>3, <2>5, <2>6 DEF ChargeClient
  <1>7. ASSUME NEW l \in Attempts, ChargeAccount(l)
        PROVE  Kept
    <2>1. PICK a \in attempts[l].account :
            LET admits == Admits(accountBuckets[a], AccountLimit(Threshold), FailureWindow, now)
            IN  /\ accountBuckets' = IF admits
                     THEN [accountBuckets EXCEPT ![a] = Consumed(@, FailureWindow, now)]
                     ELSE accountBuckets
                /\ told' = IF IsPlain(attempts[l], admits)
                     THEN [told EXCEPT ![a] = Append(@, now)] ELSE told
      BY <1>7 DEF ChargeAccount
    <2>2. a \in Accounts /\ accountBuckets[a] \in LoginBuckets /\ told[a] \in Seq(Instants)
      BY <1>0, <1>3 DEF Attempt
    <2>3. accountBuckets' \in [Accounts -> LoginBuckets]
      BY <1>0, <2>1, <2>2, ConsumedLoginBucket, ThrottleFacts
    <2>4. Append(told[a], now) \in Seq(Instants)
      BY <1>0, <2>2, AppendedLog
    <2>5. told' \in [Accounts -> Seq(Instants)]
      BY <1>0, <2>1, <2>2, <2>4
    <2> DEFINE changed == [attempts[l] EXCEPT !.phase = "storing"]
    <2>6. attempts' = [attempts EXCEPT ![l] = changed]
      BY <1>7 DEF ChargeAccount
    <2>7. changed \in Attempt /\ changed.phase = "storing" /\ changed # NoAttempt
      BY <1>3 DEF NoAttempt, Attempt, Phases
    <2> HIDE DEF changed
    <2>8. QED
      BY <1>0, <1>2, <1>7, <2>3, <2>5, <2>6, <2>7 DEF ChargeAccount
  <1>8. ASSUME NEW l \in Attempts, StoreFailure(l)
        PROVE  Kept
    <2>1. PICK a \in attempts[l].account, c \in attempts[l].client :
            failures' = failures \union {NewFailure(a, c, attempts[l].at)}
      BY <1>8 DEF StoreFailure
    <2>2. NewFailure(a, c, attempts[l].at) \in Failure
      BY <1>0, <1>3, NewFailureType DEF Attempt
    <2>3. failures' \subseteq Failure /\ IsFiniteSet(failures')
      BY <1>0, <2>1, <2>2, FS_AddElement
    <2>4. QED
      BY <1>0, <1>2, <1>8, <2>3, ThrottleFacts DEF StoreFailure, NoAttempt
  <1>9. ASSUME NEW l \in Attempts, Succeed(l)
        PROVE  Kept
    <2>1. failures' \in SUBSET failures
      BY <1>9 DEF Succeed
    <2>2. failures' \subseteq Failure /\ IsFiniteSet(failures')
      BY <1>0, <2>1, FS_Subset
    <2> DEFINE changed == [attempts[l] EXCEPT !.phase = "forgiving"]
    <2>3. attempts' = [attempts EXCEPT ![l] = changed]
      BY <1>9 DEF Succeed
    <2>4. changed \in Attempt /\ changed.phase = "forgiving" /\ changed # NoAttempt
      BY <1>3 DEF NoAttempt, Attempt, Phases
    <2> HIDE DEF changed
    <2>5. QED
      BY <1>0, <1>2, <1>9, <2>2, <2>3, <2>4 DEF Succeed
  <1>10. ASSUME NEW l \in Attempts, Forgive(l)
         PROVE  Kept
    <2>1. accountBuckets' \in [Accounts -> LoginBuckets] /\ told' \in [Accounts -> Seq(Instants)]
      BY <1>0, <1>10, ThrottleFacts DEF Forgive
    <2>2. QED
      BY <1>0, <1>2, <1>10, <2>1, ThrottleFacts DEF Forgive, NoAttempt
  <1>11. ASSUME NEW l \in Attempts, GiveUp(l)
         PROVE  Kept
    BY <1>0, <1>2, <1>11, ThrottleFacts DEF GiveUp, NoAttempt
  <1>12. CASE ThrottleTick
    BY <1>0, <1>12, ThrottleAssumption DEF ThrottleTick, Instants
  <1>13. QED
    BY <1>4, <1>5, <1>6, <1>7, <1>8, <1>9, <1>10, <1>11, <1>12 DEF ThrottleNext

\* The requests that may fail, and the failures that count, after a step that
\* takes from them only.
LEMMA FewerFail ==
  ASSUME ThrottleIInv, IsFiniteSet(failures'),
         \A c \in Clients : /\ Recent(Accounts, {c}, now)' \subseteq Recent(Accounts, {c}, now)
                            /\ Failing(c)' \subseteq Failing(c)
  PROVE  OverrunIsCounted'
  <1> SUFFICES ASSUME NEW c \in Clients
               PROVE  Cardinality(Recent(Accounts, {c}, now)') + Cardinality(Failing(c)')
                        < MaxFailures + Cardinality(Attempts)
    BY DEF OverrunIsCounted
  <1> DEFINE recent == Recent(Accounts, {c}, now)
             less == Recent(Accounts, {c}, now)'
             failing == Failing(c)
             fewer == Failing(c)'
  <1>1. less \in SUBSET recent /\ fewer \in SUBSET failing
    OBVIOUS
  <1>2. /\ IsFiniteSet(recent) /\ Cardinality(recent) \in Nat
        /\ IsFiniteSet(failing) /\ Cardinality(failing) \in Nat
        /\ Cardinality(recent) + Cardinality(failing) < MaxFailures + Cardinality(Attempts)
    BY RecentIsFinite, FailingIsFinite DEF ThrottleIInv, OverrunIsCounted
  <1> HIDE DEF recent, less, failing, fewer
  <1>3. /\ IsFiniteSet(less) /\ Cardinality(less) <= Cardinality(recent)
        /\ IsFiniteSet(fewer) /\ Cardinality(fewer) <= Cardinality(failing)
    BY <1>1, <1>2, FS_Subset
  <1>4. Cardinality(less) \in Nat /\ Cardinality(fewer) \in Nat
    BY <1>3, FS_CardinalityType
  <1>5. Cardinality(less) + Cardinality(fewer) < MaxFailures + Cardinality(Attempts)
    BY <1>2, <1>3, <1>4, ThrottleFacts, ThrottleAssumption
  <1>6. QED
    BY <1>5 DEF less, fewer

\* Failures stay fewer than the limit and the requests there may be, because a
\* request begins only while those stored are fewer than the limit.
LEMMA OverrunStaysCounted ==
  ASSUME ThrottleIInv, ThrottleTypeOK', IsFiniteSet(failures'), ThrottleNext
  PROVE  OverrunIsCounted'
  <1>0. /\ now \in Nat /\ IsFiniteSet(failures) /\ failures \subseteq Failure
        /\ attempts \in [Attempts -> Attempt]
        /\ OverrunIsCounted
    BY ThrottleFacts DEF ThrottleIInv, ThrottleTypeOK, Attempt
  <1>1. ASSUME now' = now, failures' \subseteq failures,
               NEW l \in Attempts, NEW changed, attempts' = [attempts EXCEPT ![l] = changed],
               \/ changed.phase \notin {"verifying", "failed", "charged", "storing"}
               \/ /\ attempts[l].phase \in {"verifying", "failed", "charged", "storing"}
                  /\ changed.client = attempts[l].client
        PROVE  OverrunIsCounted'
    <2>1. \A c \in Clients : Recent(Accounts, {c}, now)' \subseteq Recent(Accounts, {c}, now)
      BY <1>1 DEF Recent
    <2>2. attempts'[l] = changed /\ \A m \in Attempts \ {l} : attempts'[m] = attempts[m]
      BY <1>0, <1>1
    <2>3. \A c \in Clients : Failing(c)' \subseteq Failing(c)
      BY <1>1, <2>2 DEF Failing
    <2>4. QED
      BY <2>1, <2>3, FewerFail
  <1>2. ASSUME NEW l \in Attempts, NEW a \in Accounts, NEW b \in Clients, Begin(l, a, b)
        PROVE  OverrunIsCounted'
    <2> SUFFICES ASSUME NEW c \in Clients
                 PROVE  Cardinality(Recent(Accounts, {c}, now)') + Cardinality(Failing(c)')
                          < MaxFailures + Cardinality(Attempts)
      BY DEF OverrunIsCounted
    <2>1. /\ Recent(Accounts, {c}, now)' = Recent(Accounts, {c}, now)
          /\ Cardinality(Recent(Accounts, {c}, now)) \in Nat
      <3>1. failures' = failures /\ now' = now
        BY <1>2 DEF Begin
      <3>2. Recent(Accounts, {c}, now)' = Recent(Accounts, {c}, now)
        BY <3>1 DEF Recent
      <3>3. QED
        BY <1>0, <3>2, RecentIsFinite
    <2>2. CASE c = b
      <3>1. Cardinality(Recent(Accounts, {c}, now)) < MaxFailures
        BY <1>2, <2>1, <2>2, ThrottleAssumption DEF Begin, Refused
      <3>2. Failing(c)' \in SUBSET Attempts
        BY DEF Failing
      <3>3. Cardinality(Failing(c)') \in Nat /\ Cardinality(Failing(c)') <= Cardinality(Attempts)
        BY <3>2, ThrottleFacts, FS_Subset, FS_CardinalityType
      <3>4. QED
        BY <2>1, <3>1, <3>3, ThrottleFacts, ThrottleAssumption
    <2>3. CASE c # b
      <3>1. /\ attempts'[l].client = {b} /\ \A m \in Attempts \ {l} : attempts'[m] = attempts[m]
            /\ attempts[l].phase = "idle"
        BY <1>0, <1>2 DEF Begin, NoAttempt
      <3>2. Failing(c)' = Failing(c)
        BY <2>3, <3>1 DEF Failing
      <3>3. QED
        BY <1>0, <2>1, <3>2 DEF OverrunIsCounted
    <2>4. QED
      BY <2>2, <2>3
  <1>3. ASSUME NEW l \in Attempts, StoreFailure(l)
        PROVE  OverrunIsCounted'
    <2> SUFFICES ASSUME NEW c \in Clients
                 PROVE  Cardinality(Recent(Accounts, {c}, now)') + Cardinality(Failing(c)')
                          < MaxFailures + Cardinality(Attempts)
      BY DEF OverrunIsCounted
    <2>1. PICK a \in attempts[l].account, b \in attempts[l].client :
            failures' = failures \union {NewFailure(a, b, attempts[l].at)}
      BY <1>3 DEF StoreFailure
    <2>2. /\ attempts'[l].phase = "idle" /\ \A m \in Attempts \ {l} : attempts'[m] = attempts[m]
          /\ attempts[l].phase = "storing" /\ now' = now
      BY <1>0, <1>3 DEF StoreFailure, NoAttempt
    <2> DEFINE recent == Recent(Accounts, {c}, now)
               more == Recent(Accounts, {c}, now)'
               failing == Failing(c)
               fewer == Failing(c)'
               row == NewFailure(a, b, attempts[l].at)
    <2>3. /\ IsFiniteSet(recent) /\ Cardinality(recent) \in Nat
          /\ IsFiniteSet(failing) /\ Cardinality(failing) \in Nat
          /\ Cardinality(recent) + Cardinality(failing) < MaxFailures + Cardinality(Attempts)
      BY <1>0, RecentIsFinite, FailingIsFinite DEF OverrunIsCounted
    <2>4. more \in SUBSET (recent \union {row})
      BY <2>1, <2>2 DEF Recent
    <2>5. fewer = failing \ {l}
      BY <2>2 DEF Failing
    <2>6. row.client = b
      BY DEF NewFailure
    <2>7. c # b => more \in SUBSET recent
      BY <2>1, <2>2, <2>6 DEF Recent
    <2>8. c = b => l \in failing
      BY <2>2 DEF Failing
    <2> HIDE DEF recent, more, failing, fewer, row
    <2>9. /\ IsFiniteSet(recent \union {row})
          /\ Cardinality(recent \union {row}) =
               IF row \in recent THEN Cardinality(recent) ELSE Cardinality(recent) + 1
      BY <2>3, FS_AddElement
    <2>10. /\ IsFiniteSet(more) /\ Cardinality(more) <= Cardinality(recent \union {row})
           /\ c # b => Cardinality(more) <= Cardinality(recent)
           /\ Cardinality(more) \in Nat
      BY <2>3, <2>4, <2>7, <2>9, FS_Subset, FS_CardinalityType
    <2>11. /\ IsFiniteSet(fewer) /\ Cardinality(fewer) \in Nat
           /\ Cardinality(fewer) =
                IF l \in failing THEN Cardinality(failing) - 1 ELSE Cardinality(failing)
      BY <2>3, <2>5, FS_RemoveElement, FS_CardinalityType
    <2>12. Cardinality(more) + Cardinality(fewer) <= Cardinality(recent) + Cardinality(failing)
      <3>1. CASE c = b
        BY <2>3, <2>8, <2>9, <2>10, <2>11, <3>1
      <3>2. CASE c # b
        BY <2>3, <2>10, <2>11, <3>2
      <3>3. QED
        BY <3>1, <3>2
    <2>13. Cardinality(more) + Cardinality(fewer) < MaxFailures + Cardinality(Attempts)
      BY <2>3, <2>10, <2>11, <2>12, ThrottleFacts, ThrottleAssumption
    <2>14. QED
      BY <2>13 DEF more, fewer
  <1>4. ASSUME NEW l \in Attempts,
               FailVerification(l) \/ ChargeClient(l) \/ ChargeAccount(l)
        PROVE  OverrunIsCounted'
    <2>1. now' = now /\ failures' = failures
      BY <1>4 DEF FailVerification, ChargeClient, ChargeAccount
    <2>2. \E changed : /\ attempts' = [attempts EXCEPT ![l] = changed]
                       /\ changed.client = attempts[l].client
      <3>1. CASE FailVerification(l)
        <4> DEFINE seen == Cardinality(Recent(attempts[l].account, Clients, attempts[l].at))
                   changed == [attempts[l] EXCEPT !.phase = "failed", !.seen = seen]
        <4>1. attempts' = [attempts EXCEPT ![l] = changed]
          BY <3>1 DEF FailVerification
        <4> HIDE DEF seen
        <4>2. changed.client = attempts[l].client
          BY <1>0 DEF Attempt
        <4>3. QED
          BY <4>1, <4>2
      <3>2. CASE ChargeClient(l)
        <4>1. PICK c \in attempts[l].client :
                attempts' = [attempts EXCEPT ![l].phase = "charged",
                    ![l].admitted = Admits(clientBuckets[c], MaxFailures, FailureWindow, now)]
          BY <3>2 DEF ChargeClient
        <4> DEFINE admits == Admits(clientBuckets[c], MaxFailures, FailureWindow, now)
                   changed == [attempts[l] EXCEPT !.phase = "charged", !.admitted = admits]
        <4>2. attempts' = [attempts EXCEPT ![l] = changed]
          BY <4>1
        <4> HIDE DEF admits
        <4>3. changed.client = attempts[l].client
          BY <1>0 DEF Attempt
        <4>4. QED
          BY <4>2, <4>3
      <3>3. CASE ChargeAccount(l)
        <4> DEFINE changed == [attempts[l] EXCEPT !.phase = "storing"]
        <4>1. attempts' = [attempts EXCEPT ![l] = changed]
          BY <3>3 DEF ChargeAccount
        <4>2. changed.client = attempts[l].client
          BY <1>0 DEF Attempt
        <4>3. QED
          BY <4>1, <4>2
      <3>4. QED
        BY <1>4, <3>1, <3>2, <3>3
    <2>3. attempts[l].phase \in {"verifying", "failed", "charged", "storing"}
      BY <1>4 DEF FailVerification, ChargeClient, ChargeAccount
    <2>4. QED
      BY <1>1, <2>1, <2>2, <2>3
  <1>5. ASSUME NEW l \in Attempts, Succeed(l)
        PROVE  OverrunIsCounted'
    <2> DEFINE changed == [attempts[l] EXCEPT !.phase = "forgiving"]
    <2>1. attempts' = [attempts EXCEPT ![l] = changed] /\ now' = now /\ failures' \subseteq failures
      BY <1>5 DEF Succeed
    <2>2. changed.phase = "forgiving"
      BY <1>0 DEF Attempt
    <2> HIDE DEF changed
    <2>3. QED
      BY <1>1, <2>1, <2>2
  <1>6. ASSUME NEW l \in Attempts, Forgive(l) \/ GiveUp(l)
        PROVE  OverrunIsCounted'
    <2>1. /\ attempts' = [attempts EXCEPT ![l] = NoAttempt] /\ now' = now /\ failures' = failures
          /\ NoAttempt.phase = "idle"
      BY <1>6 DEF Forgive, GiveUp, NoAttempt
    <2>2. QED
      BY <1>1, <2>1
  <1>7. CASE ThrottleTick
    <2>1. now' = now + 1 /\ UNCHANGED <<failures, attempts>>
      BY <1>7 DEF ThrottleTick
    <2>2. \A f \in failures : f.at \in Nat
      BY <1>0, ThrottleFacts DEF Failure
    <2>3. \A f \in failures : now + 1 <= f.at + FailureWindow => now <= f.at + FailureWindow
      BY <1>0, <2>2, ThrottleFacts
    <2>4. \A c \in Clients : Recent(Accounts, {c}, now)' \subseteq Recent(Accounts, {c}, now)
      BY <2>1, <2>3 DEF Recent
    <2>5. \A c \in Clients : Failing(c)' = Failing(c)
      BY <2>1 DEF Failing
    <2>6. QED
      BY <2>4, <2>5, FewerFail
  <1>8. QED
    BY <1>2, <1>3, <1>4, <1>5, <1>6, <1>7 DEF ThrottleNext

\* What is counted without a lag is accounted for without one.
LEMMA PromptAnswer ==
  ASSUME NEW log \in Seq(Nat), NEW bucket \in Bucket, NEW limit \in Nat \ {0},
         NEW window \in Nat, NEW at \in Nat, window # 0,
         Accounted(log, bucket, limit, window, 0), bucket.count <= limit,
         Admits(bucket, limit, window, at)
  PROVE  /\ Accounted(log, Consumed(bucket, window, at), limit, window, 0)
         /\ Accounted(Append(log, at), Consumed(bucket, window, at), limit, window, 0)
  <1> DEFINE lag == 0
  <1>1. /\ lag \in Nat /\ at <= at /\ at <= at + lag
        /\ Accounted(log, bucket, limit, window, lag)
    OBVIOUS
  <1> HIDE DEF lag
  <1>2. /\ Accounted(log, Consumed(bucket, window, at), limit, window, lag)
        /\ Accounted(Append(log, at), Consumed(bucket, window, at), limit, window, lag)
    BY <1>1, ConsumptionIsAccounted
  <1>3. QED
    BY <1>2 DEF lag

\* An account's answers stay accounted for, and within what two windows admit.
LEMMA AnswersStayCounted ==
  ASSUME ThrottleIInv, ThrottleTypeOK', ThrottleNext
  PROVE  AnswersAreCounted' /\ AnswersAreBounded'
  <1> DEFINE limit == AccountLimit(Threshold)
             Fine(bucket, log) ==
               /\ bucket.count <= limit
               /\ Accounted(log, bucket, limit, FailureWindow, 0)
               /\ \A from \in Instants : Cardinality(Stretch(log, FailureWindow, from)) <= 2 * limit
  <1>0. /\ now \in Instants /\ now \in Nat /\ limit \in Nat \ {0} /\ FailureWindow \in Nat \ {0}
        /\ accountBuckets \in [Accounts -> LoginBuckets]
        /\ told \in [Accounts -> Seq(Instants)]
        /\ attempts \in [Attempts -> Attempt]
        /\ \A a \in Accounts : accountBuckets[a].started <= now /\ Fine(accountBuckets[a], told[a])
    BY ThrottleFacts
       DEF ThrottleIInv, ThrottleTypeOK, Attempt, AnswersAreCounted, AnswersAreBounded
  <1>1. SUFFICES \A a \in Accounts :
          accountBuckets'[a].started <= now' /\ Fine(accountBuckets'[a], told'[a])
    BY ThrottleFacts DEF AnswersAreCounted, AnswersAreBounded
  <1>2. CASE UNCHANGED <<accountBuckets, told>> /\ now' \in {now, now + 1}
    <2>1. \A a \in Accounts : accountBuckets[a].started \in Nat
      BY <1>0, ThrottleFacts DEF LoginBuckets
    <2>2. \A a \in Accounts : accountBuckets[a].started <= now'
      BY <1>0, <1>2, <2>1
    <2>3. QED
      BY <1>0, <1>2, <2>2
  <1>3. ASSUME NEW l \in Attempts, Forgive(l)
        PROVE  \A a \in Accounts :
                 accountBuckets'[a].started <= now' /\ Fine(accountBuckets'[a], told'[a])
    <2> SUFFICES ASSUME NEW a \in Accounts
                 PROVE  accountBuckets'[a].started <= now' /\ Fine(accountBuckets'[a], told'[a])
      OBVIOUS
    <2>1. now' = now
      BY <1>3 DEF Forgive
    <2>2. CASE a \notin attempts[l].account
      <3>1. accountBuckets'[a] = accountBuckets[a] /\ told'[a] = told[a]
        BY <1>3, <2>2 DEF Forgive
      <3>2. QED
        BY <1>0, <2>1, <3>1
    <2>3. CASE a \in attempts[l].account
      <3>1. accountBuckets'[a] = NoBucket /\ told'[a] = <<>>
        BY <1>3, <2>3 DEF Forgive
      <3>2. accountBuckets'[a].count = 0 /\ accountBuckets'[a].started = 0
        BY <3>1 DEF NoBucket
      <3> DEFINE bucket == accountBuckets'[a]
                 log == told'[a]
      <3> HIDE DEF limit, bucket, log
      <3>3. /\ Accounted(log, bucket, limit, FailureWindow, 0)
            /\ \A from \in Nat : Cardinality(Stretch(log, FailureWindow, from)) = 0
        BY <1>0, <3>1, <3>2, EmptyAccount DEF bucket, log
      <3>4. 0 <= 2 * limit /\ 0 <= limit /\ 0 <= now
        BY <1>0
      <3>5. bucket.started <= now' /\ bucket.count <= limit
        BY <2>1, <3>2, <3>4 DEF bucket
      <3>6. \A from \in Instants : Cardinality(Stretch(log, FailureWindow, from)) <= 2 * limit
        BY <3>3, <3>4, ThrottleFacts
      <3>7. Fine(bucket, log)
        BY <3>3, <3>5, <3>6
      <3>8. QED
        BY <3>5, <3>7 DEF bucket, log
    <2>4. QED
      BY <2>2, <2>3
  <1>4. ASSUME NEW l \in Attempts, ChargeAccount(l)
        PROVE  \A a \in Accounts :
                 accountBuckets'[a].started <= now' /\ Fine(accountBuckets'[a], told'[a])
    <2>1. PICK b \in attempts[l].account :
            LET admits == Admits(accountBuckets[b], limit, FailureWindow, now)
            IN  /\ accountBuckets' = IF admits
                     THEN [accountBuckets EXCEPT ![b] = Consumed(@, FailureWindow, now)]
                     ELSE accountBuckets
                /\ told' = IF IsPlain(attempts[l], admits)
                     THEN [told EXCEPT ![b] = Append(@, now)] ELSE told
      BY <1>4 DEF ChargeAccount
    <2>2. b \in Accounts /\ now' = now
      BY <1>0, <1>4 DEF Attempt, ChargeAccount
    <2>3. CASE ~Admits(accountBuckets[b], limit, FailureWindow, now)
      <3>1. UNCHANGED <<accountBuckets, told>>
        BY <2>1, <2>3 DEF IsPlain
      <3>2. QED
        BY <1>2, <2>2, <3>1
    <2>4. CASE Admits(accountBuckets[b], limit, FailureWindow, now)
      <3> DEFINE bucket == accountBuckets[b]
                 log == told[b]
                 new == Consumed(bucket, FailureWindow, now)
                 more == told'[b]
      <3>1. /\ accountBuckets' = [accountBuckets EXCEPT ![b] = new]
            /\ told' = told \/ told' = [told EXCEPT ![b] = Append(log, now)]
        BY <2>1, <2>4
      <3>2. \A a \in Accounts \ {b} : accountBuckets'[a] = accountBuckets[a] /\ told'[a] = told[a]
        BY <1>0, <2>2, <3>1
      <3>3. accountBuckets'[b] = new /\ more \in {log, Append(log, now)}
        BY <1>0, <2>2, <3>1
      <3>4. /\ bucket \in LoginBuckets /\ bucket \in Bucket
            /\ bucket.started <= now /\ Fine(bucket, log)
            /\ log \in Seq(Nat)
        <4>1. bucket \in LoginBuckets /\ bucket.started <= now /\ Fine(bucket, log)
          BY <1>0, <2>2
        <4>2. bucket \in Bucket
          BY <4>1, ThrottleFacts DEF LoginBuckets, Bucket
        <4>3. log \in Seq(Instants)
          BY <1>0, <2>2
        <4>4. log \in Seq(Nat)
          BY <4>3, ThrottleFacts, SeqMonotonic
        <4>5. QED
          BY <4>1, <4>2, <4>4
      <3>5. /\ new \in LoginBuckets /\ new.count <= limit /\ new.started <= now /\ new \in Bucket
        <4>1. new \in LoginBuckets /\ new.count <= limit /\ new.started \in {now, bucket.started}
          BY <1>0, <2>4, <3>4, ConsumedLoginBucket
        <4>2. QED
          BY <1>0, <3>4, <4>1, ThrottleFacts DEF LoginBuckets, Bucket
      <3>6. more \in Seq(Nat)
        <4>1. log \in Seq(Nat) /\ now \in Nat
          BY <1>0, <3>4
        <4>2. Append(log, now) \in Seq(Nat)
          BY <4>1, AppendedLog
        <4> HIDE DEF log, more
        <4>3. QED
          BY <3>3, <4>1, <4>2
      <3>7. Admits(bucket, limit, FailureWindow, now)
        BY <2>4
      <3>8. Accounted(log, bucket, limit, FailureWindow, 0) /\ bucket.count <= limit
        BY <3>4
      <3>9. \A from \in Instants : Cardinality(Stretch(log, FailureWindow, from)) <= 2 * limit
        BY <3>4
      <3> HIDE DEF limit, bucket, log, more
      <3>10. Accounted(more, new, limit, FailureWindow, 0)
        <4>1. /\ now <= now + 0 /\ now <= now /\ now \in Nat /\ 0 \in Nat
              /\ limit \in Nat \ {0} /\ FailureWindow \in Nat /\ FailureWindow # 0
              /\ log \in Seq(Nat) /\ bucket \in Bucket
          BY <1>0, <3>4
        <4>2. more \in {log, Append(log, now)}
          BY <3>3
        <4>3. /\ Accounted(log, Consumed(bucket, FailureWindow, now), limit, FailureWindow, 0)
              /\ Accounted(Append(log, now), Consumed(bucket, FailureWindow, now), limit, FailureWindow, 0)
          BY <3>7, <3>8, <4>1, PromptAnswer
        <4>4. QED
          BY <4>2, <4>3
      <3> HIDE DEF new
      <3>11. ASSUME NEW from \in Instants
             PROVE  Cardinality(Stretch(more, FailureWindow, from)) <= 2 * limit
        <4>1. from \in Nat
          BY ThrottleFacts
        <4>2. CASE new.started < from + FailureWindow
          <5>1. 2 * FailureWindow + 0 < 2 * FailureWindow + 2
            BY <1>0
          <5>2. Cardinality(Stretch(more, FailureWindow, from)) <= limit * 2
            BY <1>0, <3>5, <3>6, <3>10, <4>1, <4>2, <5>1, StretchIsBounded
          <5>3. limit * 2 = 2 * limit
            BY <1>0
          <5>4. QED
            BY <5>2, <5>3
        <4>3. CASE from + FailureWindow <= new.started
          <5>1. ~(from <= now /\ now < from + FailureWindow)
            BY <1>0, <3>5, <4>1, <4>3 DEF Bucket
          <5>2. Stretch(Append(log, now), FailureWindow, from) = Stretch(log, FailureWindow, from)
            BY <1>0, <3>4, <4>1, <5>1, LogGrows
          <5>3. Stretch(more, FailureWindow, from) = Stretch(log, FailureWindow, from)
            BY <3>3, <5>2
          <5>4. QED
            BY <3>9, <5>3
        <4>4. QED
          BY <1>0, <3>5, <4>1, <4>2, <4>3 DEF Bucket
      <3>12. Fine(new, more)
        BY <3>5, <3>10, <3>11
      <3>13. QED
        BY <1>0, <2>2, <3>2, <3>3, <3>5, <3>12 DEF more
    <2>5. QED
      BY <2>3, <2>4
  <1>5. QED
    <2>1. ASSUME NEW l \in Attempts,
                 \/ \E a \in Accounts, c \in Clients : Begin(l, a, c)
                 \/ FailVerification(l) \/ ChargeClient(l) \/ StoreFailure(l) \/ Succeed(l)
                 \/ GiveUp(l)
          PROVE  UNCHANGED <<accountBuckets, told>> /\ now' = now
      BY <2>1 DEF Begin, FailVerification, ChargeClient, StoreFailure, Succeed, GiveUp
    <2>2. CASE ThrottleTick
      BY <1>2, <2>2 DEF ThrottleTick
    <2>3. QED
      BY <1>2, <1>3, <1>4, <2>1, <2>2 DEF ThrottleNext

\* The throttle's invariant always holds.
LEMMA ThrottleInvariance == ThrottleSpec => []ThrottleIInv
  <1>1. ThrottleInit => ThrottleIInv
    <2> SUFFICES ASSUME ThrottleInit PROVE ThrottleIInv
      OBVIOUS
    <2>1. /\ now = 0 /\ failures = {} /\ \A a \in Accounts : accountBuckets[a] = NoBucket
          /\ \A a \in Accounts : told[a] = <<>>
          /\ \A l \in Attempts : attempts[l] = NoAttempt
      BY DEF ThrottleInit
    <2>2. ThrottleTypeOK
      <3>1. 0 \in Instants /\ <<>> \in Seq(Instants)
        BY ThrottleAssumption DEF Instants
      <3>2. clientBuckets \in [Clients -> LoginBuckets] /\ accountBuckets \in [Accounts -> LoginBuckets]
        BY ThrottleFacts DEF ThrottleInit
      <3>3. attempts \in [Attempts -> Attempt]
        BY ThrottleFacts DEF ThrottleInit
      <3>4. NoAttempt.phase = "idle"
        BY DEF NoAttempt
      <3>5. told \in [Accounts -> Seq(Instants)]
        BY <3>1 DEF ThrottleInit
      <3>6. QED
        BY <2>1, <3>1, <3>2, <3>3, <3>4, <3>5 DEF ThrottleTypeOK, Attempt
    <2>3. Cardinality({}) = 0 /\ IsFiniteSet({})
      BY FS_EmptySet
    <2>4. OverrunIsCounted
      <3>1. \A c \in Clients : Recent(Accounts, {c}, now) = {} /\ Failing(c) = {}
        BY <2>1 DEF Recent, Failing, NoAttempt
      <3>2. 0 + 0 < MaxFailures + Cardinality(Attempts)
        BY ThrottleFacts, ThrottleAssumption
      <3>3. QED
        BY <2>3, <3>1, <3>2 DEF OverrunIsCounted
    <2>5. ASSUME NEW a \in Accounts
          PROVE  /\ accountBuckets[a].started = 0 /\ accountBuckets[a].count = 0
                 /\ Accounted(told[a], accountBuckets[a], AccountLimit(Threshold), FailureWindow, 0)
                 /\ \A from \in Nat : Cardinality(Stretch(told[a], FailureWindow, from)) = 0
      <3>1. accountBuckets[a].started = 0 /\ accountBuckets[a].count = 0 /\ told[a] = <<>>
        BY <2>1 DEF NoBucket
      <3>2. QED
        BY <3>1, ThrottleFacts, EmptyAccount
    <2>6. AnswersAreCounted
      <3>1. 0 <= AccountLimit(Threshold)
        BY ThrottleFacts
      <3>2. QED
        BY <2>1, <2>5, <3>1 DEF AnswersAreCounted
    <2>7. AnswersAreBounded
      <3>1. 0 <= 2 * (IF Threshold > 1 THEN Threshold - 1 ELSE 1)
        BY ThrottleAssumption
      <3>2. \A a \in Accounts, from \in Instants :
                Cardinality(Stretch(told[a], FailureWindow, from)) = 0
        BY <2>5, ThrottleFacts
      <3>3. QED
        BY <3>1, <3>2 DEF AnswersAreBounded
    <2>8. QED
      BY <2>1, <2>2, <2>3, <2>4, <2>6, <2>7 DEF ThrottleIInv
  <1>2. ThrottleIInv /\ [ThrottleNext]_throttleVars => ThrottleIInv'
    <2> SUFFICES ASSUME ThrottleIInv, [ThrottleNext]_throttleVars PROVE ThrottleIInv'
      OBVIOUS
    <2>1. CASE UNCHANGED throttleVars
      BY <2>1
         DEF throttleVars, ThrottleIInv, ThrottleTypeOK, OverrunIsCounted, Recent, Failing,
             AnswersAreCounted, AnswersAreBounded
    <2>2. CASE ThrottleNext
      BY <2>2, ThrottleTypes, OverrunStaysCounted, AnswersStayCounted DEF ThrottleIInv
    <2>3. QED
      BY <2>1, <2>2
  <1>3. QED
    BY <1>1, <1>2, PTL DEF ThrottleSpec

\* Guessing is slowed down for any numbers of accounts, clients and logins that
\* run at one time, however they are timed.
THEOREM GuessingIsSlowed == ThrottleSpec => []GuessingIsBounded
  <1>1. ThrottleIInv => OverrunIsBounded
    <2> SUFFICES ASSUME ThrottleIInv, NEW c \in Clients
                 PROVE  Cardinality(Recent(Accounts, {c}, now)) < MaxFailures + Cardinality(Attempts)
      BY DEF OverrunIsBounded
    <2>1. /\ Cardinality(Recent(Accounts, {c}, now)) \in Nat /\ Cardinality(Failing(c)) \in Nat
          /\ Cardinality(Recent(Accounts, {c}, now)) + Cardinality(Failing(c))
               < MaxFailures + Cardinality(Attempts)
      BY RecentIsFinite, FailingIsFinite DEF ThrottleIInv, OverrunIsCounted
    <2>2. QED
      BY <2>1, ThrottleFacts, ThrottleAssumption
  <1>2. ThrottleIInv => GuessingIsBounded
    BY <1>1 DEF ThrottleIInv, GuessingIsBounded
  <1>3. QED
    BY <1>2, ThrottleInvariance, PTL

-----------------------------------------------------------------------------
(* MCLimits.                                                               *)

\* What limiter and throttle let through in any stretch of time as long as a
\* window is bounded, for every limit, window, lag and number of requests.
THEOREM BurstsStayBounded == LimitsSpec => []BurstsAreBounded
  <1>1. LimitsInit => Init /\ ThrottleInit
    BY DEF LimitsInit
  <1>2. [LimitsNext]_<<part, vars, throttleVars, sessionVars>> =>
          [Next]_vars /\ [ThrottleNext]_throttleVars
    BY DEF LimitsNext
  <1>3. LimitsSpec => Spec /\ ThrottleSpec
    BY <1>1, <1>2, PTL DEF LimitsSpec, Spec, ThrottleSpec
  <1>4. BurstIInv /\ GuessingIsBounded => BurstsAreBounded
    BY DEF BurstIInv, BurstsAreBounded
  <1>5. QED
    BY <1>3, <1>4, BurstInvariance, GuessingIsSlowed, PTL

=============================================================================
