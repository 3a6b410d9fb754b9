-------------------------- MODULE Maintenance_proofs --------------------------
(***************************************************************************)
(* Proofs about Maintenance: no timely sample is dropped unsummarised, and  *)
(* aggregates only grow, for any samples, any number of workers, any day    *)
(* length, any retention of two days at least, and any losses of the lock.  *)
(***************************************************************************)
EXTENDS Maintenance, TLAPS

LEMMA Bounds ==
  /\ DayLength \in Nat /\ DayLength > 0 /\ RawDays \in Nat /\ RawDays >= 2
  /\ HourlyDays \in Nat /\ DailyDays \in Nat /\ MaxTime \in Nat /\ MaxLosses \in Nat
  /\ None \notin Workers
  BY DaysAssumption, NoneAssumption
-----------------------------------------------------------------------------
(* Hours, days and midnights.                                               *)

LEMMA Products ==
  ASSUME NEW a \in Nat, NEW b \in Nat, NEW d \in Nat
  PROVE  /\ a * d \in Nat
         /\ a <= b => a * d <= b * d
         /\ a * d < b * d => a < b
         /\ (a + b) * d = a * d + b * d
         /\ (a + 1) * d = a * d + d
<1>1. a * d \in Nat
  OBVIOUS
<1>2. (a + b) * d = a * d + b * d /\ (a + 1) * d = a * d + d
  OBVIOUS
<1>3. ASSUME a <= b PROVE a * d <= b * d
  <2>1. b - a \in Nat /\ b = a + (b - a)
    BY <1>3
  <2>2. (a + (b - a)) * d = a * d + (b - a) * d
    BY <2>1
  <2>3. (b - a) * d \in Nat
    BY <2>1
  <2> QED
    BY <1>1, <2>1, <2>2, <2>3
<1>4. ASSUME a * d < b * d PROVE a < b
  <2> SUFFICES ASSUME b <= a PROVE FALSE
    OBVIOUS
  <2>1. a - b \in Nat /\ a = b + (a - b)
    OBVIOUS
  <2>2. (b + (a - b)) * d = b * d + (a - b) * d
    BY <2>1
  <2>3. (a - b) * d \in Nat /\ a * d \in Nat /\ b * d \in Nat
    BY <2>1
  <2> QED
    BY <1>4, <2>1, <2>2, <2>3
<1> QED
  BY <1>1, <1>2, <1>3, <1>4

LEMMA Quotient ==
  ASSUME NEW a \in Nat, NEW d \in Nat, d > 0
  PROVE  /\ a \div d \in Nat
         /\ (a \div d) * d <= a /\ a < (a \div d) * d + d
  OBVIOUS

LEMMA QuotientGrows ==
  ASSUME NEW a \in Nat, NEW b \in Nat, NEW d \in Nat, d > 0, a <= b
  PROVE  a \div d <= b \div d
<1> DEFINE p == a \div d
           q == b \div d
<1>1. p \in Nat /\ q \in Nat /\ p * d <= a /\ b < q * d + d
  BY Quotient
<1> HIDE DEF p, q
<1>2. (q + 1) * d = q * d + d /\ p * d \in Nat /\ q * d \in Nat
  BY <1>1, Products
<1>3. p * d < (q + 1) * d
  BY <1>1, <1>2
<1>4. p < q + 1
  BY <1>1, <1>3, q + 1 \in Nat, Products
<1> QED
  BY <1>1, <1>4 DEF p, q

LEMMA MidnightFacts ==
  ASSUME NEW t \in Nat
  PROVE  /\ Midnight(t) \in Nat /\ Midnight(t) <= t
         /\ \A later \in Nat : t <= later => Midnight(t) <= Midnight(later)
<1>1. /\ t \div DayLength \in Nat /\ (t \div DayLength) * DayLength <= t
      /\ (t \div DayLength) * DayLength \in Nat
  BY Bounds, Quotient, Products
<1>2. ASSUME NEW later \in Nat, t <= later PROVE Midnight(t) <= Midnight(later)
  <2>1. t \div DayLength <= later \div DayLength /\ later \div DayLength \in Nat
    BY <1>2, Bounds, QuotientGrows, Quotient
  <2> QED
    BY <1>1, <2>1, Bounds, Products DEF Midnight
<1> QED
  BY <1>1, <1>2 DEF Midnight

\* What has expired stays so, and did not happen today.
LEMMA ExpiredFacts ==
  ASSUME NEW t \in Nat, NEW days \in Nat, NEW time \in Nat, Expired(t, days, time)
  PROVE  /\ t + days * DayLength < time
         /\ \A later \in Nat : time <= later => Expired(t, days, later)
<1>1. days * DayLength \in Nat
  BY Bounds, Products
<1> QED
  BY <1>1, MidnightFacts DEF Expired

\* All hours of a day expire together.
LEMMA DaysExpire ==
  ASSUME NEW t \in Nat, NEW u \in Nat, NEW days \in Nat, NEW time \in Nat,
         t \div DayLength = u \div DayLength, Expired(t, days, time)
  PROVE  Expired(u, days, time)
<1> DEFINE D == DayLength
           q == t \div D
           k == time \div D
<1>1. D \in Nat /\ q \in Nat /\ k \in Nat /\ q * D <= t /\ u < q * D + D
  BY Bounds, Quotient
<1>2. t + days * D < k * D
  BY DEF Expired, Midnight
<1> HIDE DEF D, q, k
<1>3. /\ q * D \in Nat /\ days * D \in Nat /\ k * D \in Nat
      /\ (q + days) * D = q * D + days * D
      /\ q + days \in Nat
      /\ ((q + days) + 1) * D = (q + days) * D + D
  BY <1>1, Products
<1>4. (q + days) * D < k * D
  BY <1>1, <1>2, <1>3
<1>5. (q + days) + 1 <= k
  BY <1>1, <1>3, <1>4, Products
<1>6. ((q + days) + 1) * D <= k * D
  BY <1>1, <1>3, <1>5, (q + days) + 1 \in Nat, Products
<1>7. u + days * D < k * D
  BY <1>1, <1>3, <1>6
<1> QED
  BY <1>7 DEF Expired, Midnight, D, k

LEMMA WidthFacts ==
  /\ "hour" \in Intervals /\ "day" \in Intervals
  /\ \A i \in Intervals : /\ Width[i] \in Nat /\ Width[i] > 0 /\ Width[i] <= DayLength
                          /\ Keep[i] \in Nat
  /\ Width["hour"] = 1 /\ Width["day"] = DayLength
  BY Bounds DEF Intervals, Width, Keep

LEMMA BucketFacts ==
  ASSUME NEW i \in Intervals, NEW t \in Times
  PROVE  /\ t \in Nat /\ Bucket(i, t) \in Nat /\ Bucket(i, t) \in Buckets(i)
         /\ \A u \in Times : Bucket(i, t) = Bucket(i, u) => Bucket("day", t) = Bucket("day", u)
<1>1. t \in Nat /\ t <= MaxTime /\ Width[i] \in Nat /\ Width[i] > 0
  BY Bounds, WidthFacts DEF Times
<1>2. Bucket(i, t) \in Nat /\ Bucket(i, MaxTime) \in Nat /\ Bucket(i, t) <= Bucket(i, MaxTime)
  BY <1>1, Bounds, Quotient, QuotientGrows DEF Bucket
<1>3. ASSUME NEW u \in Times, Bucket(i, t) = Bucket(i, u)
      PROVE  Bucket("day", t) = Bucket("day", u)
  <2>1. CASE i = "hour"
    <3>1. t \div 1 = u \div 1
      BY <1>3, <2>1, WidthFacts DEF Bucket
    <3>2. u \in Nat /\ u \div 1 = u /\ t \div 1 = t
      BY <1>1, Bounds DEF Times
    <3> QED
      BY <3>1, <3>2
  <2>2. CASE i = "day"
    BY <1>3, <2>2
  <2> QED
    BY <2>1, <2>2 DEF Intervals
<1> QED
  BY <1>1, <1>2, <1>3 DEF Buckets
-----------------------------------------------------------------------------
(* What the invariant says of one sample, one aggregate, one worker.        *)

WorkerType == [at : Intervals \cup {"idle", "retention"}, open : BOOLEAN,
               seen : SUBSET Samples, began : Times, exposed : BOOLEAN]

LEMMA TypeFacts ==
  ASSUME TypeOK
  PROVE  /\ now \in Times /\ now \in Nat /\ now <= MaxTime
         /\ recorded \in [Samples -> Times]
         /\ \A s \in Samples : recorded[s] \in Nat
         /\ place \in [Samples -> {"none", "raw", "dropped"}]
         /\ worker \in [Workers -> WorkerType]
         /\ \A w \in Workers : worker[w].began \in Nat
         /\ \A w \in Workers : worker[w].seen \subseteq Samples
  BY Bounds DEF TypeOK, Times, WorkerType

\* Time passes, and nothing else happens to the aggregate of a sample.
LEMMA HoldsStays ==
  ASSUME TypeOK, NEW i \in Intervals, NEW s \in Samples, Holds(i, s),
         now' \in Nat, now <= now', recorded'[s] = recorded[s],
         agg'[i][Bucket(i, recorded[s])] = agg[i][Bucket(i, recorded[s])]
  PROVE  Holds(i, s)'
<1> DEFINE b == Bucket(i, recorded[s])
<1>1. Width[i] \in Nat /\ Keep[i] \in Nat /\ b \in Nat
  BY WidthFacts, BucketFacts, TypeFacts
<1>2. b * Width[i] \in Nat
  BY <1>1, Products
<1>3. Bucket(i, recorded[s])' = b
  BY DEF Bucket
<1> HIDE DEF b
<1>4. Expired(b * Width[i], Keep[i], now) => Expired(b * Width[i], Keep[i], now')
  BY <1>1, <1>2, TypeFacts, ExpiredFacts
<1>5. s \in agg[i][b] \/ Expired(b * Width[i], Keep[i], now)
  BY DEF Holds, b
<1>6. agg'[i][b] = agg[i][b]
  BY DEF b
<1>7. s \in agg'[i][b] \/ Expired(b * Width[i], Keep[i], now')
  BY <1>4, <1>5, <1>6
<1> QED
  BY <1>3, <1>7 DEF Holds, Expired, Midnight

\* A sample whose bucket loses no late sample is timely only if it was before.
LEMMA TimelyBefore ==
  ASSUME TypeOK, DayInv, NEW i \in Intervals, NEW s \in Samples,
         Timely(i, s)', Stored(s), late \subseteq late',
         \A r \in Samples : Stored(r) => recorded'[r] = recorded[r]
  PROVE  Timely(i, s)
<1>1. recorded'[s] = recorded[s]
  OBVIOUS
<1>2. \A r \in late : r \in Samples /\ r \in late' /\ recorded'[r] = recorded[r]
  BY DEF TypeOK, DayInv
<1> QED
  BY <1>1, <1>2 DEF Timely, Overwritten, In, Bucket

\* The raw samples of a day that has lost one are late.
LEMMA NoneLeft ==
  ASSUME TypeOK, DayInv, NEW i \in Intervals, NEW s \in Samples, place[s] = "dropped",
         Timely(i, s), NEW S \in SUBSET Raw
  PROVE  In(S, i, Bucket(i, recorded[s])) = {}
<1> SUFFICES ASSUME NEW r \in S, Bucket(i, recorded[r]) = Bucket(i, recorded[s])
             PROVE  FALSE
  BY DEF In
<1>1. r \in Samples /\ place[r] = "raw"
  BY DEF Raw
<1>2. Bucket("day", recorded[s]) = Bucket("day", recorded[r])
  BY <1>1, BucketFacts, TypeFacts
<1>3. r \in late
  BY <1>1, <1>2 DEF DayInv
<1> QED
  BY <1>3 DEF Timely, Overwritten, In
-----------------------------------------------------------------------------
(* A sample is stored: it is late, or no cycle can find it outdated.        *)

LEMMA StoreSampleKeeps ==
  ASSUME IInv, NEW x \in Samples, NEW t \in Times, StoreSample(x, t)
  PROVE  IInv'
<1>0. TypeOK /\ AggInv /\ DayInv /\ CycleInv /\ SeenInv /\ DroppedInv /\ AloneInv
  BY DEF IInv
<1>1. /\ place[x] = "none" /\ place' = [place EXCEPT ![x] = "raw"]
      /\ recorded' = [recorded EXCEPT ![x] = t]
      /\ late' = IF Expired(t, RawDays, now + 2) THEN late \cup {x} ELSE late
      /\ UNCHANGED <<now, agg, lock, worker, losses>>
  BY DEF StoreSample
<1>2. /\ place'[x] = "raw" /\ recorded'[x] = t
      /\ \A s \in Samples : s # x => place'[s] = place[s] /\ recorded'[s] = recorded[s]
  BY <1>0, <1>1, TypeFacts
<1>3. \A s \in Samples : Stored(s) => s # x
  BY <1>1 DEF Stored
<1>4. late \subseteq late' /\ late' \subseteq Samples /\ late \subseteq Samples
  BY <1>0, <1>1 DEF TypeOK
<1>5. x \notin late' => ~Expired(t, RawDays, now + 2)
  BY <1>1
<1>6. \A i \in Intervals, s \in Samples : s # x /\ Timely(i, s)' => Timely(i, s)
  <2> SUFFICES ASSUME NEW i \in Intervals, NEW s \in Samples, s # x, Timely(i, s)'
               PROVE  Timely(i, s)
    OBVIOUS
  <2>1. Stored(s)
    BY <1>2 DEF Timely, Stored
  <2> QED
    BY <1>0, <1>2, <1>3, <1>4, <2>1, TimelyBefore
<1>7. TypeOK'
  <2>1. place' \in [Samples -> {"none", "raw", "dropped"}] /\ recorded' \in [Samples -> Times]
    BY <1>0, <1>1, TypeFacts
  <2> QED
    BY <1>0, <1>1, <1>4, <2>1 DEF TypeOK, Times, Buckets, Bucket
<1>8. AggInv'
  <2> SUFFICES ASSUME NEW i \in Intervals, NEW b \in Buckets(i), NEW s \in agg[i][b]
               PROVE  Stored(s)' /\ Bucket(i, recorded'[s]) = b /\ recorded'[s] + Width[i] <= now
    BY <1>1 DEF AggInv, Buckets, Bucket
  <2>1. s \in Samples
    BY <1>0 DEF TypeOK
  <2>2. Stored(s) /\ Bucket(i, recorded[s]) = b /\ recorded[s] + Width[i] <= now
    BY <1>0 DEF AggInv
  <2> QED
    BY <1>2, <1>3, <2>1, <2>2 DEF Stored
<1>9. DayInv'
  <2> SUFFICES ASSUME NEW s \in Samples, NEW r \in Samples
      PROVE  /\ s \in late' => place'[s] # "none"
             /\ place'[s] = "dropped" => Expired(recorded'[s], RawDays, now)
             /\ place'[s] = "dropped" /\ place'[r] = "raw"
                  /\ Bucket("day", recorded'[s]) = Bucket("day", recorded'[r]) => r \in late'
    BY <1>1 DEF DayInv, Stored, Expired, Midnight, Bucket
  <2>1. s \in late' => place'[s] # "none"
    BY <1>0, <1>1, <1>2 DEF DayInv, Stored
  <2>2. place'[s] = "dropped" => s # x /\ place[s] = "dropped" /\ recorded'[s] = recorded[s]
    BY <1>2
  <2>3. place'[s] = "dropped" => Expired(recorded'[s], RawDays, now)
    BY <1>0, <2>2 DEF DayInv
  <2>4. ASSUME place'[s] = "dropped", place'[r] = "raw",
               Bucket("day", recorded'[s]) = Bucket("day", recorded'[r])
        PROVE  r \in late'
    <3>1. CASE r # x
      BY <1>0, <1>2, <1>4, <2>2, <2>4, <3>1 DEF DayInv
    <3>2. CASE r = x
      <4>1. Expired(t, RawDays, now)
        BY <1>0, <1>2, <2>2, <2>3, <2>4, <3>2, TypeFacts, Bounds, DaysExpire, WidthFacts
           DEF Bucket, Times
      <4>2. /\ t \in Nat /\ RawDays \in Nat /\ now \in Nat /\ now + 2 \in Nat
            /\ now <= now + 2
        BY <1>0, TypeFacts, Bounds DEF Times
      <4>3. Expired(t, RawDays, now + 2)
        BY <4>1, <4>2, ExpiredFacts
      <4> QED
        BY <1>5, <3>2, <4>3
    <3> QED
      BY <3>1, <3>2
  <2> QED
    BY <2>1, <2>3, <2>4
<1>10. CycleInv'
  <2> SUFFICES ASSUME NEW w \in Workers
      PROVE  /\ worker[w].open => worker[w].at \in Intervals
             /\ worker[w].exposed \/ lock = w => worker[w].at # "idle"
             /\ \A s \in worker[w].seen : place'[s] # "none" /\ worker[w].open
                                          /\ recorded'[s] + Width[worker[w].at] <= now
             /\ worker[w].at # "idle" => worker[w].began <= now /\ now <= worker[w].began + 1
    BY <1>1 DEF CycleInv, Active, Stored
  <2> QED
    BY <1>0, <1>2, <1>3, TypeFacts DEF CycleInv, Active, Stored
<1>11. SeenInv'
  <2> SUFFICES ASSUME NEW w \in Workers, NEW s \in Samples, Active(w), place'[s] = "raw"
      PROVE  /\ worker[w].open /\ Timely(worker[w].at, s)'
                  /\ Expired(recorded'[s], RawDays, worker[w].began + 2) => s \in worker[w].seen
             /\ \A i \in Written(w) :
                  Timely(i, s)' /\ Expired(recorded'[s], RawDays, worker[w].began + 1) => Holds(i, s)'
    BY <1>1 DEF SeenInv, Active, Written, Expired, Midnight
  <2>0. worker[w].open => worker[w].at \in Intervals
    BY <1>0 DEF CycleInv
  <2>1. CASE s # x
    <3>1. /\ worker[w].open /\ Timely(worker[w].at, s)
               /\ Expired(recorded[s], RawDays, worker[w].began + 2) => s \in worker[w].seen
          /\ \A i \in Written(w) :
               Timely(i, s) /\ Expired(recorded[s], RawDays, worker[w].began + 1) => Holds(i, s)
      BY <1>0, <1>2, <2>1 DEF SeenInv
    <3>2. \A i \in Written(w) : i \in Intervals
      BY DEF Written, Intervals
    <3>3. \A i \in Intervals : Holds(i, s) => Holds(i, s)'
      BY <1>0, <1>1, <1>2, <2>1, TypeFacts, HoldsStays
    <3>4. recorded'[s] = recorded[s]
      BY <1>2, <2>1
    <3>5. worker' = worker
      BY <1>1
    <3>6. worker[w].open /\ Timely(worker[w].at, s)' => Timely(worker[w].at, s)
      BY <1>6, <2>0, <2>1, <3>5
    <3>7. \A i \in Written(w) : Timely(i, s)' => Timely(i, s)
      BY <1>6, <2>1, <3>2
    <3> QED
      BY <3>1, <3>2, <3>3, <3>4, <3>6, <3>7
  <2>2. CASE s = x
    <3>1. \A i : Timely(i, s)' => ~Expired(t, RawDays, now + 2)
      BY <1>5, <2>2 DEF Timely
    <3>2. worker[w].began <= now /\ worker[w].began \in Nat /\ now \in Nat
      BY <1>0, TypeFacts DEF CycleInv
    <3>3. Expired(t, RawDays, worker[w].began + 2) => Expired(t, RawDays, now + 2)
      BY <3>2, Bounds, ExpiredFacts DEF Times
    <3>4. Expired(t, RawDays, worker[w].began + 1) => Expired(t, RawDays, now + 2)
      BY <3>2, Bounds, ExpiredFacts DEF Times
    <3> QED
      BY <1>2, <2>2, <3>1, <3>3, <3>4
  <2> QED
    BY <2>1, <2>2
<1>12. DroppedInv'
  <2> SUFFICES ASSUME NEW s \in Samples, NEW i \in Intervals, place'[s] = "dropped", Timely(i, s)'
      PROVE  /\ Holds(i, s)'
             /\ \A w \in Workers : worker[w].open /\ worker[w].at = i =>
                  s \in worker[w].seen \/ In(worker[w].seen, i, Bucket(i, recorded[s]))' = {}
    BY <1>1 DEF DroppedInv, In, Bucket
  <2>1. s # x /\ place[s] = "dropped" /\ Timely(i, s) /\ recorded'[s] = recorded[s]
    BY <1>2, <1>6
  <2>2. Holds(i, s)'
    BY <1>0, <1>1, <2>1, TypeFacts, HoldsStays DEF DroppedInv
  <2>3. ASSUME NEW w \in Workers, worker[w].open, worker[w].at = i
        PROVE  s \in worker[w].seen \/ In(worker[w].seen, i, Bucket(i, recorded[s]))' = {}
    <3>1. s \in worker[w].seen \/ In(worker[w].seen, i, Bucket(i, recorded[s])) = {}
      BY <1>0, <2>1, <2>3 DEF DroppedInv
    <3>2. \A r \in worker[w].seen : recorded'[r] = recorded[r]
      BY <1>0, <1>2, <1>3, TypeFacts DEF CycleInv
    <3> QED
      BY <1>1, <2>1, <3>1, <3>2 DEF In, Bucket
  <2> QED
    BY <2>2, <2>3
<1>13. AloneInv'
  <2> SUFFICES ASSUME NEW w \in Workers
      PROVE  /\ Active(w) /\ ~worker[w].exposed => /\ lock = w
                                                   /\ \A v \in Workers \ {w} : ~Active(v)
             /\ worker[w].open /\ ~worker[w].exposed =>
                  /\ worker[w].seen \subseteq Raw'
                  /\ \A b \in Buckets(worker[w].at) :
                       agg[worker[w].at][b] \cap Raw' \subseteq worker[w].seen
    BY <1>1 DEF AloneInv, Active, Buckets, Bucket
  <2>1. Raw \subseteq Raw' /\ Raw' \subseteq Raw \cup {x}
    BY <1>2 DEF Raw
  <2>2. ASSUME worker[w].open, NEW b \in Buckets(worker[w].at) PROVE x \notin agg[worker[w].at][b]
    BY <1>0, <1>3, <2>2 DEF AggInv, CycleInv
  <2> QED
    BY <1>0, <2>1, <2>2 DEF AloneInv
<1> QED
  BY <1>7, <1>8, <1>9, <1>10, <1>11, <1>12, <1>13 DEF IInv
-----------------------------------------------------------------------------
(* The steps of a cycle that leave samples and aggregates alone.            *)

\* The parts of the invariant that speak of one worker.
CycleOf(w) ==
  /\ worker[w].open => worker[w].at \in Intervals
  /\ worker[w].exposed \/ lock = w => Active(w)
  /\ \A s \in worker[w].seen : Stored(s) /\ worker[w].open
                               /\ recorded[s] + Width[worker[w].at] <= now
  /\ Active(w) => worker[w].began <= now /\ now <= worker[w].began + 1

SeenOf(w) ==
  \A s \in Samples : Active(w) /\ place[s] = "raw" =>
    /\ worker[w].open /\ Timely(worker[w].at, s) /\ Expired(recorded[s], RawDays, worker[w].began + 2) =>
         s \in worker[w].seen
    /\ \A i \in Written(w) :
         Timely(i, s) /\ Expired(recorded[s], RawDays, worker[w].began + 1) => Holds(i, s)

SparesOf(w) ==
  \A s \in Samples : \A i \in Intervals : place[s] = "dropped" /\ Timely(i, s) =>
    (worker[w].open /\ worker[w].at = i =>
       s \in worker[w].seen \/ In(worker[w].seen, i, Bucket(i, recorded[s])) = {})

AloneOf(w) ==
  /\ Active(w) /\ ~worker[w].exposed => /\ lock = w
                                        /\ \A v \in Workers \ {w} : ~Active(v)
  /\ worker[w].open /\ ~worker[w].exposed =>
       /\ worker[w].seen \subseteq Raw
       /\ \A b \in Buckets(worker[w].at) : agg[worker[w].at][b] \cap Raw \subseteq worker[w].seen

HoldsInv ==
  \A s \in Samples : \A i \in Intervals : place[s] = "dropped" /\ Timely(i, s) => Holds(i, s)

LEMMA ByWorker ==
  IInv <=> /\ TypeOK /\ AggInv /\ DayInv /\ HoldsInv
           /\ \A w \in Workers : CycleOf(w) /\ SeenOf(w) /\ SparesOf(w) /\ AloneOf(w)
<1>1. CycleInv <=> \A w \in Workers : CycleOf(w)
  BY DEF CycleInv, CycleOf
<1>2. SeenInv <=> \A w \in Workers : SeenOf(w)
  BY DEF SeenInv, SeenOf
<1>3. DroppedInv <=> HoldsInv /\ \A w \in Workers : SparesOf(w)
  BY DEF DroppedInv, HoldsInv, SparesOf
<1>4. AloneInv <=> \A w \in Workers : AloneOf(w)
  BY DEF AloneInv, AloneOf
<1> QED
  BY <1>1, <1>2, <1>3, <1>4 DEF IInv

LEMMA ByWorkerNext ==
  ASSUME TypeOK', AggInv', DayInv', HoldsInv',
         \A w \in Workers : CycleOf(w)' /\ SeenOf(w)' /\ SparesOf(w)' /\ AloneOf(w)'
  PROVE  IInv'
<1>1. (\A w \in Workers : CycleOf(w) /\ SeenOf(w) /\ SparesOf(w) /\ AloneOf(w))'
  OBVIOUS
<1> QED
  BY <1>1, ByWorker, PTL

\* Nothing that is said of a sample or an aggregate has changed.
LEMMA SamplesStand ==
  ASSUME UNCHANGED <<now, recorded, place, agg, late>>
  PROVE  /\ AggInv => AggInv'
         /\ DayInv => DayInv'
         /\ HoldsInv => HoldsInv'
         /\ Raw' = Raw
         /\ \A s : Stored(s)' <=> Stored(s)
         /\ \A i, s : Timely(i, s)' <=> Timely(i, s)
         /\ \A i, s : Holds(i, s)' <=> Holds(i, s)
         /\ \A t, days, time : Expired(t, days, time)' <=> Expired(t, days, time)
         /\ \A S, i, b : In(S, i, b)' = In(S, i, b)
         /\ \A i, t : Bucket(i, t)' = Bucket(i, t)
         /\ \A i : Buckets(i)' = Buckets(i)
<1>1. \A s : Stored(s)' <=> Stored(s)
  BY DEF Stored
<1>2. \A i, s : Timely(i, s)' <=> Timely(i, s)
  BY DEF Timely, Stored, Overwritten, In, Bucket
<1>3. \A i, s : Holds(i, s)' <=> Holds(i, s)
  BY DEF Holds, Bucket, Expired, Midnight
<1>4. \A t, days, time : Expired(t, days, time)' <=> Expired(t, days, time)
  BY DEF Expired, Midnight
<1>5. /\ \A S, i, b : In(S, i, b)' = In(S, i, b)
      /\ \A i, t : Bucket(i, t)' = Bucket(i, t)
      /\ \A i : Buckets(i)' = Buckets(i)
  BY DEF In, Bucket, Buckets
<1>6. Raw' = Raw
  BY DEF Raw
<1>7. AggInv => AggInv'
  BY DEF AggInv, Stored, Buckets, Bucket
<1>8. DayInv => DayInv'
  BY DEF DayInv, Stored, Bucket, Expired, Midnight
<1>9. HoldsInv => HoldsInv'
  BY <1>2, <1>3 DEF HoldsInv
<1> QED
  BY <1>1, <1>2, <1>3, <1>4, <1>5, <1>6, <1>7, <1>8, <1>9

\* One worker moves: what is left to show is about it, and who else has the lock.
LEMMA OneWorkerMoves ==
  ASSUME IInv, NEW w \in Workers, UNCHANGED <<now, recorded, place, agg, late>>, TypeOK',
         \A v \in Workers \ {w} : worker'[v] = worker[v],
         \A v \in Workers \ {w} : lock' = v => lock = v,
         \A v \in Workers \ {w} : Active(v) /\ ~worker[v].exposed => lock' = v /\ ~Active(w)',
         CycleOf(w)', SeenOf(w)', SparesOf(w)', AloneOf(w)'
  PROVE  IInv'
<1>1. /\ AggInv' /\ DayInv' /\ HoldsInv'
      /\ \A v \in Workers : CycleOf(v) /\ SeenOf(v) /\ SparesOf(v) /\ AloneOf(v)
  BY SamplesStand, ByWorker DEF IInv
<1>2. ASSUME NEW v \in Workers, v # w
      PROVE  CycleOf(v)' /\ SeenOf(v)' /\ SparesOf(v)' /\ AloneOf(v)'
  <2>0. worker'[v] = worker[v] /\ (lock' = v => lock = v) /\ (Active(v)' <=> Active(v))
        /\ Written(v)' = Written(v)
    BY <1>2 DEF Active, Written
  <2>1. CycleOf(v)'
    BY <1>1, <2>0, SamplesStand DEF CycleOf
  <2>2. SeenOf(v)'
    <3> SUFFICES ASSUME NEW s \in Samples, Active(v)', place'[s] = "raw"
        PROVE  /\ worker[v].open /\ Timely(worker[v].at, s)
                    /\ Expired(recorded[s], RawDays, worker[v].began + 2) => s \in worker[v].seen
               /\ \A i \in Written(v) :
                    Timely(i, s) /\ Expired(recorded[s], RawDays, worker[v].began + 1) => Holds(i, s)
      BY <2>0, SamplesStand DEF SeenOf
    <3> QED
      BY <1>1, <2>0 DEF SeenOf
  <2>3. SparesOf(v)'
    <3> SUFFICES ASSUME NEW s \in Samples, NEW i \in Intervals, place'[s] = "dropped", Timely(i, s),
                        worker[v].open, worker[v].at = i
        PROVE  s \in worker[v].seen \/ In(worker[v].seen, i, Bucket(i, recorded[s])) = {}
      BY <2>0, SamplesStand DEF SparesOf
    <3> QED
      BY <1>1 DEF SparesOf
  <2>4. AloneOf(v)'
    <3>1. ASSUME Active(v)', ~worker'[v].exposed
          PROVE  lock' = v /\ \A u \in Workers \ {v} : ~Active(u)'
      <4>1. lock' = v /\ ~Active(w)' /\ \A u \in Workers \ {v} : ~Active(u)
        BY <1>1, <1>2, <2>0, <3>1 DEF AloneOf
      <4>2. \A u \in Workers \ {w} : Active(u)' <=> Active(u)
        BY DEF Active
      <4> QED
        BY <4>1, <4>2
    <3>2. ASSUME worker'[v].open, ~worker'[v].exposed
          PROVE  /\ worker'[v].seen \subseteq Raw'
                 /\ \A b \in Buckets(worker'[v].at) :
                      agg'[worker'[v].at][b] \cap Raw' \subseteq worker'[v].seen
      BY <1>1, <2>0, <3>2, SamplesStand DEF AloneOf
    <3> QED
      BY <3>1, <3>2 DEF AloneOf, Buckets, Bucket
  <2> QED
    BY <2>1, <2>2, <2>3, <2>4
<1>3. \A v \in Workers : CycleOf(v)' /\ SeenOf(v)' /\ SparesOf(v)' /\ AloneOf(v)'
  BY <1>2
<1> QED
  BY <1>1, <1>3, ByWorkerNext

LEMMA WorkerMovesType ==
  ASSUME TypeOK, UNCHANGED <<now, recorded, place, agg, late>>,
         worker' \in [Workers -> WorkerType], lock' \in Workers \cup {None},
         losses' \in 0..MaxLosses
  PROVE  TypeOK'
  BY DEF TypeOK, Times, Intervals, Buckets, Bucket, WorkerType

LEMMA StartCycleKeeps ==
  ASSUME IInv, NEW w \in Workers, StartCycle(w)
  PROVE  IInv'
<1>0. TypeOK /\ CycleInv /\ AloneInv
  BY DEF IInv
<1>1. /\ ~Active(w) /\ lock = None /\ lock' = w /\ worker' = [worker EXCEPT ![w] = Begun]
      /\ UNCHANGED <<now, recorded, place, agg, late, losses>>
  BY DEF StartCycle, Active
<1>2. /\ Begun \in WorkerType /\ Begun.at = "hour" /\ ~Begun.open /\ Begun.seen = {}
      /\ Begun.began = now /\ (Begun.exposed <=> \E v \in Workers : worker[v].exposed)
  <2> DEFINE any == \E v \in Workers : worker[v].exposed
  <2>1. any \in BOOLEAN /\ Begun = [Idle EXCEPT !.at = "hour", !.began = now, !.exposed = any]
    BY DEF Begun
  <2> HIDE DEF any
  <2>2. /\ Begun \in WorkerType /\ Begun.at = "hour" /\ ~Begun.open /\ Begun.seen = {}
        /\ Begun.began = now /\ Begun.exposed = any
    BY <1>0, <2>1, TypeFacts DEF Idle, WorkerType, Intervals
  <2> QED
    BY <2>2 DEF any
<1> HIDE DEF Begun
<1>3. /\ worker' \in [Workers -> WorkerType] /\ worker'[w] = Begun
      /\ \A v \in Workers \ {w} : worker'[v] = worker[v]
  BY <1>0, <1>1, <1>2, TypeFacts
<1>4. TypeOK'
  BY <1>0, <1>1, <1>3, WorkerMovesType DEF TypeOK
<1>5. \A v \in Workers : Active(v) => worker[v].exposed
  BY <1>0, <1>1, Bounds DEF AloneInv
<1>6. CycleOf(w)'
  BY <1>0, <1>1, <1>2, <1>3, TypeFacts DEF CycleOf, Active, Intervals
<1>7. SeenOf(w)'
  BY <1>2, <1>3 DEF SeenOf, Written
<1>8. SparesOf(w)'
  BY <1>2, <1>3 DEF SparesOf
<1>9. AloneOf(w)'
  BY <1>1, <1>2, <1>3, <1>5 DEF AloneOf, Active
<1> QED
  BY <1>1, <1>3, <1>4, <1>5, <1>6, <1>7, <1>8, <1>9, OneWorkerMoves

LEMMA FailCycleKeeps ==
  ASSUME IInv, NEW w \in Workers, FailCycle(w)
  PROVE  IInv'
<1>0. TypeOK /\ CycleInv /\ AloneInv
  BY DEF IInv
<1>1. /\ Active(w) /\ lock' = (IF lock = w THEN None ELSE lock)
      /\ worker' = [worker EXCEPT ![w] = Idle]
      /\ UNCHANGED <<now, recorded, place, agg, late, losses>>
  BY DEF FailCycle, Active, Release
<1>2. /\ Idle \in WorkerType /\ Idle.at = "idle" /\ ~Idle.open /\ Idle.seen = {} /\ ~Idle.exposed
  BY Bounds DEF Idle, WorkerType, Times
<1> HIDE DEF Idle
<1>3. /\ worker' \in [Workers -> WorkerType] /\ worker'[w] = Idle
      /\ \A v \in Workers \ {w} : worker'[v] = worker[v]
  BY <1>0, <1>1, <1>2, TypeFacts
<1>4. TypeOK'
  BY <1>0, <1>1, <1>3, WorkerMovesType DEF TypeOK
<1>5. \A v \in Workers \ {w} : Active(v) /\ ~worker[v].exposed => lock' = v /\ ~Active(w)'
  BY <1>0, <1>1, <1>2, <1>3 DEF AloneInv, Active
<1>6. lock' # w
  BY <1>1, Bounds
<1>7. \A v \in Workers \ {w} : lock' = v => lock = v
  BY <1>1, Bounds
<1>8. ~Active(w)'
  BY <1>2, <1>3 DEF Active
<1>9. CycleOf(w)'
  BY <1>2, <1>3, <1>6, <1>8 DEF CycleOf
<1>10. SeenOf(w)' /\ SparesOf(w)' /\ AloneOf(w)'
  BY <1>2, <1>3, <1>8 DEF SeenOf, SparesOf, AloneOf
<1> QED
  BY <1>1, <1>3, <1>4, <1>5, <1>7, <1>9, <1>10, OneWorkerMoves

LEMMA LoseSessionKeeps ==
  ASSUME IInv, NEW w \in Workers, LoseSession(w)
  PROVE  IInv'
<1>0. TypeOK /\ AloneInv /\ CycleOf(w) /\ SeenOf(w) /\ SparesOf(w)
  BY ByWorker DEF IInv
<1>1. /\ lock = w /\ losses < MaxLosses /\ lock' = None /\ losses' = losses + 1
      /\ worker' = [worker EXCEPT ![w].exposed = TRUE]
      /\ UNCHANGED <<now, recorded, place, agg, late>>
  BY DEF LoseSession
<1>2. /\ worker' \in [Workers -> WorkerType] /\ worker'[w].exposed
      /\ worker'[w].at = worker[w].at /\ worker'[w].open = worker[w].open
      /\ worker'[w].seen = worker[w].seen /\ worker'[w].began = worker[w].began
      /\ \A v \in Workers \ {w} : worker'[v] = worker[v]
  BY <1>0, <1>1, TypeFacts DEF WorkerType
<1>3. TypeOK'
  <2>1. losses' \in 0..MaxLosses
    BY <1>0, <1>1, Bounds DEF TypeOK
  <2> QED
    BY <1>0, <1>1, <1>2, <2>1, WorkerMovesType
<1>4. Active(w) /\ Active(w)'
  BY <1>0, <1>1, <1>2 DEF CycleOf, Active
<1>5. \A v \in Workers \ {w} : Active(v) /\ ~worker[v].exposed => lock' = v /\ ~Active(w)'
  BY <1>0, <1>1 DEF AloneInv
<1>6. CycleOf(w)'
  BY <1>0, <1>1, <1>2, <1>4, SamplesStand DEF CycleOf
<1>7. Written(w)' = Written(w)
  BY <1>2 DEF Written
<1>8. SeenOf(w)'
  <2> SUFFICES ASSUME NEW s \in Samples, place[s] = "raw"
      PROVE  /\ worker[w].open /\ Timely(worker[w].at, s)
                  /\ Expired(recorded[s], RawDays, worker[w].began + 2) => s \in worker[w].seen
             /\ \A i \in Written(w) :
                  Timely(i, s) /\ Expired(recorded[s], RawDays, worker[w].began + 1) => Holds(i, s)
    BY <1>1, <1>2, <1>7, SamplesStand DEF SeenOf
  <2> QED
    BY <1>0, <1>4 DEF SeenOf
<1>9. SparesOf(w)'
  <2> SUFFICES ASSUME NEW s \in Samples, NEW i \in Intervals, place[s] = "dropped", Timely(i, s),
                      worker[w].open, worker[w].at = i
      PROVE  s \in worker[w].seen \/ In(worker[w].seen, i, Bucket(i, recorded[s])) = {}
    BY <1>1, <1>2, SamplesStand DEF SparesOf
  <2> QED
    BY <1>0 DEF SparesOf
<1>10. AloneOf(w)'
  BY <1>2 DEF AloneOf
<1> QED
  BY <1>1, <1>2, <1>3, <1>5, <1>6, <1>8, <1>9, <1>10, Bounds, OneWorkerMoves

\* A statement sees every sample that is over.  Raw samples are kept for more than
\* the day they may still be part of.
LEMMA ReadSamplesKeeps ==
  ASSUME IInv, NEW w \in Workers, ReadSamples(w)
  PROVE  IInv'
<1>0. /\ TypeOK /\ AggInv /\ DayInv /\ CycleInv /\ AloneInv
      /\ CycleOf(w) /\ SeenOf(w) /\ AloneOf(w)
  BY ByWorker DEF IInv
<1> DEFINE old == {s \in Raw : recorded[s] + Width[worker[w].at] <= now}
<1>1. /\ worker[w].at \in Intervals /\ ~worker[w].open
      /\ worker' = [worker EXCEPT ![w].open = TRUE, ![w].seen = old]
      /\ UNCHANGED <<now, recorded, place, agg, lock, late, losses>>
  BY DEF ReadSamples
<1>2. old \subseteq Samples /\ old \subseteq Raw
  BY DEF Raw
<1>3. \A s \in old : place[s] = "raw" /\ recorded[s] + Width[worker[w].at] <= now
  BY DEF Raw
<1>4. \A s \in Samples : place[s] = "raw" /\ recorded[s] + Width[worker[w].at] <= now => s \in old
  BY DEF Raw
<1> HIDE DEF old
<1>5. /\ worker' \in [Workers -> WorkerType] /\ worker'[w].open /\ worker'[w].seen = old
      /\ worker'[w].at = worker[w].at /\ worker'[w].began = worker[w].began
      /\ worker'[w].exposed = worker[w].exposed
      /\ \A v \in Workers \ {w} : worker'[v] = worker[v]
  BY <1>0, <1>1, <1>2, TypeFacts DEF WorkerType
<1>6. TypeOK'
  BY <1>0, <1>1, <1>5, WorkerMovesType DEF TypeOK
<1>7. Active(w) /\ Active(w)'
  BY <1>1, <1>5 DEF Active, Intervals
<1>8. \A v \in Workers \ {w} : Active(v) /\ ~worker[v].exposed => lock' = v /\ ~Active(w)'
  BY <1>0, <1>7 DEF AloneInv
<1>9. CycleOf(w)'
  BY <1>0, <1>1, <1>3, <1>5, <1>7, SamplesStand DEF CycleOf, Stored
<1>10. Written(w)' = Written(w)
  BY <1>5 DEF Written
<1>11. SeenOf(w)'
  <2> SUFFICES ASSUME NEW s \in Samples, place[s] = "raw"
      PROVE  /\ Expired(recorded[s], RawDays, worker[w].began + 2) => s \in old
             /\ \A i \in Written(w) :
                  Timely(i, s) /\ Expired(recorded[s], RawDays, worker[w].began + 1) => Holds(i, s)
    BY <1>1, <1>5, <1>10, SamplesStand DEF SeenOf
  <2>1. \A i \in Written(w) :
          Timely(i, s) /\ Expired(recorded[s], RawDays, worker[w].began + 1) => Holds(i, s)
    BY <1>0, <1>7 DEF SeenOf
  <2>2. ASSUME Expired(recorded[s], RawDays, worker[w].began + 2) PROVE s \in old
    <3>1. /\ recorded[s] \in Nat /\ worker[w].began \in Nat /\ worker[w].began <= now /\ now \in Nat
          /\ Width[worker[w].at] \in Nat /\ Width[worker[w].at] <= DayLength
          /\ DayLength \in Nat /\ DayLength > 0 /\ RawDays \in Nat /\ 2 <= RawDays
      BY <1>0, <1>1, <1>7, TypeFacts, WidthFacts, Bounds DEF CycleOf
    <3>2. recorded[s] + RawDays * DayLength < worker[w].began + 2
      BY <2>2, <3>1, worker[w].began + 2 \in Nat, ExpiredFacts
    <3>3. /\ RawDays * DayLength \in Nat /\ 2 * DayLength <= RawDays * DayLength
          /\ 2 * DayLength = DayLength + DayLength
      BY <3>1, 1 + 1 = 2, 2 \in Nat, 1 \in Nat, Products
    <3>4. recorded[s] + Width[worker[w].at] <= now
      BY <3>1, <3>2, <3>3
    <3> QED
      BY <1>4, <3>4
  <2> QED
    BY <2>1, <2>2
<1>12. SparesOf(w)'
  <2> SUFFICES ASSUME NEW s \in Samples, NEW i \in Intervals, place[s] = "dropped", Timely(i, s)
      PROVE  In(old, i, Bucket(i, recorded[s])) = {}
    BY <1>1, <1>5, SamplesStand DEF SparesOf
  <2> QED
    BY <1>0, <1>2, NoneLeft
<1>13. AloneOf(w)'
  <2>1. ASSUME ~worker[w].exposed PROVE lock' = w /\ \A v \in Workers \ {w} : ~Active(v)'
    <3>1. lock = w /\ \A v \in Workers \ {w} : ~Active(v)
      BY <1>0, <1>7, <2>1 DEF AloneOf
    <3> QED
      BY <1>1, <1>5, <3>1 DEF Active
  <2>2. ASSUME NEW b \in Buckets(worker[w].at), NEW s \in agg[worker[w].at][b], s \in Raw
        PROVE  s \in old
    <3>1. recorded[s] + Width[worker[w].at] <= now
      BY <1>0, <1>1, <2>2 DEF AggInv
    <3> QED
      BY <1>4, <2>2, <3>1 DEF Raw
  <2>3. /\ worker'[w].seen \subseteq Raw'
        /\ \A b \in Buckets(worker'[w].at) : agg'[worker'[w].at][b] \cap Raw' \subseteq worker'[w].seen
    BY <1>1, <1>2, <1>5, <2>2, SamplesStand
  <2> QED
    BY <1>5, <2>1, <2>3 DEF AloneOf, Buckets, Bucket
<1> QED
  BY <1>1, <1>5, <1>6, <1>8, <1>9, <1>11, <1>12, <1>13, OneWorkerMoves
-----------------------------------------------------------------------------
(* An hour passes.                                                          *)

LEMMA TickKeeps ==
  ASSUME IInv, Tick
  PROVE  IInv'
<1>0. /\ TypeOK /\ AggInv /\ DayInv /\ HoldsInv
      /\ \A w \in Workers : CycleOf(w) /\ SeenOf(w) /\ SparesOf(w) /\ AloneOf(w)
  BY ByWorker
<1>1. /\ now < MaxTime /\ \A w \in Workers : Active(w) => worker[w].began = now
      /\ now' = now + 1 /\ UNCHANGED <<recorded, place, agg, lock, worker, late, losses>>
  BY DEF Tick, Active
<1>2. now \in Nat /\ now' \in Nat /\ now <= now' /\ now' \in Times
  BY <1>0, <1>1, TypeFacts, Bounds DEF Times
<1>3. /\ \A i, s : Timely(i, s)' <=> Timely(i, s)
      /\ \A s : Stored(s)' <=> Stored(s)
      /\ \A w : (Active(w)' <=> Active(w)) /\ Written(w)' = Written(w)
      /\ \A S, i, b : In(S, i, b)' = In(S, i, b)
      /\ Raw' = Raw
  BY <1>1 DEF Timely, Stored, Overwritten, In, Bucket, Active, Written, Raw
<1>4. \A i \in Intervals, s \in Samples : Holds(i, s) => Holds(i, s)'
  BY <1>0, <1>1, <1>2, HoldsStays
<1>5. TypeOK'
  BY <1>0, <1>1, <1>2 DEF TypeOK, Times, Buckets, Bucket
<1>6. AggInv'
  <2> SUFFICES ASSUME NEW i \in Intervals, NEW b \in Buckets(i), NEW s \in agg[i][b]
               PROVE  Stored(s) /\ Bucket(i, recorded[s]) = b /\ recorded[s] + Width[i] <= now'
    BY <1>1, <1>3 DEF AggInv, Buckets, Bucket
  <2>1. s \in Samples
    BY <1>0 DEF TypeOK
  <2> QED
    BY <1>0, <1>1, <1>2, <2>1, TypeFacts, WidthFacts DEF AggInv
<1>7. DayInv'
  <2> SUFFICES ASSUME NEW s \in Samples, NEW r \in Samples
      PROVE  /\ s \in late => Stored(s)
             /\ place[s] = "dropped" => Expired(recorded[s], RawDays, now')
             /\ place[s] = "dropped" /\ place[r] = "raw"
                  /\ Bucket("day", recorded[s]) = Bucket("day", recorded[r]) => r \in late
    BY <1>1, <1>3 DEF DayInv, Expired, Midnight, Bucket
  <2>1. recorded[s] \in Nat /\ RawDays \in Nat
    BY <1>0, TypeFacts, Bounds
  <2> QED
    BY <1>0, <1>2, <2>1, ExpiredFacts DEF DayInv
<1>8. HoldsInv'
  BY <1>0, <1>1, <1>3, <1>4 DEF HoldsInv
<1>9. ASSUME NEW w \in Workers
      PROVE  CycleOf(w)' /\ SeenOf(w)' /\ SparesOf(w)' /\ AloneOf(w)'
  <2>1. CycleOf(w)'
    <3> SUFFICES /\ worker[w].open => worker[w].at \in Intervals
                 /\ worker[w].exposed \/ lock = w => Active(w)
                 /\ \A s \in worker[w].seen : Stored(s) /\ worker[w].open
                                              /\ recorded[s] + Width[worker[w].at] <= now'
                 /\ Active(w) => worker[w].began <= now' /\ now' <= worker[w].began + 1
      BY <1>1, <1>3 DEF CycleOf
    <3>1. ASSUME NEW s \in worker[w].seen
          PROVE  Stored(s) /\ worker[w].open /\ recorded[s] + Width[worker[w].at] <= now'
      <4>1. /\ recorded[s] + Width[worker[w].at] <= now /\ Stored(s) /\ worker[w].open
            /\ worker[w].at \in Intervals /\ s \in Samples
        BY <1>0, <3>1, TypeFacts DEF CycleOf
      <4> QED
        BY <1>0, <1>2, <4>1, TypeFacts, WidthFacts
    <3> QED
      BY <1>0, <1>1, <1>2, <3>1 DEF CycleOf
  <2>2. SeenOf(w)'
    <3> SUFFICES ASSUME NEW s \in Samples, Active(w), place[s] = "raw"
        PROVE  /\ worker[w].open /\ Timely(worker[w].at, s)
                    /\ Expired(recorded[s], RawDays, worker[w].began + 2) => s \in worker[w].seen
               /\ \A i \in Written(w) :
                    Timely(i, s) /\ Expired(recorded[s], RawDays, worker[w].began + 1) => Holds(i, s)'
      BY <1>1, <1>3 DEF SeenOf, Expired, Midnight
    <3>1. \A i \in Written(w) : i \in Intervals
      BY DEF Written, Intervals
    <3> QED
      BY <1>0, <1>4, <3>1 DEF SeenOf
  <2>3. SparesOf(w)'
    <3> SUFFICES ASSUME NEW s \in Samples, NEW i \in Intervals, place[s] = "dropped", Timely(i, s),
                        worker[w].open, worker[w].at = i
        PROVE  s \in worker[w].seen \/ In(worker[w].seen, i, Bucket(i, recorded[s])) = {}
      BY <1>1, <1>3 DEF SparesOf, Bucket
    <3> QED
      BY <1>0 DEF SparesOf
  <2>4. AloneOf(w)'
    BY <1>0, <1>1, <1>3 DEF AloneOf, Buckets, Bucket
  <2> QED
    BY <2>1, <2>2, <2>3, <2>4
<1> QED
  BY <1>5, <1>6, <1>7, <1>8, <1>9, ByWorkerNext
-----------------------------------------------------------------------------
(* A roll-up is written: of the samples it saw, all that another cycle may  *)
(* have counted on.                                                         *)

LEMMA WriteRollupKeeps ==
  ASSUME IInv, NEW w \in Workers, WriteRollup(w)
  PROVE  IInv'
<1>0. /\ TypeOK /\ AggInv /\ DayInv /\ HoldsInv
      /\ \A v \in Workers : CycleOf(v) /\ SeenOf(v) /\ SparesOf(v) /\ AloneOf(v)
  BY ByWorker
<1> DEFINE i == worker[w].at
           seen == worker[w].seen
           then == IF i = "hour" THEN "day" ELSE "retention"
<1>1. /\ worker[w].open
      /\ agg' = [agg EXCEPT ![i] = Upsert(i, seen)]
      /\ worker' = [worker EXCEPT ![w].at = then, ![w].open = FALSE, ![w].seen = {}]
      /\ UNCHANGED <<now, recorded, place, lock, late, losses>>
  BY DEF WriteRollup
<1>2. i \in Intervals /\ seen \subseteq Samples /\ then \in {"day", "retention"}
  BY <1>0, <1>1, TypeFacts DEF CycleOf
<1>3. Active(w) /\ Written(w) = Intervals \ {i, then} /\ then # i
  BY <1>2 DEF Active, Written, Intervals
<1>4. /\ worker' \in [Workers -> WorkerType] /\ worker'[w].at = then /\ ~worker'[w].open
      /\ worker'[w].seen = {} /\ worker'[w].began = worker[w].began
      /\ worker'[w].exposed = worker[w].exposed
      /\ \A v \in Workers \ {w} : worker'[v] = worker[v]
  <2>1. then \in Intervals \cup {"idle", "retention"} /\ {} \subseteq Samples
    BY <1>2 DEF Intervals
  <2> HIDE DEF then
  <2> QED
    BY <1>0, <1>1, <2>1, TypeFacts DEF WorkerType
<1>5. Active(w)'
  BY <1>2, <1>4 DEF Active
<1>6. Written(w)' \subseteq Written(w) \cup {i}
  BY <1>2, <1>4 DEF Written, Intervals
<1>7. \A v \in Workers \ {w} : (Active(v)' <=> Active(v)) /\ Written(v)' = Written(v)
  BY <1>4 DEF Active, Written
<1>8. /\ DOMAIN agg' = Intervals
      /\ \A j \in Intervals \ {i} : agg'[j] = agg[j]
      /\ agg'[i] = Upsert(i, seen)
  BY <1>0, <1>1, <1>2 DEF TypeOK
<1>9. /\ \A b \in Buckets(i) : In(seen, i, b) # {} => agg'[i][b] = In(seen, i, b)
      /\ \A b \in Buckets(i) : In(seen, i, b) = {} => agg'[i][b] = agg[i][b]
      /\ Upsert(i, seen) \in [Buckets(i) -> SUBSET Samples]
  <2>1. \A b \in Buckets(i) : agg[i][b] \subseteq Samples /\ In(seen, i, b) \subseteq Samples
    BY <1>0, <1>2 DEF TypeOK, In
  <2> QED
    BY <1>8, <2>1 DEF Upsert
<1> HIDE DEF i, seen, then
<1>10. /\ \A j, s : Timely(j, s)' <=> Timely(j, s)
       /\ \A s : Stored(s)' <=> Stored(s)
       /\ \A S, j, b : In(S, j, b)' = In(S, j, b)
       /\ Raw' = Raw
  BY <1>1 DEF Timely, Stored, Overwritten, In, Bucket, Raw
<1>11. TypeOK'
  <2>1. \A j \in Intervals : agg'[j] \in [Buckets(j) -> SUBSET Samples]
    BY <1>0, <1>2, <1>8, <1>9 DEF TypeOK
  <2> QED
    BY <1>0, <1>1, <1>4, <1>8, <2>1 DEF TypeOK, Times, Buckets, Bucket, WorkerType
<1>12. AggInv'
  <2> SUFFICES ASSUME NEW j \in Intervals, NEW b \in Buckets(j), NEW s \in agg'[j][b]
               PROVE  Stored(s) /\ Bucket(j, recorded[s]) = b /\ recorded[s] + Width[j] <= now
    BY <1>1, <1>10 DEF AggInv, Buckets, Bucket
  <2>1. CASE s \in agg[j][b]
    BY <1>0, <2>1 DEF AggInv
  <2>2. CASE s \notin agg[j][b]
    <3>1. j = i /\ s \in In(seen, i, b)
      BY <1>2, <1>8, <1>9, <2>2
    <3> QED
      BY <1>0, <3>1 DEF In, CycleOf, i, seen
  <2> QED
    BY <2>1, <2>2
<1>13. DayInv'
  BY <1>0, <1>1, <1>10 DEF DayInv, Expired, Midnight, Bucket
<1>14. ASSUME NEW j \in Intervals, NEW s \in Samples,
              j = i => s \in seen \/ (Holds(i, s) /\ In(seen, i, Bucket(i, recorded[s])) = {}),
              j # i => Holds(j, s)
       PROVE  Holds(j, s)'
  <2>0. Bucket(j, recorded[s]) \in Buckets(j) /\ recorded[s] \in Times
    BY <1>0, BucketFacts, TypeFacts
  <2>1. CASE j = i /\ s \in seen
    <3>1. s \in In(seen, i, Bucket(i, recorded[s]))
      BY <2>1 DEF In
    <3>2. s \in agg'[i][Bucket(i, recorded[s])]
      BY <1>9, <2>0, <2>1, <3>1
    <3> QED
      BY <1>1, <2>1, <3>2 DEF Holds, Bucket
  <2>2. CASE Holds(j, s) /\ agg'[j][Bucket(j, recorded[s])] = agg[j][Bucket(j, recorded[s])]
    <3>1. now' \in Nat /\ now <= now' /\ recorded'[s] = recorded[s]
      BY <1>0, <1>1, TypeFacts
    <3> QED
      BY <1>0, <2>2, <3>1, HoldsStays
  <2> QED
    BY <1>8, <1>9, <1>14, <2>0, <2>1, <2>2
<1>15. HoldsInv'
  <2> SUFFICES ASSUME NEW s \in Samples, NEW j \in Intervals, place[s] = "dropped", Timely(j, s)
               PROVE  Holds(j, s)'
    BY <1>1, <1>10 DEF HoldsInv
  <2>1. Holds(j, s)
    BY <1>0 DEF HoldsInv
  <2>2. j = i => s \in seen \/ In(seen, i, Bucket(i, recorded[s])) = {}
    BY <1>0, <1>1 DEF SparesOf, i, seen
  <2> QED
    BY <1>14, <2>1, <2>2
<1>16. ASSUME NEW v \in Workers PROVE CycleOf(v)'
  <2>1. CASE v = w
    BY <1>0, <1>1, <1>4, <1>5, <2>1, <1>3 DEF CycleOf
  <2>2. CASE v # w
    <3>1. worker'[v] = worker[v] /\ (Active(v)' <=> Active(v)) /\ CycleOf(v)
      BY <1>0, <1>4, <1>7, <2>2
    <3> QED
      BY <1>1, <1>10, <3>1 DEF CycleOf
  <2> QED
    BY <2>1, <2>2
<1>17. ASSUME NEW v \in Workers PROVE SeenOf(v)'
  <2>0. /\ worker'[v].began = worker[v].began /\ (Active(v)' <=> Active(v))
        /\ worker'[v].open => v # w /\ worker'[v] = worker[v]
        /\ Written(v)' \subseteq Written(v) \cup {i}
    BY <1>3, <1>4, <1>5, <1>6, <1>7
  <2> SUFFICES ASSUME NEW s \in Samples, Active(v), place[s] = "raw"
      PROVE  /\ worker'[v].open /\ Timely(worker'[v].at, s)
                  /\ Expired(recorded[s], RawDays, worker[v].began + 2) => s \in worker'[v].seen
             /\ \A j \in Written(v)' :
                  Timely(j, s) /\ Expired(recorded[s], RawDays, worker[v].began + 1) => Holds(j, s)'
    BY <1>1, <1>10, <2>0 DEF SeenOf, Expired, Midnight
  <2>1. ASSUME worker'[v].open, Timely(worker'[v].at, s),
               Expired(recorded[s], RawDays, worker[v].began + 2)
        PROVE  s \in worker'[v].seen
    BY <1>0, <2>0, <2>1 DEF SeenOf
  <2>2. ASSUME NEW j \in Written(v)', Timely(j, s),
               Expired(recorded[s], RawDays, worker[v].began + 1)
        PROVE  Holds(j, s)'
    <3>1. j \in Intervals
      BY <1>2, <2>0 DEF Written, Intervals
    <3>2. j # i => Holds(j, s)
      BY <1>0, <2>0, <2>2 DEF SeenOf
    <3>3. Expired(recorded[s], RawDays, worker[w].began + 2)
      <4>1. /\ worker[v].began \in Nat /\ worker[w].began \in Nat /\ now \in Nat
            /\ worker[v].began <= now /\ now <= worker[w].began + 1
            /\ recorded[s] \in Nat /\ RawDays \in Nat
        BY <1>0, <1>3, TypeFacts, Bounds DEF CycleOf
      <4>2. /\ worker[v].began + 1 \in Nat /\ worker[w].began + 2 \in Nat
            /\ worker[v].began + 1 <= worker[w].began + 2
        BY <4>1
      <4> QED
        BY <2>2, <4>1, <4>2, ExpiredFacts
    <3>4. j = i => s \in seen
      BY <1>0, <1>1, <1>3, <2>2, <3>3 DEF SeenOf, i, seen
    <3> QED
      BY <1>14, <3>1, <3>2, <3>4
  <2> QED
    BY <2>1, <2>2
<1>18. ASSUME NEW v \in Workers PROVE SparesOf(v)'
  <2> SUFFICES ASSUME NEW s \in Samples, NEW j \in Intervals, place[s] = "dropped", Timely(j, s),
                      worker'[v].open, worker'[v].at = j
      PROVE  s \in worker'[v].seen \/ In(worker'[v].seen, j, Bucket(j, recorded[s])) = {}
    BY <1>1, <1>10 DEF SparesOf, Bucket
  <2>1. worker'[v] = worker[v]
    BY <1>4
  <2> QED
    BY <1>0, <2>1 DEF SparesOf
<1>19. ASSUME NEW v \in Workers PROVE AloneOf(v)'
  <2>1. CASE v = w
    <3>1. ~worker[w].exposed => lock = w /\ \A u \in Workers \ {w} : ~Active(u)
      BY <1>0, <1>3 DEF AloneOf
    <3> QED
      BY <1>1, <1>4, <1>7, <2>1, <3>1 DEF AloneOf
  <2>2. CASE v # w
    <3>1. Active(v) => worker[v].exposed
      BY <1>0, <1>3, <2>2 DEF AloneOf
    <3>2. worker[v].open => Active(v)
      BY <1>0 DEF CycleOf, Active, Intervals
    <3> QED
      BY <1>4, <1>7, <2>2, <3>1, <3>2 DEF AloneOf
  <2> QED
    BY <2>1, <2>2
<1> QED
  BY <1>11, <1>12, <1>13, <1>15, <1>16, <1>17, <1>18, <1>19, ByWorkerNext
-----------------------------------------------------------------------------
(* Retention: what is dropped now had expired, or almost, when the roll-ups *)
(* of any cycle under way began to read.                                    *)

LEMMA ApplyRetentionKeeps ==
  ASSUME IInv, NEW w \in Workers, ApplyRetention(w)
  PROVE  IInv'
<1>0. /\ TypeOK /\ AggInv /\ DayInv /\ HoldsInv
      /\ \A v \in Workers : CycleOf(v) /\ SeenOf(v) /\ SparesOf(v) /\ AloneOf(v)
  BY ByWorker
<1>1. /\ worker[w].at = "retention" /\ lock' = (IF lock = w THEN None ELSE lock)
      /\ place' = [s \in Samples |-> IF s \in Raw /\ Outdated(s) THEN "dropped" ELSE place[s]]
      /\ agg' = [i \in Intervals |-> [b \in Buckets(i) |->
                   IF Expired(b * Width[i], Keep[i], now) THEN {} ELSE agg[i][b]]]
      /\ worker' = [worker EXCEPT ![w] = Idle]
      /\ UNCHANGED <<now, recorded, late, losses>>
  BY DEF ApplyRetention, Release
<1>2. /\ Idle \in WorkerType /\ Idle.at = "idle" /\ ~Idle.open /\ Idle.seen = {} /\ ~Idle.exposed
  BY Bounds DEF Idle, WorkerType, Times
<1> HIDE DEF Idle
<1>3. /\ worker' \in [Workers -> WorkerType] /\ worker'[w] = Idle /\ ~Active(w)'
      /\ \A v \in Workers \ {w} : worker'[v] = worker[v] /\ (Active(v)' <=> Active(v))
                                  /\ Written(v)' = Written(v)
  BY <1>0, <1>1, <1>2, TypeFacts DEF Active, Written
<1>4. Active(w) /\ Written(w) = Intervals /\ ~worker[w].open
  BY <1>0, <1>1 DEF Active, Written, CycleOf, Intervals
<1>5. \A s \in Samples :
        \/ place'[s] = place[s] /\ (place[s] = "raw" => ~Expired(recorded[s], RawDays, now))
        \/ place'[s] = "dropped" /\ place[s] = "raw" /\ Expired(recorded[s], RawDays, now)
  BY <1>1 DEF Raw, Outdated
<1>6. /\ place' \in [Samples -> {"none", "raw", "dropped"}]
      /\ \A s \in Samples : Stored(s)' <=> Stored(s)
  BY <1>0, <1>1, <1>5, TypeFacts DEF Stored
<1>7. /\ \A j \in Intervals, s \in Samples : Timely(j, s)' <=> Timely(j, s)
      /\ \A S, j, b : In(S, j, b)' = In(S, j, b)
  BY <1>1, <1>6 DEF Timely, Overwritten, In, Bucket
<1>8. \A j \in Intervals : \A b \in Buckets(j) :
        \/ agg'[j][b] = agg[j][b]
        \/ agg'[j][b] = {} /\ Expired(b * Width[j], Keep[j], now)
  BY <1>1
<1>9. ASSUME NEW j \in Intervals, NEW s \in Samples, Holds(j, s) PROVE Holds(j, s)'
  <2>1. Bucket(j, recorded[s]) \in Buckets(j)
    BY <1>0, BucketFacts, TypeFacts
  <2> QED
    BY <1>1, <1>8, <1>9, <2>1 DEF Holds, Bucket, Expired, Midnight
\* Outdated now: outdated an hour after any cycle under way began.
<1>10. ASSUME NEW v \in Workers, Active(v), NEW s \in Samples, Expired(recorded[s], RawDays, now)
       PROVE  /\ Expired(recorded[s], RawDays, worker[v].began + 1)
              /\ Expired(recorded[s], RawDays, worker[v].began + 2)
  <2>1. /\ worker[v].began + 1 \in Nat /\ worker[v].began + 2 \in Nat /\ now \in Nat
        /\ now <= worker[v].began + 1 /\ now <= worker[v].began + 2
        /\ recorded[s] \in Nat /\ RawDays \in Nat
    BY <1>0, <1>10, TypeFacts, Bounds DEF CycleOf
  <2> QED
    BY <1>10, <2>1, ExpiredFacts
<1>11. TypeOK'
  <2>1. /\ DOMAIN agg' = Intervals
        /\ \A j \in Intervals : agg'[j] \in [Buckets(j) -> SUBSET Samples]
    BY <1>0, <1>1 DEF TypeOK
  <2>2. lock' \in Workers \cup {None}
    BY <1>0, <1>1 DEF TypeOK
  <2> QED
    BY <1>0, <1>1, <1>3, <1>6, <2>1, <2>2 DEF TypeOK, Times, Buckets, Bucket, WorkerType
<1>12. AggInv'
  <2> SUFFICES ASSUME NEW j \in Intervals, NEW b \in Buckets(j), NEW s \in agg'[j][b]
               PROVE  Stored(s)' /\ Bucket(j, recorded[s]) = b /\ recorded[s] + Width[j] <= now
    BY <1>1 DEF AggInv, Buckets, Bucket
  <2>1. s \in agg[j][b] /\ s \in Samples
    BY <1>0, <1>8 DEF TypeOK
  <2> QED
    BY <1>0, <1>6, <2>1 DEF AggInv
<1>13. DayInv'
  <2> SUFFICES ASSUME NEW s \in Samples, NEW r \in Samples
      PROVE  /\ s \in late => Stored(s)
             /\ place'[s] = "dropped" => Expired(recorded[s], RawDays, now)
             /\ place'[s] = "dropped" /\ place'[r] = "raw"
                  /\ Bucket("day", recorded[s]) = Bucket("day", recorded[r]) => r \in late
    BY <1>1, <1>6 DEF DayInv, Expired, Midnight, Bucket
  <2>1. place'[s] = "dropped" => Expired(recorded[s], RawDays, now)
    BY <1>0, <1>5 DEF DayInv
  <2>2. ASSUME place'[s] = "dropped", place'[r] = "raw",
               Bucket("day", recorded[s]) = Bucket("day", recorded[r])
        PROVE  r \in late
    <3>1. recorded[s] \in Nat /\ recorded[r] \in Nat /\ RawDays \in Nat /\ now \in Nat
      BY <1>0, TypeFacts, Bounds
    <3>2. Expired(recorded[r], RawDays, now)
      BY <2>1, <2>2, <3>1, DaysExpire, WidthFacts DEF Bucket
    <3> QED
      BY <1>5, <2>2, <3>2
  <2> QED
    BY <1>0, <2>1, <2>2 DEF DayInv
<1>14. HoldsInv'
  <2> SUFFICES ASSUME NEW s \in Samples, NEW j \in Intervals, place'[s] = "dropped", Timely(j, s)
               PROVE  Holds(j, s)
    BY <1>7, <1>9 DEF HoldsInv
  <2>1. CASE place[s] = "dropped"
    BY <1>0, <2>1 DEF HoldsInv
  <2>2. CASE place[s] = "raw" /\ Expired(recorded[s], RawDays, now)
    BY <1>0, <1>4, <1>10, <2>2 DEF SeenOf
  <2> QED
    BY <1>5, <2>1, <2>2
<1>15. ASSUME NEW v \in Workers PROVE CycleOf(v)'
  <2>1. CASE v = w
    <3>1. lock' # w
      BY <1>1, Bounds
    <3> QED
      BY <1>2, <1>3, <2>1, <3>1 DEF CycleOf
  <2>2. CASE v # w
    <3>1. worker'[v] = worker[v] /\ (Active(v)' <=> Active(v)) /\ CycleOf(v) /\ (lock' = v => lock = v)
      BY <1>0, <1>1, <1>3, <2>2, Bounds
    <3>2. worker[v].seen \subseteq Samples
      BY <1>0, TypeFacts
    <3> QED
      BY <1>1, <1>6, <3>1, <3>2 DEF CycleOf
  <2> QED
    BY <2>1, <2>2
<1>16. ASSUME NEW v \in Workers PROVE SeenOf(v)'
  <2>1. CASE v = w
    BY <1>3, <2>1 DEF SeenOf
  <2>2. CASE v # w
    <3>1. worker'[v] = worker[v] /\ (Active(v)' <=> Active(v)) /\ Written(v)' = Written(v)
      BY <1>3, <2>2
    <3> SUFFICES ASSUME NEW s \in Samples, Active(v), place'[s] = "raw"
        PROVE  /\ worker[v].open /\ Timely(worker[v].at, s)'
                    /\ Expired(recorded[s], RawDays, worker[v].began + 2) => s \in worker[v].seen
               /\ \A j \in Written(v) :
                    Timely(j, s)' /\ Expired(recorded[s], RawDays, worker[v].began + 1) => Holds(j, s)'
      BY <1>1, <3>1 DEF SeenOf, Expired, Midnight
    <3>2. place[s] = "raw" /\ \A j \in Written(v) : j \in Intervals
      BY <1>5 DEF Written, Intervals
    <3>3. worker[v].open => worker[v].at \in Intervals
      BY <1>0 DEF CycleOf
    <3>4. worker[v].open /\ Timely(worker[v].at, s)' => Timely(worker[v].at, s)
      BY <1>7, <3>1, <3>3
    <3>5. \A j \in Written(v) : Timely(j, s)' => Timely(j, s)
      BY <1>7, <3>2
    <3>6. worker[v].open /\ Timely(worker[v].at, s)
            /\ Expired(recorded[s], RawDays, worker[v].began + 2) => s \in worker[v].seen
      BY <1>0, <3>2 DEF SeenOf
    <3>7. \A j \in Written(v) :
            Timely(j, s) /\ Expired(recorded[s], RawDays, worker[v].began + 1) => Holds(j, s)'
      BY <1>0, <1>9, <3>2 DEF SeenOf
    <3> QED
      BY <3>4, <3>5, <3>6, <3>7
  <2> QED
    BY <2>1, <2>2
<1>17. ASSUME NEW v \in Workers PROVE SparesOf(v)'
  <2>1. CASE v = w
    BY <1>2, <1>3, <2>1 DEF SparesOf
  <2>2. CASE v # w
    <3>1. worker'[v] = worker[v]
      BY <1>3, <2>2
    <3> SUFFICES ASSUME NEW s \in Samples, NEW j \in Intervals, place'[s] = "dropped", Timely(j, s),
                        worker[v].open, worker[v].at = j
        PROVE  s \in worker[v].seen \/ In(worker[v].seen, j, Bucket(j, recorded[s])) = {}
      BY <1>1, <1>7, <3>1 DEF SparesOf, Bucket
    <3>2. CASE place[s] = "dropped"
      BY <1>0, <3>2 DEF SparesOf
    <3>3. CASE place[s] = "raw" /\ Expired(recorded[s], RawDays, now)
      <4>1. Active(v)
        BY <1>0 DEF CycleOf, Active, Intervals
      <4> QED
        BY <1>0, <1>10, <3>3, <4>1 DEF SeenOf
    <3> QED
      BY <1>5, <3>2, <3>3
  <2> QED
    BY <2>1, <2>2
<1>18. ASSUME NEW v \in Workers PROVE AloneOf(v)'
  <2>1. CASE v = w
    BY <1>2, <1>3, <2>1 DEF AloneOf
  <2>2. CASE v # w
    <3>1. Active(v) => worker[v].exposed
      BY <1>0, <1>4, <2>2 DEF AloneOf
    <3>2. worker[v].open => Active(v)
      BY <1>0 DEF CycleOf, Active, Intervals
    <3> QED
      BY <1>3, <2>2, <3>1, <3>2 DEF AloneOf
  <2> QED
    BY <2>1, <2>2
<1> QED
  BY <1>11, <1>12, <1>13, <1>14, <1>15, <1>16, <1>17, <1>18, ByWorkerNext
-----------------------------------------------------------------------------
(* The invariant, and what follows from it.                                 *)

LEMMA InitInv ==
  ASSUME Init
  PROVE  IInv
<1>1. /\ now = 0 /\ recorded = [s \in Samples |-> 0] /\ place = [s \in Samples |-> "none"]
      /\ agg = [i \in Intervals |-> [b \in Buckets(i) |-> {}]]
      /\ lock = None /\ worker = [w \in Workers |-> Idle] /\ late = {} /\ losses = 0
  BY DEF Init
<1>2. /\ Idle \in WorkerType /\ Idle.at = "idle" /\ ~Idle.open /\ Idle.seen = {} /\ ~Idle.exposed
  BY Bounds DEF Idle, WorkerType, Times
<1> HIDE DEF Idle
<1>3. \A w \in Workers : worker[w] = Idle /\ ~Active(w)
  BY <1>1, <1>2 DEF Active
<1>4. TypeOK
  <2>1. 0 \in Times /\ 0 \in 0..MaxLosses
    BY Bounds DEF Times
  <2>2. DOMAIN agg = Intervals /\ \A i \in Intervals : agg[i] \in [Buckets(i) -> SUBSET Samples]
    BY <1>1
  <2>3. worker \in [Workers -> WorkerType]
    BY <1>1, <1>2
  <2> QED
    BY <1>1, <2>1, <2>2, <2>3 DEF TypeOK, WorkerType
<1>5. AggInv
  <2>1. \A i \in Intervals : \A b \in Buckets(i) : agg[i][b] = {}
    BY <1>1
  <2> QED
    BY <2>1 DEF AggInv
<1>6. \A s \in Samples : place[s] = "none"
  BY <1>1
<1>7. DayInv /\ HoldsInv
  BY <1>1, <1>6 DEF DayInv, HoldsInv
<1>8. ASSUME NEW w \in Workers PROVE CycleOf(w) /\ SeenOf(w) /\ SparesOf(w) /\ AloneOf(w)
  BY <1>1, <1>2, <1>3, <1>6, Bounds DEF CycleOf, SeenOf, SparesOf, AloneOf
<1> QED
  BY <1>4, <1>5, <1>7, <1>8, ByWorker

LEMMA StutterKeeps ==
  ASSUME IInv, UNCHANGED vars
  PROVE  IInv'
<1>1. /\ UNCHANGED <<now, recorded, place, agg, late>>
      /\ UNCHANGED <<lock, worker, losses>>
  BY DEF vars
<1>2. TypeOK'
  BY <1>1 DEF IInv, TypeOK, Times, Buckets, Bucket
<1>3. AggInv' /\ DayInv'
  BY <1>1, SamplesStand DEF IInv
<1>4. CycleInv'
  BY <1>1 DEF IInv, CycleInv, Active, Stored
<1>5. SeenInv'
  BY <1>1 DEF IInv, SeenInv, Active, Timely, Stored, Overwritten, In, Bucket, Written, Holds,
              Expired, Midnight
<1>6. DroppedInv'
  BY <1>1 DEF IInv, DroppedInv, Timely, Stored, Overwritten, In, Bucket, Holds, Expired, Midnight
<1>7. AloneInv'
  BY <1>1 DEF IInv, AloneInv, Active, Raw, Buckets, Bucket
<1> QED
  BY <1>2, <1>3, <1>4, <1>5, <1>6, <1>7 DEF IInv

LEMMA NextKeeps ==
  ASSUME IInv, [Next]_vars
  PROVE  IInv'
<1>1. CASE \E s \in Samples, t \in Times : StoreSample(s, t)
  BY <1>1, StoreSampleKeeps
<1>2. ASSUME NEW w \in Workers, Step(w) PROVE IInv'
  BY <1>2, StartCycleKeeps, ReadSamplesKeeps, WriteRollupKeeps, ApplyRetentionKeeps,
     FailCycleKeeps, LoseSessionKeeps DEF Step
<1>3. CASE Tick
  BY <1>3, TickKeeps
<1>4. CASE UNCHANGED vars
  BY <1>4, StutterKeeps
<1> QED
  BY <1>1, <1>2, <1>3, <1>4 DEF Next

\* Whatever is stored, whichever cycles fail, overlap or lose their lock, a sample
\* whose raw row a cycle may drop is in the aggregates the cycle has written.
THEOREM Invariance == Spec => []IInv
  BY InitInv, NextKeeps, PTL DEF Spec

\* The clock, the samples, the aggregates and the cycles keep their types.
THEOREM TypeCorrect == Spec => []TypeOK
<1>1. IInv => TypeOK
  BY DEF IInv
<1> QED
  BY <1>1, Invariance, PTL

\* A sample that came in time is in its hourly and daily aggregates when its raw
\* row is gone, until these expire, unless a late sample of its bucket replaced
\* them (run_metric_maintenance, migration 0023; maintenance.py, run_once).
THEOREM TimelySummarised == Spec => []TimelySamplesSummarised
<1>1. IInv => TimelySamplesSummarised
  BY DEF IInv, DroppedInv, TimelySamplesSummarised, Timely, Stored, Holds
<1> QED
  BY <1>1, Invariance, PTL

\* A roll-up by a worker that runs alone reads what its aggregates have, unless that
\* is dropped, and then its bucket has no samples left but late ones.
LEMMA WriteRollupGrows ==
  ASSUME IInv, NEW w \in Workers, WriteRollup(w), ~worker[w].exposed,
         NEW i \in Intervals, NEW b \in Buckets(i), ~Overwritten(i, b)
  PROVE  agg[i][b] \subseteq agg'[i][b]
<1>0. TypeOK /\ AggInv /\ DayInv /\ AloneOf(w)
  BY ByWorker
<1>1. /\ worker[w].open
      /\ agg' = [agg EXCEPT ![worker[w].at] = Upsert(worker[w].at, worker[w].seen)]
  BY DEF WriteRollup
<1>2. DOMAIN agg = Intervals
  BY <1>0 DEF TypeOK
<1>3. CASE i # worker[w].at
  BY <1>1, <1>2, <1>3
<1>4. CASE i = worker[w].at
  <2>1. agg'[i][b] = IF In(worker[w].seen, i, b) # {} THEN In(worker[w].seen, i, b) ELSE agg[i][b]
    BY <1>1, <1>2, <1>4 DEF Upsert
  <2> SUFFICES ASSUME NEW x \in agg[i][b], NEW y \in worker[w].seen, Bucket(i, recorded[y]) = b
               PROVE  x \in worker[w].seen /\ Bucket(i, recorded[x]) = b
    BY <2>1 DEF In
  <2>2. x \in Samples /\ Stored(x) /\ Bucket(i, recorded[x]) = b
    BY <1>0 DEF TypeOK, AggInv
  <2>3. y \in Samples /\ place[y] = "raw"
    BY <1>0, <1>1 DEF AloneOf, Raw
  <2>4. CASE place[x] = "raw"
    BY <1>0, <1>1, <1>4, <2>2, <2>4 DEF AloneOf, Raw
  <2>5. CASE place[x] = "dropped"
    <3>1. recorded[x] \in Times /\ recorded[y] \in Times
      BY <1>0, <2>2, <2>3, TypeFacts
    <3>2. Bucket("day", recorded[x]) = Bucket("day", recorded[y])
      BY <2>2, <3>1, BucketFacts
    <3>3. y \in late
      BY <1>0, <2>2, <2>3, <2>5, <3>2 DEF DayInv
    <3> QED
      BY <3>3 DEF Overwritten, In
  <2> QED
    BY <1>0, <2>2, <2>4, <2>5, TypeFacts DEF Stored
<1> QED
  BY <1>3, <1>4

\* No step of a cycle takes a sample out of an aggregate that has not expired, as long
\* as cycles keep their lock and no late sample comes to its bucket (run_downsampling).
THEOREM AggregatesGrow == Spec => AggregatesOnlyGrow
<1> DEFINE Grow ==
      \A i \in Intervals : \A b \in Buckets(i) :
        \/ agg[i][b] \subseteq agg'[i][b]
        \/ Expired(b * Width[i], Keep[i], now)
        \/ Overwritten(i, b)
        \/ \E w \in Workers : worker[w].exposed
<1>1. ASSUME IInv, [Next]_vars PROVE Grow \/ UNCHANGED vars
  <2> SUFFICES ASSUME NEW i \in Intervals, NEW b \in Buckets(i),
                      ~Expired(b * Width[i], Keep[i], now), ~Overwritten(i, b),
                      \A w \in Workers : ~worker[w].exposed, Next
               PROVE  agg[i][b] \subseteq agg'[i][b]
    BY <1>1
  <2>1. CASE agg' = agg
    BY <2>1
  <2>2. ASSUME NEW w \in Workers, WriteRollup(w) PROVE agg[i][b] \subseteq agg'[i][b]
    BY <1>1, <2>2, WriteRollupGrows
  <2>3. ASSUME NEW w \in Workers, ApplyRetention(w) PROVE agg[i][b] \subseteq agg'[i][b]
    BY <2>3 DEF ApplyRetention
  <2> QED
    BY <2>1, <2>2, <2>3
       DEF Next, Step, StoreSample, StartCycle, ReadSamples, FailCycle, LoseSession, Tick
<1>2. IInv /\ [Next]_vars => [Grow]_vars
  BY <1>1
<1> QED
  BY <1>2, Invariance, PTL DEF Spec, AggregatesOnlyGrow
=============================================================================
