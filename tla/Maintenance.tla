---------------------------- MODULE Maintenance ----------------------------
(***************************************************************************)
(* Roll-ups and retention of the samples of one series: the raw samples of *)
(* one metric of one device, and their hourly and daily aggregates.        *)
(*                                                                         *)
(* Every API process has a maintenance worker; an advisory lock, held by a *)
(* database session that does nothing else, elects the one that runs the   *)
(* day's cycle.  An aggregate is known by the samples it summarises; their *)
(* count, minimum, maximum and average follow.  The clock counts hours.    *)
(***************************************************************************)
EXTENDS Naturals, FiniteSets

CONSTANTS
  Samples,     \* samples stored in the life of the instance
  Workers,     \* maintenance workers, one per API process
  DayLength,   \* hours of a day (24)
  RawDays,     \* RAW_RETENTION_DAYS (14)
  HourlyDays,  \* HOURLY_AGGREGATE_RETENTION_DAYS (90)
  DailyDays,   \* DAILY_AGGREGATE_RETENTION_DAYS (365)
  MaxTime,     \* bound on the clock
  MaxLosses,   \* bound on the sessions that are lost
  None

\* RawDays: a roll-up reads whole days, so that raw samples are kept for two at least.
ASSUME DaysAssumption == /\ DayLength \in Nat \ {0} /\ RawDays \in Nat \ {0, 1}
                         /\ {HourlyDays, DailyDays, MaxTime, MaxLosses} \subseteq Nat
ASSUME NoneAssumption == None \notin Workers

VARIABLES
  now,       \* clock
  recorded,  \* metric_samples.recorded_at
  place,     \* where a sample is: not stored yet, in metric_samples, or dropped
  agg,       \* metric_aggregates, by interval and bucket
  lock,      \* the worker whose session holds the advisory lock
  worker,    \* where each worker's cycle is
  late,      \* history: samples stored when their day was about to expire, or had
  losses     \* sessions lost

vars == <<now, recorded, place, agg, lock, worker, late, losses>>

Intervals == {"hour", "day"}
Width     == [hour |-> 1, day |-> DayLength]
Keep      == [hour |-> HourlyDays, day |-> DailyDays]
Times     == 0..MaxTime
Bucket(i, t) == t \div Width[i]
Buckets(i)   == 0..Bucket(i, MaxTime)

\* What the row of bucket b summarises, were it computed from the samples of S.
In(S, i, b) == {s \in S : Bucket(i, recorded[s]) = b}
Raw == {s \in Samples : place[s] = "raw"}

\* exposed is history: this cycle, or one it overlaps, has lost the lock.
Idle == [at |-> "idle", open |-> FALSE, seen |-> {}, began |-> 0, exposed |-> FALSE]

TypeOK ==
  /\ now \in Times
  /\ recorded \in [Samples -> Times]
  /\ place \in [Samples -> {"none", "raw", "dropped"}]
  /\ DOMAIN agg = Intervals /\ \A i \in Intervals : agg[i] \in [Buckets(i) -> SUBSET Samples]
  /\ lock \in Workers \cup {None}
  /\ worker \in [Workers -> [at : Intervals \cup {"idle", "retention"}, open : BOOLEAN,
                             seen : SUBSET Samples, began : Times, exposed : BOOLEAN]]
  /\ late \subseteq Samples
  /\ losses \in 0..MaxLosses
-----------------------------------------------------------------------------
Midnight(t) == (t \div DayLength) * DayLength

\* Before midnight of the day that lies `days` back.
Expired(t, days, time) == t + days * DayLength < Midnight(time)

\* Mutant of Outdated: to the hour instead of the day.
OutdatedByTheHour(s) == recorded[s] + RawDays * DayLength < now

Outdated(s) == Expired(recorded[s], RawDays, now)

\* The metric worker stores a sample, whenever its batch gets there.
StoreSample(s, t) ==
  /\ place[s] = "none"
  /\ place' = [place EXCEPT ![s] = "raw"]
  /\ recorded' = [recorded EXCEPT ![s] = t]
  /\ late' = IF Expired(t, RawDays, now + 2) THEN late \cup {s} ELSE late
  /\ UNCHANGED <<now, agg, lock, worker, losses>>

Begun == [Idle EXCEPT !.at = "hour", !.began = now,
                      !.exposed = \E v \in Workers : worker[v].exposed]

\* Mutant of StartCycle: whether the lock was acquired is not asked.
StartAnyway(w) ==
  /\ worker[w].at = "idle"
  /\ lock' = IF lock = None THEN w ELSE lock
  /\ worker' = [worker EXCEPT ![w] = Begun]
  /\ UNCHANGED <<now, recorded, place, agg, late, losses>>

StartCycle(w) ==
  /\ worker[w].at = "idle" /\ lock = None
  /\ lock' = w
  /\ worker' = [worker EXCEPT ![w] = Begun]
  /\ UNCHANGED <<now, recorded, place, agg, late, losses>>

\* The statement of a roll-up begins: it sees the samples committed by then.
ReadSamples(w) ==
  /\ worker[w].at \in Intervals /\ ~worker[w].open
  /\ LET old == {s \in Raw : recorded[s] + Width[worker[w].at] <= now} IN
     worker' = [worker EXCEPT ![w].open = TRUE, ![w].seen = old]
  /\ UNCHANGED <<now, recorded, place, agg, lock, late, losses>>

\* Mutant of Upsert: ON CONFLICT DO NOTHING.
InsertOnly(i, S) ==
  [b \in Buckets(i) |-> IF agg[i][b] = {} THEN In(S, i, b) ELSE agg[i][b]]

\* A bucket with samples is replaced, one without is left alone.
Upsert(i, S) == [b \in Buckets(i) |-> IF In(S, i, b) # {} THEN In(S, i, b) ELSE agg[i][b]]

\* ... and ends: hourly first, then daily, then retention.
WriteRollup(w) ==
  LET i == worker[w].at IN
  /\ worker[w].open
  /\ agg' = [agg EXCEPT ![i] = Upsert(i, worker[w].seen)]
  /\ worker' = [worker EXCEPT ![w].at = IF i = "hour" THEN "day" ELSE "retention",
                              ![w].open = FALSE, ![w].seen = {}]
  /\ UNCHANGED <<now, recorded, place, lock, late, losses>>

Release(w) == lock' = IF lock = w THEN None ELSE lock

\* run_metric_maintenance, in one transaction under a lock of its own.
ApplyRetention(w) ==
  /\ worker[w].at = "retention"
  /\ place' = [s \in Samples |->
       IF s \in Raw /\ Outdated(s) THEN "dropped" ELSE place[s]]
  /\ agg' = [i \in Intervals |-> [b \in Buckets(i) |->
       IF Expired(b * Width[i], Keep[i], now) THEN {} ELSE agg[i][b]]]
  /\ worker' = [worker EXCEPT ![w] = Idle]
  /\ Release(w)
  /\ UNCHANGED <<now, recorded, late, losses>>

\* An error ends the cycle, and so does the end of the process; the worker
\* starts another when it runs again.
FailCycle(w) ==
  /\ worker[w].at # "idle"
  /\ worker' = [worker EXCEPT ![w] = Idle]
  /\ Release(w)
  /\ UNCHANGED <<now, recorded, place, agg, late, losses>>

\* The session that holds the lock ends; the cycle has others and goes on.
LoseSession(w) ==
  /\ lock = w /\ losses < MaxLosses
  /\ lock' = None
  /\ losses' = losses + 1
  /\ worker' = [worker EXCEPT ![w].exposed = TRUE]
  /\ UNCHANGED <<now, recorded, place, agg, late>>
-----------------------------------------------------------------------------
Init ==
  /\ now = 0
  /\ recorded = [s \in Samples |-> 0]
  /\ place = [s \in Samples |-> "none"]
  /\ agg = [i \in Intervals |-> [b \in Buckets(i) |-> {}]]
  /\ lock = None
  /\ worker = [w \in Workers |-> Idle]
  /\ late = {}
  /\ losses = 0

\* A cycle takes an hour at most.
Tick ==
  /\ now < MaxTime
  /\ \A w \in Workers : worker[w].at # "idle" => worker[w].began = now
  /\ now' = now + 1
  /\ UNCHANGED <<recorded, place, agg, lock, worker, late, losses>>

Step(w) ==
  \/ StartCycle(w) \/ ReadSamples(w) \/ WriteRollup(w) \/ ApplyRetention(w)
  \/ FailCycle(w) \/ LoseSession(w)

Next ==
  \/ \E s \in Samples, t \in Times : StoreSample(s, t)
  \/ \E w \in Workers : Step(w)
  \/ Tick

Spec == Init /\ [][Next]_vars
-----------------------------------------------------------------------------
(* Properties.                                                              *)

Overwritten(i, b) == In(late, i, b) # {}

\* A sample that reached the server in time is in its aggregates when its raw row
\* is gone, for as long as these are kept, unless a sample of its bucket came when
\* the bucket's raw rows were going: whatever cycles fail, overlap, or lose their
\* lock (maintenance.py, run_once; migration 0023).
TimelySamplesSummarised ==
  \A s \in Samples \ late : place[s] = "dropped" =>
    \A i \in Intervals : LET b == Bucket(i, recorded[s]) IN
      s \in agg[i][b] \/ Expired(b * Width[i], Keep[i], now) \/ Overwritten(i, b)

\* While cycles keep their lock, an aggregate never loses a sample before it
\* expires: a partial bucket is only ever completed (run_downsampling).
AggregatesOnlyGrow ==
  [][\A i \in Intervals : \A b \in Buckets(i) :
       \/ agg[i][b] \subseteq agg'[i][b]
       \/ Expired(b * Width[i], Keep[i], now)
       \/ Overwritten(i, b)
       \/ \E w \in Workers : worker[w].exposed]_vars
-----------------------------------------------------------------------------
(* The inductive invariant behind the properties.                           *)

Active(w)  == worker[w].at # "idle"
Stored(s)  == place[s] # "none"
Holds(i, s) == LET b == Bucket(i, recorded[s]) IN
                 s \in agg[i][b] \/ Expired(b * Width[i], Keep[i], now)
\* Roll-ups a cycle has written.
Written(w) == CASE worker[w].at = "day" -> {"hour"}
                [] worker[w].at = "retention" -> Intervals
                [] OTHER -> {}
\* Whether all samples of s's bucket came in time.
Timely(i, s) == Stored(s) /\ s \notin late /\ ~Overwritten(i, Bucket(i, recorded[s]))

\* An aggregate summarises samples of its bucket that were over when they were read.
AggInv ==
  \A i \in Intervals : \A b \in Buckets(i) : \A s \in agg[i][b] :
    Stored(s) /\ Bucket(i, recorded[s]) = b /\ recorded[s] + Width[i] <= now

\* The raw samples of a day go together; one that is stored afterwards is late.
DayInv ==
  \A s, r \in Samples :
    /\ s \in late => Stored(s)
    /\ place[s] = "dropped" => Expired(recorded[s], RawDays, now)
    /\ place[s] = "dropped" /\ place[r] = "raw"
         /\ Bucket("day", recorded[s]) = Bucket("day", recorded[r]) => r \in late

\* A cycle and its statements begin no more than an hour before now.
CycleInv ==
  \A w \in Workers :
    /\ worker[w].open => worker[w].at \in Intervals
    /\ worker[w].exposed \/ lock = w => Active(w)
    /\ \A s \in worker[w].seen : Stored(s) /\ worker[w].open
                                 /\ recorded[s] + Width[worker[w].at] <= now
    /\ Active(w) => worker[w].began <= now /\ now <= worker[w].began + 1

\* A sample whose raw row the cycle may find outdated was stored before the cycle
\* began, so that its statements see it and its roll-ups have it.
SeenInv ==
  \A w \in Workers : \A s \in Samples : Active(w) /\ place[s] = "raw" =>
    /\ worker[w].open /\ Timely(worker[w].at, s) /\ Expired(recorded[s], RawDays, worker[w].began + 2) =>
         s \in worker[w].seen
    /\ \A i \in Written(w) :
         Timely(i, s) /\ Expired(recorded[s], RawDays, worker[w].began + 1) => Holds(i, s)

\* A dropped sample is in its aggregates, and a statement still open would put it back.
DroppedInv ==
  \A s \in Samples : \A i \in Intervals : place[s] = "dropped" /\ Timely(i, s) =>
    /\ Holds(i, s)
    /\ \A w \in Workers : worker[w].open /\ worker[w].at = i =>
         s \in worker[w].seen \/ In(worker[w].seen, i, Bucket(i, recorded[s])) = {}

\* A cycle that was never exposed runs alone, and sees all that its aggregates
\* have and is not dropped.
AloneInv ==
  \A w \in Workers :
    /\ Active(w) /\ ~worker[w].exposed => /\ lock = w
                                          /\ \A v \in Workers \ {w} : ~Active(v)
    /\ worker[w].open /\ ~worker[w].exposed =>
         /\ worker[w].seen \subseteq Raw
         /\ \A b \in Buckets(worker[w].at) : agg[worker[w].at][b] \cap Raw \subseteq worker[w].seen

IInv == TypeOK /\ AggInv /\ DayInv /\ CycleInv /\ SeenInv /\ DroppedInv /\ AloneInv
=============================================================================
