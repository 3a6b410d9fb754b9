------------------------------ MODULE AgentQueue ------------------------------
(***************************************************************************)
(* The agent's durable telemetry queue (LocalQueue over SQLite), the HTTP   *)
(* outcome policy that drains it (BatchDispatcher) and the loop that drives *)
(* both: collect and enqueue one batch, dispatch one batch, sleep.          *)
(*                                                                          *)
(* Samples are numbered in the order they are collected, so a batch is an   *)
(* interval of them; splitting a batch gives two intervals.  Each operation *)
(* of LocalQueue is one BEGIN IMMEDIATE transaction, hence one step; an     *)
(* operation that raises rolls back and ends the cycle.  Time is counted in *)
(* cycles of the loop: a row is due when its wait is over.                  *)
(*                                                                          *)
(* What the server answers is left open here: every HTTP outcome is         *)
(* possible.  Telemetry.tla puts the server behind it.                      *)
(***************************************************************************)
EXTENDS Naturals, Sequences, FiniteSets, FiniteSetsExt, SequencesExt

CONSTANTS
  BatchSizes,      \* samples a collection may produce
  PlainSize,       \* bytes of n samples compressed, for the queue
  SealedSize,      \* bytes of n samples encrypted, for the quarantine
  MaxQueue,        \* quota of queue plus quarantine (500 MiB in the code)
  MaxQuarantine,   \* quota of the quarantine (50 MiB)
  MaxDepth,        \* levels of splitting (3)
  Retention,       \* cycles a quarantined payload is kept (14 days)
  PollDelay,       \* cycles a batch the server holds is deferred
  MaxBackoff,      \* bound on the exponential retry delay, in cycles
  MaxSamples,      \* bound: samples collected in a behaviour
  DiskEvictions,   \* bound: rows the physical quota evicts at one insertion
  CanSeal,         \* is a PayloadProtector configured?
  CanRestart       \* may the process or its database file fail?

ASSUME SizesAssumption ==
  /\ BatchSizes \subseteq Nat \ {0}
  /\ {PlainSize, SealedSize} \subseteq [1..MaxSamples -> Nat]
ASSUME LimitsAssumption ==
  {MaxQueue, MaxQuarantine, MaxDepth, Retention, PollDelay, MaxBackoff,
   MaxSamples, DiskEvictions} \subseteq Nat
ASSUME FlagsAssumption == {CanSeal, CanRestart} \subseteq BOOLEAN

VARIABLES
  queue,         \* queued_batches in (created_at, rowid) order
  quarantine,    \* batch_quarantine and sample_quarantine
  collected,     \* samples collected and enqueued so far
  acknowledged,  \* samples of batches deleted as confirmed
  evicted,       \* samples of batches deleted by a quota, with an audit entry
  expired,       \* samples whose quarantine ran out, with an audit entry
  isolated,      \* samples in database files set aside as corrupt
  protected,     \* history: samples enqueued as critical
  pc,            \* the loop: "collect", "dispatch", "sending" or "sleeping"
  sending        \* the row read by dispatch_once, while its request is out

storeVars == <<queue, quarantine>>
fateVars  == <<acknowledged, evicted, expired, isolated>>
agentVars == <<storeVars, fateVars, collected, protected, pc, sending>>

Row == [first : Nat, last : Nat, critical : BOOLEAN, depth : Nat,
        attempts : Nat, wait : Nat]
Sealed == [first : Nat, last : Nat, left : Nat]
NoRow == [first |-> 1, last |-> 0, critical |-> FALSE, depth |-> 0,
          attempts |-> 0, wait |-> 0]

Samples(r) == r.first..r.last
Count(r)   == r.last + 1 - r.first
SamplesOf(rows) == UNION {Samples(r) : r \in rows}

\* The longest deferral.
MaxWait == Max({MaxBackoff + MaxBackoff \div 4, 4 * PollDelay})

AgentTypeOK ==
  /\ queue \in Seq(Row)
  /\ quarantine \subseteq Sealed
  /\ collected \in 0..MaxSamples
  /\ {acknowledged, evicted, expired, isolated, protected}
       \subseteq SUBSET (1..MaxSamples)
  /\ pc \in {"collect", "dispatch", "sending", "sleeping"}
  /\ sending \in Row
  /\ \A r \in ToSet(queue) : r.depth <= MaxDepth /\ r.wait <= MaxWait

AgentInit ==
  /\ queue = <<>>
  /\ quarantine = {}
  /\ collected = 0
  /\ acknowledged = {}
  /\ evicted = {}
  /\ expired = {}
  /\ isolated = {}
  /\ protected = {}
  /\ pc = "collect"
  /\ sending = NoRow
-----------------------------------------------------------------------------
(* Quotas.                                                                  *)

\* The bytes of a set of rows, each known by its row and its place there.
Bytes(rows, size) == Cardinality(UNION {{r} \X (1..size[Count(r)]) : r \in rows})

QueueBytes(q) == Bytes(ToSet(q), PlainSize)
QuarantineBytes(x) == Bytes(x, SealedSize)

\* The rows of q that are in S, in their order.
Kept(q, S) ==
  LET kept[n \in 0..Len(q)] ==
        IF n = 0 THEN <<>>
        ELSE IF q[n] \in S THEN Append(kept[n - 1], q[n]) ELSE kept[n - 1]
  IN  kept
Keep(q, S) == Kept(q, S)[Len(q)]

Periodic(q) == Keep(q, {r \in ToSet(q) : ~r.critical})

\* The queue without its k oldest periodic rows.
DropOldest(q, k) == Keep(q, ToSet(q) \ ToSet(SubSeq(Periodic(q), 1, k)))

\* Faulty variant of Enough: the quarantine is not counted.
EnoughForQueueOnly(q, x, required) ==
  {k \in 0..Len(Periodic(q)) : QueueBytes(DropOldest(q, k)) + required <= MaxQueue}

\* The numbers of evictions after which the payload fits under the quota.
Enough(q, x, required) ==
  {k \in 0..Len(Periodic(q)) :
     QueueBytes(DropOldest(q, k)) + QuarantineBytes(x) + required <= MaxQueue}

\* _make_room succeeds, and what it leaves of the queue.
HasRoom(q, x, required) == Enough(q, x, required) # {}
MakeRoom(q, x, required) == DropOldest(q, Min(Enough(q, x, required)))
-----------------------------------------------------------------------------
(* Operations of LocalQueue.                                                *)

NewRow(first, n, critical) ==
  [first |-> first, last |-> first + n - 1, critical |-> critical,
   depth |-> 0, attempts |-> 0, wait |-> 0]

\* enqueue: make room, insert, then evict further periodic rows (perhaps the
\* new one) while the files exceed the physical quota.  Without room nothing
\* is stored and the caller drops the samples.
Enqueue(n, critical) ==
  LET room == MakeRoom(queue, quarantine, PlainSize[n])
      full == Append(room, NewRow(collected + 1, n, critical))
  IN
  IF HasRoom(queue, quarantine, PlainSize[n])
    THEN \E k \in 0..Min({DiskEvictions, Len(Periodic(full))}) :
           /\ queue' = DropOldest(full, k)
           /\ evicted' = evicted \cup
                (SamplesOf(ToSet(queue) \cup ToSet(full)) \ SamplesOf(ToSet(queue')))
           /\ collected' = collected + n
           /\ protected' = IF critical
                             THEN protected \cup (collected + 1)..(collected + n)
                             ELSE protected
    ELSE UNCHANGED <<queue, evicted, collected, protected>>

Without(r) == Keep(queue, ToSet(queue) \ {r})

\* acknowledge: the row is deleted.
Acknowledge(r) ==
  /\ queue' = Without(r)
  /\ acknowledged' = acknowledged \cup Samples(r)
  /\ UNCHANGED <<quarantine, evicted, expired, isolated>>

\* defer: one attempt more, and not before the delay.
Defer(r, delay) ==
  /\ queue' = [i \in DOMAIN queue |->
                 IF queue[i] = r
                   THEN [r EXCEPT !.attempts = IF @ < MaxBackoff THEN @ + 1 ELSE @,
                                  !.wait = delay]
                   ELSE queue[i]]
  /\ UNCHANGED <<quarantine, fateVars>>

\* Faulty variant of Child: a half does not inherit the flag of its parent.
ChildPeriodic(r, first, last) ==
  [r EXCEPT !.first = first, !.last = last, !.depth = @ + 1, !.attempts = 0,
            !.wait = 0, !.critical = FALSE]

Child(r, first, last) ==
  [r EXCEPT !.first = first, !.last = last, !.depth = @ + 1, !.attempts = 0,
            !.wait = 0]

\* Faulty variant of Split: the parent is deleted in a transaction of its own.
SplitNotAtomic(r) ==
  LET middle == r.first + (Count(r) \div 2)
      left   == Child(r, r.first, middle - 1)
      right  == Child(r, middle, r.last)
      fits   == HasRoom(Append(Without(r), left), quarantine, PlainSize[Count(right)])
  IN  /\ queue' = IF fits THEN Without(r) \o <<left, right>> ELSE Without(r)
      /\ UNCHANGED <<quarantine, fateVars>>

\* split: the parent is replaced by its two halves at the end of the queue,
\* each of which may need room; without it everything rolls back.
Split(r) ==
  LET middle == r.first + (Count(r) \div 2)
      left   == Child(r, r.first, middle - 1)
      right  == Child(r, middle, r.last)
      size(c) == PlainSize[Count(c)]
      one    == Append(MakeRoom(Without(r), quarantine, size(left)), left)
  IN
  IF /\ HasRoom(Without(r), quarantine, size(left))
     /\ HasRoom(one, quarantine, size(right))
    THEN /\ queue' = Append(MakeRoom(one, quarantine, size(right)), right)
         /\ evicted' = evicted \cup
              (SamplesOf(ToSet(queue)) \ SamplesOf(ToSet(queue')))
         /\ UNCHANGED <<quarantine, acknowledged, expired, isolated>>
    ELSE UNCHANGED <<storeVars, fateVars>>

Outdated == {x \in quarantine : x.left = 0}

\* _purge_expired: quarantined payloads past their retention are deleted.
PurgeExpired ==
  /\ quarantine' = quarantine \ Outdated
  /\ expired' = expired \cup SamplesOf(Outdated)

\* quarantine_batch and quarantine_sample: encrypt, purge what is outdated, and
\* move the row within both quotas, in one transaction.
Quarantine(r) ==
  LET kept == quarantine \ Outdated
      size == SealedSize[Count(r)]
  IN
  IF /\ CanSeal
     /\ HasRoom(Without(r), kept, size)
     /\ QuarantineBytes(kept) + size <= MaxQuarantine
    THEN /\ queue' = MakeRoom(Without(r), kept, size)
         /\ quarantine' = kept \cup
              {[first |-> r.first, last |-> r.last, left |-> Retention]}
         /\ expired' = expired \cup SamplesOf(Outdated)
         /\ evicted' = evicted \cup
              (SamplesOf(ToSet(queue)) \ (Samples(r) \cup SamplesOf(ToSet(queue'))))
         /\ UNCHANGED <<acknowledged, isolated>>
    ELSE UNCHANGED <<storeVars, fateVars>>
-----------------------------------------------------------------------------
(* The loop and the outcomes of dispatch_once.                              *)

\* collect_and_enqueue; QueueCapacityExceeded does not stop the loop.
Collect(n, critical) ==
  /\ pc = "collect"
  /\ collected + n <= MaxSamples
  /\ Enqueue(n, critical)
  /\ pc' = "dispatch"
  /\ UNCHANGED <<quarantine, acknowledged, expired, isolated, sending>>

\* Bound: the collector has nothing more to report.
CollectNothing ==
  /\ pc = "collect"
  /\ \A n \in BatchSizes : collected + n > MaxSamples
  /\ pc' = "dispatch"
  /\ UNCHANGED <<storeVars, fateVars, collected, protected, sending>>

Due == Keep(queue, {r \in ToSet(queue) : r.wait = 0})

\* next_batch: the oldest due row, if any, is read and sent.
StartDispatch ==
  /\ pc = "dispatch"
  /\ IF Due = <<>>
       THEN pc' = "sleeping" /\ UNCHANGED sending
       ELSE pc' = "sending" /\ sending' = Head(Due)
  /\ UNCHANGED <<storeVars, fateVars, collected, protected>>

Answered == /\ pc = "sending"
            /\ pc' = "sleeping"
            /\ sending' = NoRow
            /\ UNCHANGED <<collected, protected>>

\* HTTP 200 with no status or PROCESSED.
Confirmed == Answered /\ Acknowledge(sending)

\* HTTP 202, or 200 with RECEIVED or PROCESSING: the row is kept and polled.
Accepted == Answered /\ Defer(sending, PollDelay)

\* HTTP 200 with any other status.
Retained == Answered /\ Defer(sending, 2 * PollDelay)

\* No answer, 429 or a server error: exponential backoff with up to a quarter
\* of jitter.
Backoff(r) == LET base == Min({2 ^ Min({r.attempts, 6}), MaxBackoff})
              IN  base..(base + (base \div 4))
Retry == /\ Answered
         /\ \E delay \in Backoff(sending) : Defer(sending, delay)

\* Faulty variant of TooLarge: splitting has no limit.
AlwaysSplit ==
  /\ Answered
  /\ IF Count(sending) = 1 THEN Quarantine(sending) ELSE Split(sending)

\* HTTP 413: split, or quarantine what cannot be split.
TooLarge ==
  /\ Answered
  /\ IF Count(sending) = 1 \/ sending.depth >= MaxDepth
       THEN Quarantine(sending)
       ELSE Split(sending)

\* HTTP 422 and every other client error.
Rejected == Answered /\ Quarantine(sending)

Answer == Confirmed \/ Accepted \/ Retained \/ Retry \/ TooLarge \/ Rejected

\* time.sleep: the clock advances by one cycle.
Sleep ==
  /\ pc = "sleeping"
  /\ pc' = "collect"
  /\ queue' = [i \in DOMAIN queue |->
                 [queue[i] EXCEPT !.wait = IF @ > 0 THEN @ - 1 ELSE 0]]
  /\ quarantine' = {[x EXCEPT !.left = IF @ > 0 THEN @ - 1 ELSE 0] :
                      x \in quarantine}
  /\ UNCHANGED <<fateVars, collected, protected, sending>>

\* The process restarts.  The request in progress is forgotten.
Restart ==
  /\ CanRestart
  /\ pc' = "collect"
  /\ sending' = NoRow
  /\ UNCHANGED <<storeVars, fateVars, collected, protected>>

\* _isolate_if_corrupt: at a restart, a database file that fails its integrity
\* check is set aside whole and the queue starts empty.
RestartCorrupt ==
  /\ CanRestart
  /\ pc' = "collect"
  /\ sending' = NoRow
  /\ isolated' = isolated \cup SamplesOf(ToSet(queue) \cup quarantine)
  /\ queue' = <<>>
  /\ quarantine' = {}
  /\ UNCHANGED <<acknowledged, evicted, expired, collected, protected>>

\* purge_expired_quarantine, a public operation the loop does not call.
PurgeExpiredQuarantine ==
  /\ pc = "sleeping"
  /\ PurgeExpired
  /\ UNCHANGED <<queue, acknowledged, evicted, isolated, collected, protected,
                 pc, sending>>

\* Faulty variant of Reconcile: an exhausted batch is given up without waiting
\* for the operator's decision.
ReconcileGivesUp(r, remote) ==
  /\ pc = "sleeping"
  /\ IF remote \in {"PROCESSED", "PURGE_LOCAL", "DLQ_EXHAUSTED"}
       THEN Acknowledge(r)
       ELSE Defer(r, PollDelay)
  /\ UNCHANGED <<collected, protected, pc, sending>>

\* reconcile_status, a public operation the loop does not call: the row is
\* acknowledged on a final status and deferred on any other.
Reconcile(r, remote) ==
  /\ pc = "sleeping"
  /\ CASE remote \in {"PROCESSED", "PURGE_LOCAL"} -> Acknowledge(r)
       [] remote \in {"RECEIVED", "PROCESSING", "AWAITING_REUPLOAD"} ->
            Defer(r, PollDelay)
       [] remote = "DLQ" -> Defer(r, 2 * PollDelay)
       [] remote = "DLQ_EXHAUSTED" -> Defer(r, 4 * PollDelay)
  /\ UNCHANGED <<collected, protected, pc, sending>>
-----------------------------------------------------------------------------
RemoteStatus == {"RECEIVED", "PROCESSING", "PROCESSED", "DLQ",
                 "AWAITING_REUPLOAD", "DLQ_EXHAUSTED", "PURGE_LOCAL"}

AgentNext ==
  \/ \E n \in BatchSizes, critical \in BOOLEAN : Collect(n, critical)
  \/ CollectNothing
  \/ StartDispatch
  \/ Answer
  \/ Sleep
  \/ Restart
  \/ RestartCorrupt
  \/ PurgeExpiredQuarantine
  \/ \E r \in ToSet(queue), remote \in RemoteStatus : Reconcile(r, remote)

AgentSpec == AgentInit /\ [][AgentNext]_agentVars
-----------------------------------------------------------------------------
(* Properties.                                                              *)

\* How many places hold sample s.
Homes(s) ==
    Cardinality({i \in DOMAIN queue : s \in Samples(queue[i])})
  + Cardinality({x \in quarantine : s \in Samples(x)})
  + Cardinality({fate \in {1, 2, 3, 4} :
                   s \in <<acknowledged, evicted, expired, isolated>>[fate]})

\* No sample is lost or duplicated on the way: through evictions, splits,
\* rollbacks, quarantine and restarts, every enqueued sample is in exactly one
\* queued batch, in quarantine, or gone for exactly one recorded reason.
SamplesConserved == \A s \in 1..MaxSamples : Homes(s) = IF s <= collected THEN 1 ELSE 0

\* Queue and quarantine share one quota, and the quarantine has its own, after
\* every operation: also when a rejected batch grows by being encrypted or two
\* halves are larger than their parent.
WithinQuotas ==
  /\ QueueBytes(queue) + QuarantineBytes(quarantine) <= MaxQueue
  /\ QuarantineBytes(quarantine) <= MaxQuarantine

\* Neither quota ever evicts a critical sample, and splitting a critical batch
\* does not make its halves evictable.
CriticalNeverEvicted == evicted \cap protected = {}
-----------------------------------------------------------------------------
(* The inductive invariant behind the properties above.                     *)

\* Who awaits an answer has its row in the queue.
SendingInv == pc = "sending" => sending \in ToSet(queue)

\* A row or a sealed payload holds some of the samples collected so far.
Sound(r) == 1 <= r.first /\ r.first <= r.last /\ r.last <= collected

Disjoint(rows) == \A r, x \in rows : r # x => Samples(r) \cap Samples(x) = {}

\* No row is queued twice.
Distinct(q) == \A i, j \in DOMAIN q : q[i] = q[j] => i = j

StoreInv ==
  /\ \A r \in ToSet(queue) \cup quarantine : Sound(r)
  /\ Distinct(queue)
  /\ Disjoint(ToSet(queue))
  /\ Disjoint(quarantine)
  /\ IsFiniteSet(quarantine)

\* A sample collected is in the queue, in quarantine, or gone for one reason.
InQueue      == SamplesOf(ToSet(queue))
InQuarantine == SamplesOf(quarantine)
Gone         == acknowledged \cup evicted \cup expired \cup isolated

PlacesInv ==
  /\ InQueue \cup InQuarantine \cup Gone = 1..collected
  /\ InQueue \cap InQuarantine = {}
  /\ (InQueue \cup InQuarantine) \cap Gone = {}
  /\ acknowledged \cap (evicted \cup expired \cup isolated) = {}
  /\ evicted \cap (expired \cup isolated) = {}
  /\ expired \cap isolated = {}

\* A row is critical when its samples are.
CriticalInv ==
  /\ protected \subseteq 1..collected
  /\ \A r \in ToSet(queue) : IF r.critical THEN Samples(r) \subseteq protected
                                           ELSE Samples(r) \cap protected = {}

AgentInv == /\ AgentTypeOK
            /\ SendingInv
            /\ StoreInv
            /\ PlacesInv
            /\ CriticalInv
            /\ CriticalNeverEvicted
            /\ WithinQuotas
=============================================================================
