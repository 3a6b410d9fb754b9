---------------------------- MODULE MetricBatches ----------------------------
(***************************************************************************)
(* The server side of the telemetry pipeline: the table metric_batches, the *)
(* HTTP handlers that write it and the workers that drain it.               *)
(*                                                                          *)
(* A batch is one row.  The agent inserts it (ingest_batch) and may replace *)
(* the payload of a row that an operator reopened (reupload_batch).  A      *)
(* worker claims a RECEIVED row in one transaction and stores its samples   *)
(* in a second one; between the two it can fail or disappear.  After        *)
(* MaxRetry failures the row is parked (DLQ); an operator may reopen it     *)
(* MaxReprocess times (authorize_retry), after which it is exhausted and    *)
(* only a decision about the agent's copy can be taken.                     *)
(*                                                                          *)
(* A transaction that only another row's lock can delay is one step.  Those *)
(* whose intermediate state another transaction can see are two: the claim  *)
(* (it holds the row lock that SKIP LOCKED skips), the operator's retry     *)
(* (likewise), and the decision, whose SELECT reads the previous decision   *)
(* from the snapshot taken when the statement starts, before it obtains the *)
(* row lock.                                                                *)
(***************************************************************************)
EXTENDS Naturals

CONSTANTS
  Batches,        \* batch identifiers of one organization
  Digests,        \* payloads, named by their SHA-256 digest
  NoDigest,       \* SQL NULL in payload_digest / payload_json
  Workers,        \* concurrent MetricBatchWorker loops
  Operators,      \* concurrent operator requests
  Free,           \* no transaction holds the row lock
  NoBatch,        \* an idle worker or operator holds no row
  MaxRetry,       \* failures before a batch is parked (3 in the code)
  MaxReprocess,   \* times a parked batch may be reopened (3 in the code)
  MaxCalls,       \* bound: inserted rows plus operator requests
  CrashAllowed    \* may a worker disappear between its transactions?

ASSUME RetryAssumption    == MaxRetry \in Nat \ {0}
ASSUME ReprocessAssumption == MaxReprocess \in Nat
ASSUME CallsAssumption    == MaxCalls \in Nat
ASSUME CrashAssumption    == CrashAllowed \in BOOLEAN
ASSUME NamesAssumption    == /\ NoDigest \notin Digests
                             /\ NoBatch \notin Batches
                             /\ Free \notin Workers \cup Operators
                             /\ Workers \cap Operators = {}

Status == {"ABSENT", "RECEIVED", "PROCESSING", "PROCESSED", "DLQ",
           "AWAITING_REUPLOAD", "DLQ_EXHAUSTED"}
Decision == {"PURGE_LOCAL", "RETAIN"}
NoDecision == "NONE"

VARIABLES
  \* metric_batches, one row per batch
  status, retry, reprocess, digest, payload,
  received,       \* received_at: the order of insertion
  samples,        \* metric_samples: the payloads stored for each batch
  alert,          \* the alert of an exhausted batch exists
  decision,       \* METRIC_BATCH.DECISION audit entry with the last created_at
  rowLock,        \* holder of each row's lock between two steps
  wpc, wbatch, wpayload,    \* each worker: where it is, claimed row and payload
  opc, oreq,      \* each operator: where it is, its request
  calls,          \* logical clock: transactions stamped with CURRENT_TIMESTAMP
  failures        \* history: failed processing attempts of each batch

rowVars == <<status, retry, reprocess, digest, payload, received>>
workerVars == <<wpc, wbatch, wpayload>>
operatorVars == <<opc, oreq>>
vars == <<rowVars, samples, alert, decision, rowLock, workerVars,
          operatorVars, calls, failures>>

Entry == [action : Decision \cup {NoDecision}, at : Nat]
NoEntry == [action |-> NoDecision, at |-> 0]
Request == [batch : Batches \cup {NoBatch}, action : Decision,
            seen : Decision \cup {NoDecision}, at : Nat]
NoRequest == [batch |-> NoBatch, action |-> "RETAIN", seen |-> NoDecision,
              at |-> 0]

TypeOK ==
  /\ status    \in [Batches -> Status]
  /\ retry     \in [Batches -> 0..MaxRetry]
  /\ reprocess \in [Batches -> 0..MaxReprocess]
  /\ digest    \in [Batches -> Digests \cup {NoDigest}]
  /\ payload   \in [Batches -> Digests \cup {NoDigest}]
  /\ received  \in [Batches -> Nat]
  /\ samples   \in [Batches -> SUBSET Digests]
  /\ alert     \in [Batches -> BOOLEAN]
  /\ decision  \in [Batches -> Entry]
  /\ rowLock   \in [Batches -> Workers \cup Operators \cup {Free}]
  /\ wpc       \in [Workers -> {"idle", "selected", "claimed", "failing"}]
  /\ wbatch    \in [Workers -> Batches \cup {NoBatch}]
  /\ wpayload  \in [Workers -> Digests \cup {NoDigest}]
  /\ opc       \in [Operators -> {"idle", "retrying", "deciding"}]
  /\ oreq      \in [Operators -> Request]
  /\ calls     \in Nat
  /\ failures  \in [Batches -> Nat]
-----------------------------------------------------------------------------
Init ==
  /\ status    = [b \in Batches |-> "ABSENT"]
  /\ retry     = [b \in Batches |-> 0]
  /\ reprocess = [b \in Batches |-> 0]
  /\ digest    = [b \in Batches |-> NoDigest]
  /\ payload   = [b \in Batches |-> NoDigest]
  /\ received  = [b \in Batches |-> 0]
  /\ samples   = [b \in Batches |-> {}]
  /\ alert     = [b \in Batches |-> FALSE]
  /\ decision  = [b \in Batches |-> NoEntry]
  /\ rowLock   = [b \in Batches |-> Free]
  /\ wpc       = [w \in Workers |-> "idle"]
  /\ wbatch    = [w \in Workers |-> NoBatch]
  /\ wpayload  = [w \in Workers |-> NoDigest]
  /\ opc       = [o \in Operators |-> "idle"]
  /\ oreq      = [o \in Operators |-> NoRequest]
  /\ calls     = 0
  /\ failures  = [b \in Batches |-> 0]
-----------------------------------------------------------------------------
(* Handlers of the agent.                                                   *)

\* Faulty variant of IngestBatch: ON CONFLICT DO UPDATE.
IngestUpserts(b, d) ==
  /\ calls < MaxCalls
  /\ status[b] \in {"ABSENT", "RECEIVED"}
  /\ status'   = [status EXCEPT ![b] = "RECEIVED"]
  /\ digest'   = [digest EXCEPT ![b] = d]
  /\ payload'  = [payload EXCEPT ![b] = d]
  /\ received' = [received EXCEPT ![b] = calls]
  /\ calls'    = calls + 1
  /\ UNCHANGED <<retry, reprocess, samples, alert, decision, rowLock,
                 workerVars, operatorVars, failures>>

\* INSERT ... ON CONFLICT DO NOTHING.  A batch that exists is left as it is,
\* whether the digest matches (duplicate receipt) or not (409).
IngestBatch(b, d) ==
  /\ calls < MaxCalls
  /\ status[b] = "ABSENT"
  /\ status'   = [status EXCEPT ![b] = "RECEIVED"]
  /\ digest'   = [digest EXCEPT ![b] = d]
  /\ payload'  = [payload EXCEPT ![b] = d]
  /\ received' = [received EXCEPT ![b] = calls]
  /\ calls'    = calls + 1
  /\ UNCHANGED <<retry, reprocess, samples, alert, decision, rowLock,
                 workerVars, operatorVars, failures>>

\* Faulty variant of ReuploadBatch: any payload is taken for the first one.
ReuploadAnyPayload(b, d) ==
  /\ status[b] = "AWAITING_REUPLOAD"
  /\ rowLock[b] = Free
  /\ status'  = [status EXCEPT ![b] = "RECEIVED"]
  /\ payload' = [payload EXCEPT ![b] = d]
  /\ UNCHANGED <<retry, reprocess, digest, received, samples, alert, decision,
                 rowLock, workerVars, operatorVars, calls, failures>>

\* Faulty variant of ReuploadBatch: the row is reopened without its payload.
ReuploadWithoutPayload(b, d) ==
  /\ status[b] = "AWAITING_REUPLOAD"
  /\ rowLock[b] = Free
  /\ digest[b] = d
  /\ status'  = [status EXCEPT ![b] = "RECEIVED"]
  /\ UNCHANGED <<retry, reprocess, digest, payload, received, samples, alert,
                 decision, rowLock, workerVars, operatorVars, calls, failures>>

\* Only the same payload, and only while the row awaits it.
ReuploadBatch(b, d) ==
  /\ status[b] = "AWAITING_REUPLOAD"
  /\ rowLock[b] = Free
  /\ digest[b] = d
  /\ status'  = [status EXCEPT ![b] = "RECEIVED"]
  /\ retry'   = [retry EXCEPT ![b] = 0]
  /\ payload' = [payload EXCEPT ![b] = d]
  /\ UNCHANGED <<reprocess, digest, received, samples, alert, decision,
                 rowLock, workerVars, operatorVars, calls, failures>>
-----------------------------------------------------------------------------
(* The worker.                                                              *)

\* process_next_batch ends: its local variables are gone.
LeaveBatch(w) ==
  /\ wpc'      = [wpc EXCEPT ![w] = "idle"]
  /\ wbatch'   = [wbatch EXCEPT ![w] = NoBatch]
  /\ wpayload' = [wpayload EXCEPT ![w] = NoDigest]

\* Faulty variant of Claimable: the row lock is not looked at.
ClaimableUnlocked == {b \in Batches : status[b] = "RECEIVED"}

Claimable == {b \in Batches : status[b] = "RECEIVED" /\ rowLock[b] = Free}

\* SELECT ... ORDER BY received_at, id FOR UPDATE SKIP LOCKED LIMIT 1.
SelectBatch(w, b) ==
  /\ wpc[w] = "idle"
  /\ b \in Claimable
  /\ \A c \in Claimable : received[b] <= received[c]
  /\ rowLock'  = [rowLock EXCEPT ![b] = w]
  /\ wpc'      = [wpc EXCEPT ![w] = "selected"]
  /\ wbatch'   = [wbatch EXCEPT ![w] = b]
  /\ wpayload' = [wpayload EXCEPT ![w] = payload[b]]
  /\ UNCHANGED <<rowVars, samples, alert, decision, operatorVars, calls,
                 failures>>

\* UPDATE ... SET status = 'PROCESSING' WHERE status = 'RECEIVED'; COMMIT.
ClaimBatch(w) ==
  LET b == wbatch[w] IN
  /\ wpc[w] = "selected"
  /\ status'  = [status EXCEPT ![b] = IF @ = "RECEIVED" THEN "PROCESSING"
                                                        ELSE @]
  /\ rowLock' = [rowLock EXCEPT ![b] = Free]
  /\ wpc'     = [wpc EXCEPT ![w] = "claimed"]
  /\ UNCHANGED <<retry, reprocess, digest, payload, received, samples, alert,
                 decision, wbatch, wpayload, operatorVars, calls, failures>>

\* The second transaction: re-check the row, insert the samples, settle the
\* row, commit.  The commit may succeed and its acknowledgement be lost; the
\* worker then takes the error path although the row is settled.
StoreSamples(w) ==
  LET b == wbatch[w] IN
  /\ wpc[w] = "claimed"
  /\ wpayload[w] # NoDigest
  /\ rowLock[b] = Free
  /\ IF status[b] = "PROCESSING"
       THEN /\ samples' = [samples EXCEPT ![b] = @ \cup {wpayload[w]}]
            /\ status'  = [status EXCEPT ![b] = "PROCESSED"]
            /\ payload' = [payload EXCEPT ![b] = NoDigest]
            /\ \/ LeaveBatch(w)
               \/ /\ wpc' = [wpc EXCEPT ![w] = "failing"]
                  /\ UNCHANGED <<wbatch, wpayload>>
       ELSE /\ LeaveBatch(w)
            /\ UNCHANGED <<samples, status, payload>>
  /\ UNCHANGED <<retry, reprocess, digest, received, alert, decision,
                 rowLock, operatorVars, calls, failures>>

\* The stored payload does not validate, or the second transaction rolls back.
StoreFails(w) ==
  /\ wpc[w] = "claimed"
  /\ wpc' = [wpc EXCEPT ![w] = "failing"]
  /\ UNCHANGED <<rowVars, samples, alert, decision, rowLock, wbatch, wpayload,
                 operatorVars, calls, failures>>

\* next_failure_state: the retry counter and the status after one more failure.
NextFailureState(r, p) ==
  LET next == IF r + 1 < MaxRetry THEN r + 1 ELSE MaxRetry
  IN  [retry  |-> next,
       status |-> IF next < MaxRetry THEN "RECEIVED"
                  ELSE IF p >= MaxReprocess THEN "DLQ_EXHAUSTED" ELSE "DLQ"]

\* Faulty variant of RecordFailure: the status is not re-read.
RecordFailureBlindly(w) ==
  LET b    == wbatch[w]
      next == NextFailureState(retry[b], reprocess[b])
  IN
  /\ wpc[w] = "failing"
  /\ rowLock[b] = Free
  /\ LeaveBatch(w)
  /\ status'   = [status EXCEPT ![b] = next.status]
  /\ retry'    = [retry EXCEPT ![b] = next.retry]
  /\ failures' = [failures EXCEPT ![b] = @ + 1]
  /\ UNCHANGED <<reprocess, digest, payload, received, samples, alert, decision,
                 rowLock, operatorVars, calls>>

\* Faulty variant of RecordFailure: the batch is put back and not counted.
RequeueUncounted(w) ==
  /\ wpc[w] = "failing"
  /\ rowLock[wbatch[w]] = Free
  /\ LeaveBatch(w)
  /\ status' = [status EXCEPT ![wbatch[w]] = IF @ = "PROCESSING" THEN "RECEIVED" ELSE @]
  /\ UNCHANGED <<retry, reprocess, digest, payload, received, samples, alert,
                 decision, rowLock, operatorVars, calls, failures>>

\* record_processing_failure.  A row that is no longer PROCESSING is left alone.
RecordFailure(w) ==
  LET b    == wbatch[w]
      next == NextFailureState(retry[b], reprocess[b])
  IN
  /\ wpc[w] = "failing"
  /\ rowLock[b] = Free
  /\ LeaveBatch(w)
  /\ IF status[b] = "PROCESSING"
       THEN /\ status'   = [status EXCEPT ![b] = next.status]
            /\ retry'    = [retry EXCEPT ![b] = next.retry]
            /\ payload'  = [payload EXCEPT ![b] =
                              IF next.status = "RECEIVED" THEN @ ELSE NoDigest]
            /\ alert'    = [alert EXCEPT ![b] =
                              @ \/ next.status = "DLQ_EXHAUSTED"]
            /\ failures' = [failures EXCEPT ![b] = @ + 1]
       ELSE UNCHANGED <<status, retry, payload, alert, failures>>
  /\ UNCHANGED <<reprocess, digest, received, samples, decision, rowLock,
                 operatorVars, calls>>

\* The process dies, its task is cancelled, or the database refuses the failure
\* record.  An open claim rolls back; a committed one stays in the table.
AbandonBatch(w) ==
  /\ CrashAllowed
  /\ wpc[w] # "idle"
  /\ LeaveBatch(w)
  /\ rowLock' = [b \in Batches |-> IF rowLock[b] = w THEN Free ELSE rowLock[b]]
  /\ UNCHANGED <<rowVars, samples, alert, decision, operatorVars, calls,
                 failures>>
-----------------------------------------------------------------------------
(* Handlers of the console.                                                 *)

\* authorize_retry: SELECT ... FOR UPDATE, whatever the row's status.
LockForRetry(o, b) ==
  /\ calls < MaxCalls
  /\ opc[o] = "idle"
  /\ status[b] # "ABSENT"
  /\ rowLock[b] = Free
  /\ rowLock' = [rowLock EXCEPT ![b] = o]
  /\ opc'     = [opc EXCEPT ![o] = "retrying"]
  /\ oreq'    = [oreq EXCEPT ![o].batch = b]
  /\ calls'   = calls + 1
  /\ UNCHANGED <<rowVars, samples, alert, decision, workerVars, failures>>

\* Faulty variant of Reopenable: an exhausted batch is reopened as well.
ReopensExhausted(b) == status[b] \in {"DLQ", "DLQ_EXHAUSTED"}

Reopenable(b) == status[b] = "DLQ" /\ reprocess[b] < MaxReprocess

\* authorize_retry, once it holds the row: reopen it, answer that it is already
\* reopened, or refuse.
AuthorizeRetry(o) ==
  LET b == oreq[o].batch IN
  /\ opc[o] = "retrying"
  /\ opc'     = [opc EXCEPT ![o] = "idle"]
  /\ oreq'    = [oreq EXCEPT ![o] = NoRequest]
  /\ rowLock' = [rowLock EXCEPT ![b] = Free]
  /\ IF Reopenable(b)
       THEN /\ status'    = [status EXCEPT ![b] = "AWAITING_REUPLOAD"]
            /\ retry'     = [retry EXCEPT ![b] = 0]
            /\ reprocess' = [reprocess EXCEPT ![b] = @ + 1]
       ELSE UNCHANGED <<status, retry, reprocess>>
  /\ UNCHANGED <<digest, payload, received, samples, alert, decision,
                 workerVars, calls, failures>>

\* decide_exhausted_batch: the transaction starts (its CURRENT_TIMESTAMP stamps
\* the audit entry) and the statement's snapshot fixes the previous decision.
SnapshotDecision(o, b, a) ==
  /\ calls < MaxCalls
  /\ opc[o] = "idle"
  /\ status[b] = "DLQ_EXHAUSTED"
  /\ opc'   = [opc EXCEPT ![o] = "deciding"]
  /\ oreq'  = [oreq EXCEPT ![o] = [batch |-> b, action |-> a,
                                   seen |-> decision[b].action,
                                   at |-> calls + 1]]
  /\ calls' = calls + 1
  /\ UNCHANGED <<rowVars, samples, alert, decision, rowLock, workerVars,
                 failures>>

\* Faulty variant of DecideExhausted: PURGE_LOCAL can be taken back.
DecidePurgeReversible(o) ==
  LET r == oreq[o] IN
  /\ opc[o] = "deciding"
  /\ opc'  = [opc EXCEPT ![o] = "idle"]
  /\ oreq' = [oreq EXCEPT ![o] = NoRequest]
  /\ decision' = [decision EXCEPT ![r.batch] = [action |-> r.action, at |-> r.at]]
  /\ UNCHANGED <<rowVars, samples, alert, rowLock, workerVars, calls, failures>>

\* decide_exhausted_batch, once the row lock is granted: the same decision again
\* is a no-op, PURGE_LOCAL cannot become RETAIN, anything else is appended.
\* An entry stamped earlier than the one in force does not supersede it.
DecideExhausted(o) ==
  LET r == oreq[o] IN
  /\ opc[o] = "deciding"
  /\ rowLock[r.batch] = Free
  /\ opc'  = [opc EXCEPT ![o] = "idle"]
  /\ oreq' = [oreq EXCEPT ![o] = NoRequest]
  /\ IF r.seen \in {r.action, "PURGE_LOCAL"}
       THEN UNCHANGED decision
       ELSE decision' = [decision EXCEPT ![r.batch] =
                           IF @.at < r.at
                             THEN [action |-> r.action, at |-> r.at] ELSE @]
  /\ UNCHANGED <<rowVars, samples, alert, rowLock, workerVars, calls, failures>>
-----------------------------------------------------------------------------
AgentStep == \E b \in Batches, d \in Digests :
               IngestBatch(b, d) \/ ReuploadBatch(b, d)

WorkerStep(w) == \/ \E b \in Batches : SelectBatch(w, b)
                 \/ ClaimBatch(w)
                 \/ StoreSamples(w)
                 \/ StoreFails(w)
                 \/ RecordFailure(w)

OperatorCommit(o) == AuthorizeRetry(o) \/ DecideExhausted(o)

OperatorStep(o) == \/ \E b \in Batches : LockForRetry(o, b)
                   \/ \E b \in Batches, a \in Decision : SnapshotDecision(o, b, a)
                   \/ OperatorCommit(o)

Next == \/ AgentStep
        \/ \E w \in Workers : WorkerStep(w) \/ AbandonBatch(w)
        \/ \E o \in Operators : OperatorStep(o)

Spec == Init /\ [][Next]_vars

\* run_forever polls for ever and every transaction ends.
Fairness == /\ \A w \in Workers : WF_vars(WorkerStep(w))
            /\ \A o \in Operators : WF_vars(OperatorCommit(o))

FairSpec == Spec /\ Fairness
-----------------------------------------------------------------------------
(* Properties.                                                              *)

InFlight == {"RECEIVED", "PROCESSING"}
Settled  == {"PROCESSED", "DLQ_EXHAUSTED"}

\* The samples table holds the payload first accepted under a batch's
\* identifier exactly when the batch is PROCESSED, whatever was retried,
\* re-uploaded or half committed before (process_next_batch, reupload_batch).
SamplesMatchBatch ==
  \A b \in Batches :
    samples[b] = IF status[b] = "PROCESSED" THEN {digest[b]} ELSE {}

\* A batch still to be processed has its payload, so no worker can claim a row
\* it cannot read; once parked, exhausted or processed the server keeps none.
PayloadHeldWhileInFlight ==
  \A b \in Batches :
    payload[b] = IF status[b] \in InFlight THEN digest[b] ELSE NoDigest

\* Two workers never work on the same row, although neither transaction of
\* process_next_batch spans the work (FOR UPDATE SKIP LOCKED, then the status).
SingleClaim ==
  \A v, w \in Workers :
    v # w /\ wpc[v] # "idle" /\ wpc[w] # "idle" => wbatch[v] # wbatch[w]

\* The two counters account for every failed attempt: none is lost or counted
\* twice across retries, reopenings and re-uploads, so a batch is tried at most
\* MaxRetry * (MaxReprocess + 1) times and is exhausted exactly then.
AttemptBudget ==
  \A b \in Batches :
    /\ failures[b] = MaxRetry * reprocess[b] + retry[b]
    /\ status[b] = "DLQ_EXHAUSTED" <=> failures[b] = MaxRetry * (MaxReprocess + 1)
    /\ alert[b] <=> status[b] = "DLQ_EXHAUSTED"

\* Nothing moves a batch out of PROCESSED or DLQ_EXHAUSTED: a late failure
\* record, a retry, a re-upload or a crashed worker cannot reopen it.
SettledIsFinal ==
  [][\A b \in Batches : status[b] \in Settled => status'[b] = status[b]]_vars

\* Once PURGE_LOCAL is in force the agent may have deleted its copy, so no
\* later decision supersedes it (decide_exhausted_batch answers with a
\* conflict).
PurgeIsFinal ==
  [][\A b \in Batches : decision[b].action = "PURGE_LOCAL" =>
                        decision'[b].action = "PURGE_LOCAL"]_vars

\* PURGE_LOCAL is in force and no request under way was started without seeing it.
PurgeSettled(b) ==
  /\ decision[b].action = "PURGE_LOCAL"
  /\ \A o \in Operators :
       opc[o] = "deciding" /\ oreq[o].batch = b => oreq[o].seen = "PURGE_LOCAL"

\* Only a decision that was under way when PURGE_LOCAL was taken can take it back:
\* once none is left, PURGE_LOCAL stays in force and the batch stays exhausted, so
\* that an agent which has deleted its copy is never asked for it again, whatever
\* retries, re-uploads and decisions follow (decide_exhausted_batch, authorize_retry).
PurgeSettles ==
  [][\A b \in Batches : PurgeSettled(b) =>
       PurgeSettled(b)' /\ status'[b] = "DLQ_EXHAUSTED"]_vars

\* A claimed batch has a worker that will settle it or put it back: stopping
\* the workers between two batches leaves no row in PROCESSING.
ClaimedHasWorker ==
  \A b \in Batches : status[b] = "PROCESSING" =>
    \E w \in Workers : wbatch[w] = b /\ wpc[w] \in {"claimed", "failing"}

\* Every accepted payload is eventually stored, parked or exhausted: older
\* batches that keep failing cannot starve it, since each is parked after
\* MaxRetry failures.
EventuallyLeavesTheQueue ==
  \A b \in Batches : status[b] \in InFlight ~> status[b] \notin InFlight
-----------------------------------------------------------------------------
(* The refinement.                                                          *)

PhaseOf == [ABSENT            |-> "absent",
            RECEIVED          |-> "pending",
            PROCESSING        |-> "pending",
            PROCESSED         |-> "stored",
            DLQ               |-> "parked",
            AWAITING_REUPLOAD |-> "awaiting",
            DLQ_EXHAUSTED     |-> "exhausted"]

Lifecycle == INSTANCE BatchLifecycle WITH
               phase    <- [b \in Batches |-> PhaseOf[status[b]]],
               accepted <- digest,
               stored   <- samples,
               reopened <- reprocess

\* Claims, retries, locks and lost acknowledgements are invisible from outside:
\* every step of the handlers and workers is a step of the batch lifecycle or
\* leaves it unchanged.
ImplementsLifecycle == Lifecycle!Spec
-----------------------------------------------------------------------------
(* The inductive invariant behind the properties above.                     *)

\* What each status says about the counters and the digest of its row.
RowInv ==
  \A b \in Batches :
    /\ status[b] = "ABSENT" => /\ digest[b] = NoDigest
                               /\ retry[b] = 0
                               /\ reprocess[b] = 0
    /\ status[b] # "ABSENT" => digest[b] \in Digests
    /\ status[b] \in {"DLQ", "DLQ_EXHAUSTED"} <=> retry[b] = MaxRetry
    /\ status[b] = "AWAITING_REUPLOAD" => retry[b] = 0
    /\ status[b] = "DLQ" => reprocess[b] < MaxReprocess
    /\ status[b] = "DLQ_EXHAUSTED" => reprocess[b] = MaxReprocess

\* What each worker knows of the row it holds.
WorkerInv ==
  \A w \in Workers :
    /\ wpc[w] # "idle" => wbatch[w] \in Batches
    /\ wpc[w] = "selected" => /\ rowLock[wbatch[w]] = w
                              /\ status[wbatch[w]] = "RECEIVED"
    /\ wpc[w] = "claimed" => status[wbatch[w]] = "PROCESSING"
    /\ wpc[w] = "failing" => status[wbatch[w]] \in {"PROCESSING", "PROCESSED"}
    /\ wpc[w] \in {"selected", "claimed"} => wpayload[w] = digest[wbatch[w]]

\* Who may hold a row lock between two steps.
LockInv ==
  /\ \A b \in Batches, w \in Workers :
       rowLock[b] = w => wpc[w] = "selected" /\ wbatch[w] = b
  /\ \A o \in Operators :
       /\ opc[o] # "idle" => oreq[o].batch \in Batches
       /\ opc[o] = "retrying" => rowLock[oreq[o].batch] = o

IInv == /\ TypeOK
        /\ RowInv
        /\ WorkerInv
        /\ LockInv
        /\ SingleClaim
        /\ SamplesMatchBatch
        /\ PayloadHeldWhileInFlight
        /\ AttemptBudget
=============================================================================
