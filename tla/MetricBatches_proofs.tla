------------------------ MODULE MetricBatches_proofs ------------------------
(***************************************************************************)
(* Proofs about MetricBatches, for every set of batches, payloads, workers  *)
(* and operators and every value of the limits.                             *)
(***************************************************************************)
EXTENDS MetricBatches, TLAPS

-----------------------------------------------------------------------------
(* Type correctness.                                                        *)

\* The failure transition (next_failure_state) stays inside the CHECK
\* constraints of the table, and says exactly when a batch is parked.
LEMMA NextFailureStateFacts ==
  ASSUME NEW r \in 0..MaxRetry, NEW p \in 0..MaxReprocess, r < MaxRetry
  PROVE  /\ NextFailureState(r, p).retry = r + 1
         /\ NextFailureState(r, p).retry \in 0..MaxRetry
         /\ NextFailureState(r, p).status =
              IF r + 1 < MaxRetry THEN "RECEIVED"
              ELSE IF p = MaxReprocess THEN "DLQ_EXHAUSTED" ELSE "DLQ"
  BY RetryAssumption, ReprocessAssumption DEF NextFailureState

LEMMA NextFailureStateType ==
  ASSUME NEW r \in 0..MaxRetry, NEW p \in 0..MaxReprocess
  PROVE  /\ NextFailureState(r, p).retry \in 0..MaxRetry
         /\ NextFailureState(r, p).status \in {"RECEIVED", "DLQ", "DLQ_EXHAUSTED"}
  BY RetryAssumption, ReprocessAssumption DEF NextFailureState

LEMMA InitType == Init => TypeOK
  BY RetryAssumption, ReprocessAssumption
  DEF Init, TypeOK, Status, Entry, NoEntry, Request, NoRequest, Decision, NoDecision

LEMMA AgentType == TypeOK /\ AgentStep => TypeOK'
<1> SUFFICES ASSUME TypeOK, NEW b \in Batches, NEW d \in Digests,
                    IngestBatch(b, d) \/ ReuploadBatch(b, d)
             PROVE  TypeOK'
  BY DEF AgentStep
<1> USE RetryAssumption, ReprocessAssumption
<1>1. CASE IngestBatch(b, d)
  BY <1>1 DEF IngestBatch, TypeOK, Status, workerVars, operatorVars
<1>2. CASE ReuploadBatch(b, d)
  BY <1>2 DEF ReuploadBatch, TypeOK, Status, workerVars, operatorVars
<1> QED BY <1>1, <1>2

LEMMA LeaveBatchType ==
  ASSUME TypeOK, NEW w \in Workers, LeaveBatch(w)
  PROVE  /\ wpc' \in [Workers -> {"idle", "selected", "claimed", "failing"}]
         /\ wbatch' \in [Workers -> Batches \cup {NoBatch}]
         /\ wpayload' \in [Workers -> Digests \cup {NoDigest}]
  BY DEF TypeOK, LeaveBatch

LEMMA WorkerType ==
  ASSUME NEW w \in Workers, wpc[w] # "idle" => wbatch[w] \in Batches
  PROVE  TypeOK /\ (WorkerStep(w) \/ AbandonBatch(w)) => TypeOK'
<1> SUFFICES ASSUME TypeOK, WorkerStep(w) \/ AbandonBatch(w)
             PROVE  TypeOK'
  OBVIOUS
<1>1. ASSUME NEW b \in Batches, SelectBatch(w, b) PROVE TypeOK'
  BY <1>1 DEF SelectBatch, TypeOK, rowVars, operatorVars
<1>2. CASE ClaimBatch(w)
  BY <1>2 DEF ClaimBatch, TypeOK, Status, operatorVars
<1>3. CASE StoreSamples(w)
  <2>1. wbatch[w] \in Batches /\ wpayload[w] \in Digests
    BY <1>3 DEF StoreSamples, TypeOK
  <2>2. /\ wpc' \in [Workers -> {"idle", "selected", "claimed", "failing"}]
        /\ wbatch' \in [Workers -> Batches \cup {NoBatch}]
        /\ wpayload' \in [Workers -> Digests \cup {NoDigest}]
    BY <1>3, LeaveBatchType DEF StoreSamples, TypeOK
  <2>3. /\ samples' \in [Batches -> SUBSET Digests]
        /\ status' \in [Batches -> Status]
        /\ payload' \in [Batches -> Digests \cup {NoDigest}]
    BY <1>3, <2>1 DEF StoreSamples, TypeOK, Status
  <2> QED BY <1>3, <2>2, <2>3 DEF StoreSamples, TypeOK, operatorVars
<1>4. CASE StoreFails(w)
  BY <1>4 DEF StoreFails, TypeOK, rowVars, operatorVars
<1>5. CASE RecordFailure(w)
  <2> DEFINE b == wbatch[w]
             n == NextFailureState(retry[b], reprocess[b])
  <2>1. b \in Batches
    BY <1>5 DEF RecordFailure
  <2>2. n.retry \in 0..MaxRetry /\ n.status \in {"RECEIVED", "DLQ", "DLQ_EXHAUSTED"}
    BY <2>1, NextFailureStateType DEF TypeOK
  <2> HIDE DEF n
  <2>3. /\ status' \in [Batches -> Status]
        /\ retry' \in [Batches -> 0..MaxRetry]
        /\ payload' \in [Batches -> Digests \cup {NoDigest}]
        /\ alert' \in [Batches -> BOOLEAN]
        /\ failures' \in [Batches -> Nat]
    <3>1. CASE status[b] = "PROCESSING"
      <4>1. /\ status'   = [status EXCEPT ![b] = n.status]
            /\ retry'    = [retry EXCEPT ![b] = n.retry]
            /\ payload'  = [payload EXCEPT ![b] =
                              IF n.status = "RECEIVED" THEN payload[b] ELSE NoDigest]
            /\ alert'    = [alert EXCEPT ![b] =
                              alert[b] \/ n.status = "DLQ_EXHAUSTED"]
            /\ failures' = [failures EXCEPT ![b] = failures[b] + 1]
        BY <1>5, <3>1 DEF RecordFailure, n
      <4> QED BY <4>1, <2>1, <2>2 DEF TypeOK, Status
    <3>2. CASE status[b] # "PROCESSING"
      BY <1>5, <3>2 DEF RecordFailure, TypeOK
    <3> QED BY <3>1, <3>2
  <2> QED
    BY <1>5, <2>3, LeaveBatchType DEF RecordFailure, TypeOK, operatorVars
<1>6. CASE AbandonBatch(w)
  BY <1>6, LeaveBatchType DEF AbandonBatch, TypeOK, rowVars, operatorVars
<1> QED BY <1>1, <1>2, <1>3, <1>4, <1>5, <1>6 DEF WorkerStep

LEMMA OperatorType ==
  ASSUME NEW o \in Operators, opc[o] # "idle" => oreq[o].batch \in Batches
  PROVE  TypeOK /\ OperatorStep(o) => TypeOK'
<1> SUFFICES ASSUME TypeOK, OperatorStep(o)
             PROVE  TypeOK'
  OBVIOUS
<1>1. ASSUME NEW b \in Batches, LockForRetry(o, b) PROVE TypeOK'
  <2>1. [oreq[o] EXCEPT !.batch = b] \in Request
    BY DEF TypeOK, Request
  <2>2. oreq' \in [Operators -> Request]
    BY <1>1, <2>1 DEF LockForRetry, TypeOK
  <2> QED BY <1>1, <2>2 DEF LockForRetry, TypeOK, rowVars, workerVars
<1>2. ASSUME NEW b \in Batches, NEW a \in Decision, SnapshotDecision(o, b, a)
      PROVE  TypeOK'
  <2>1. decision[b].action \in Decision \cup {NoDecision}
    BY DEF TypeOK, Entry
  <2> QED BY <1>2, <2>1 DEF SnapshotDecision, TypeOK, Request, rowVars, workerVars
<1>3. CASE AuthorizeRetry(o)
  <2>1. NoRequest \in Request
    BY DEF NoRequest, Request, Decision, NoDecision
  <2>2. reprocess' \in [Batches -> 0..MaxReprocess]
    BY <1>3, ReprocessAssumption DEF AuthorizeRetry, Reopenable, TypeOK
  <2>3. oreq' \in [Operators -> Request] /\ opc' \in [Operators -> {"idle", "retrying", "deciding"}]
    BY <1>3, <2>1 DEF AuthorizeRetry, TypeOK
  <2>4. status' \in [Batches -> Status] /\ retry' \in [Batches -> 0..MaxRetry]
    BY <1>3, RetryAssumption DEF AuthorizeRetry, TypeOK, Status
  <2> QED BY <1>3, <2>2, <2>3, <2>4 DEF AuthorizeRetry, TypeOK, workerVars
<1>4. CASE DecideExhausted(o)
  <2>1. NoRequest \in Request
    BY DEF NoRequest, Request, Decision, NoDecision
  <2>2. decision' \in [Batches -> Entry]
    BY <1>4 DEF DecideExhausted, TypeOK, Entry, Request
  <2>3. oreq' \in [Operators -> Request] /\ opc' \in [Operators -> {"idle", "retrying", "deciding"}]
    BY <1>4, <2>1 DEF DecideExhausted, TypeOK
  <2> QED
    BY <1>4, <2>2, <2>3 DEF DecideExhausted, TypeOK, rowVars, workerVars
<1> QED BY <1>1, <1>2, <1>3, <1>4 DEF OperatorStep, OperatorCommit
-----------------------------------------------------------------------------
(* The inductive invariant.                                                 *)

\* The attempts of a batch add up to the whole budget only at its very end:
\* the last retry of the last reopening.
LEMMA BudgetArithmetic ==
  ASSUME NEW r \in 0..MaxRetry, NEW p \in 0..MaxReprocess
  PROVE  MaxRetry * p + r = MaxRetry * (MaxReprocess + 1)
           <=> r = MaxRetry /\ p = MaxReprocess
<1> USE RetryAssumption, ReprocessAssumption
<1>1. CASE p = MaxReprocess
  BY <1>1
<1>2. CASE p < MaxReprocess
  <2>1. MaxRetry * (p + 1) <= MaxRetry * MaxReprocess
    BY <1>2
  <2>2. MaxRetry * (p + 1) = MaxRetry * p + MaxRetry
    OBVIOUS
  <2>3. MaxRetry * (MaxReprocess + 1) = MaxRetry * MaxReprocess + MaxRetry
    OBVIOUS
  <2>4. MaxRetry * p + r < MaxRetry * (MaxReprocess + 1)
    BY <2>1, <2>2, <2>3
  <2> QED BY <2>4, <1>2
<1> QED BY <1>1, <1>2

\* Of one row: the attempts add up to the whole budget exactly when the row
\* is exhausted.
LEMMA ExhaustedRow ==
  ASSUME NEW st, NEW r \in 0..MaxRetry, NEW p \in 0..MaxReprocess, NEW f,
         f = MaxRetry * p + r,
         st \in {"DLQ", "DLQ_EXHAUSTED"} <=> r = MaxRetry,
         st = "DLQ" => p < MaxReprocess,
         st = "DLQ_EXHAUSTED" => p = MaxReprocess
  PROVE  st = "DLQ_EXHAUSTED" <=> f = MaxRetry * (MaxReprocess + 1)
<1>1. st = "DLQ_EXHAUSTED" <=> r = MaxRetry /\ p = MaxReprocess
  BY ReprocessAssumption
<1> QED BY <1>1, BudgetArithmetic

LEMMA InitInv == Init => IInv
<1> SUFFICES ASSUME Init PROVE IInv
  OBVIOUS
<1> USE RetryAssumption, ReprocessAssumption, NamesAssumption DEF Init
<1>1. TypeOK
  BY InitType
<1>2. RowInv
  BY DEF RowInv
<1>3. WorkerInv /\ LockInv /\ SingleClaim
  BY DEF WorkerInv, LockInv, SingleClaim
<1>4. SamplesMatchBatch /\ PayloadHeldWhileInFlight
  BY DEF SamplesMatchBatch, PayloadHeldWhileInFlight, InFlight
<1>5. AttemptBudget
  <2>1. \A b \in Batches : failures[b] = MaxRetry * reprocess[b] + retry[b]
    <3>1. MaxRetry * 0 + 0 = 0
      OBVIOUS
    <3> QED BY <3>1
  <2> SUFFICES ASSUME NEW b \in Batches
               PROVE  status[b] = "DLQ_EXHAUSTED" <=>
                        failures[b] = MaxRetry * (MaxReprocess + 1)
    BY <2>1 DEF AttemptBudget
  <2> QED BY <1>1, <1>2, <2>1, ExhaustedRow DEF RowInv, TypeOK
<1> QED BY <1>1, <1>2, <1>3, <1>4, <1>5 DEF IInv

LEMMA AgentInv == IInv /\ AgentStep => IInv'
<1> SUFFICES ASSUME IInv, NEW b \in Batches, NEW d \in Digests,
                    IngestBatch(b, d) \/ ReuploadBatch(b, d)
             PROVE  IInv'
  BY DEF AgentStep
<1> USE RetryAssumption, ReprocessAssumption, NamesAssumption
<1>1. TypeOK /\ TypeOK'
  BY AgentType DEF IInv, AgentStep
<1>2. CASE IngestBatch(b, d)
  <2> USE <1>1, <1>2 DEF IngestBatch, IInv, TypeOK
  <2>1. RowInv'
    BY DEF RowInv
  <2>2. WorkerInv' /\ LockInv' /\ SingleClaim'
    BY DEF WorkerInv, LockInv, SingleClaim, workerVars, operatorVars
  <2>3. SamplesMatchBatch' /\ PayloadHeldWhileInFlight'
    BY DEF SamplesMatchBatch, PayloadHeldWhileInFlight, InFlight
  <2>4. AttemptBudget'
    BY DEF AttemptBudget
  <2> QED BY <2>1, <2>2, <2>3, <2>4
<1>3. CASE ReuploadBatch(b, d)
  <2> USE <1>1, <1>3 DEF ReuploadBatch, IInv, TypeOK
  <2>1. RowInv'
    BY DEF RowInv
  <2>2. WorkerInv' /\ LockInv' /\ SingleClaim'
    BY DEF WorkerInv, LockInv, SingleClaim, workerVars, operatorVars
  <2>3. SamplesMatchBatch' /\ PayloadHeldWhileInFlight'
    BY DEF SamplesMatchBatch, PayloadHeldWhileInFlight, InFlight
  <2>4. AttemptBudget'
    BY DEF AttemptBudget, RowInv
  <2> QED BY <2>1, <2>2, <2>3, <2>4
<1> QED BY <1>2, <1>3

LEMMA SelectInv ==
  ASSUME IInv, NEW w \in Workers, NEW b \in Batches, SelectBatch(w, b)
  PROVE  IInv'
<1> USE NamesAssumption DEF SelectBatch, Claimable, IInv, TypeOK
<1>1. TypeOK'
  BY WorkerType DEF WorkerStep, WorkerInv
<1>2. RowInv' /\ SamplesMatchBatch' /\ PayloadHeldWhileInFlight' /\ AttemptBudget'
  BY DEF RowInv, SamplesMatchBatch, PayloadHeldWhileInFlight, AttemptBudget, rowVars
<1>3. payload[b] = digest[b]
  BY DEF PayloadHeldWhileInFlight, InFlight
<1>4. WorkerInv'
  BY <1>3 DEF WorkerInv, rowVars
<1>5. LockInv'
  BY DEF LockInv, operatorVars
<1>6. SingleClaim'
  \* another worker on b would hold its lock or have moved it past RECEIVED
  <2>1. \A v \in Workers : wpc[v] # "idle" => wbatch[v] # b
    BY DEF WorkerInv
  <2> QED BY <2>1 DEF SingleClaim
<1> QED BY <1>1, <1>2, <1>4, <1>5, <1>6

LEMMA ClaimInv ==
  ASSUME IInv, NEW w \in Workers, ClaimBatch(w)
  PROVE  IInv'
<1> DEFINE b == wbatch[w]
<1> USE NamesAssumption DEF ClaimBatch, IInv
<1>1. TypeOK'
  BY WorkerType DEF WorkerStep, WorkerInv
<1>2. b \in Batches /\ status[b] = "RECEIVED" /\ rowLock[b] = w
  BY DEF WorkerInv
<1> USE <1>1, <1>2 DEF TypeOK
<1>3. RowInv'
  BY RetryAssumption DEF RowInv
<1>4. SamplesMatchBatch' /\ PayloadHeldWhileInFlight' /\ AttemptBudget'
  BY DEF SamplesMatchBatch, PayloadHeldWhileInFlight, AttemptBudget, InFlight
<1>5. SingleClaim'
  BY DEF SingleClaim
<1>6. WorkerInv'
  BY DEF WorkerInv, SingleClaim
<1>7. LockInv'
  BY DEF LockInv, operatorVars
<1> QED BY <1>3, <1>4, <1>5, <1>6, <1>7

LEMMA StoreInv ==
  ASSUME IInv, NEW w \in Workers, StoreSamples(w)
  PROVE  IInv'
<1> DEFINE b == wbatch[w]
<1> USE NamesAssumption DEF IInv
<1>1. TypeOK'
  BY WorkerType DEF WorkerStep, WorkerInv
<1>2. /\ b \in Batches
      /\ status[b] = "PROCESSING"
      /\ wpayload[w] = digest[b]
  BY DEF WorkerInv, StoreSamples
<1>3. /\ samples' = [samples EXCEPT ![b] = samples[b] \cup {digest[b]}]
      /\ status'  = [status EXCEPT ![b] = "PROCESSED"]
      /\ payload' = [payload EXCEPT ![b] = NoDigest]
      /\ UNCHANGED <<retry, reprocess, digest, alert, rowLock, opc, oreq, failures>>
      /\ wpc[w] = "claimed"
      /\ wpc' = [wpc EXCEPT ![w] = wpc'[w]]
      /\ wpc'[w] \in {"idle", "failing"}
      /\ wpc'[w] = "failing" => wbatch'[w] = b
      /\ \A v \in Workers \ {w} : wbatch'[v] = wbatch[v] /\ wpayload'[v] = wpayload[v]
  BY <1>2 DEF StoreSamples, LeaveBatch, TypeOK, operatorVars
<1>9. AttemptBudget'
  <2>1. \A c \in Batches : status'[c] = "DLQ_EXHAUSTED" <=> status[c] = "DLQ_EXHAUSTED"
    BY <1>2, <1>3 DEF TypeOK
  <2>2. failures' = failures /\ retry' = retry /\ reprocess' = reprocess /\ alert' = alert
    BY <1>3
  <2> QED BY <2>1, <2>2 DEF AttemptBudget
<1> USE <1>1, <1>2, <1>3 DEF TypeOK
<1>4. RowInv'
  BY DEF RowInv
<1>5. SamplesMatchBatch'
  <2>1. samples[b] = {}
    BY DEF SamplesMatchBatch
  <2>2. samples'[b] = {digest'[b]} /\ status'[b] = "PROCESSED"
    BY <2>1
  <2>3. \A c \in Batches \ {b} : samples'[c] = samples[c] /\ status'[c] = status[c]
    OBVIOUS
  <2> QED BY <2>2, <2>3 DEF SamplesMatchBatch
<1>10. PayloadHeldWhileInFlight'
  BY DEF PayloadHeldWhileInFlight, InFlight
<1>6. SingleClaim'
  BY DEF SingleClaim
<1>7. WorkerInv'
  BY DEF WorkerInv, SingleClaim
<1>8. LockInv'
  BY DEF LockInv
<1> QED BY <1>4, <1>5, <1>6, <1>7, <1>8, <1>9, <1>10

LEMMA StoreFailsInv ==
  ASSUME IInv, NEW w \in Workers, StoreFails(w)
  PROVE  IInv'
<1> USE NamesAssumption DEF StoreFails, IInv
<1>1. TypeOK'
  BY WorkerType DEF WorkerStep, WorkerInv
<1> USE <1>1 DEF TypeOK
<1>2. RowInv' /\ SamplesMatchBatch' /\ PayloadHeldWhileInFlight' /\ AttemptBudget'
  BY DEF RowInv, SamplesMatchBatch, PayloadHeldWhileInFlight, AttemptBudget, rowVars
<1>3. WorkerInv' /\ LockInv' /\ SingleClaim'
  BY DEF WorkerInv, LockInv, SingleClaim, rowVars, operatorVars
<1> QED BY <1>2, <1>3

LEMMA FailureInv ==
  ASSUME IInv, NEW w \in Workers, RecordFailure(w)
  PROVE  IInv'
<1> DEFINE b == wbatch[w]
           n == NextFailureState(retry[b], reprocess[b])
<1> USE NamesAssumption, RetryAssumption, ReprocessAssumption DEF IInv
<1>1. TypeOK'
  BY WorkerType DEF WorkerStep, WorkerInv
<1>2. b \in Batches
  BY DEF WorkerInv, RecordFailure
<1>3. /\ wpc' = [wpc EXCEPT ![w] = "idle"]
      /\ \A v \in Workers \ {w} : wbatch'[v] = wbatch[v] /\ wpayload'[v] = wpayload[v]
      /\ wpc[w] = "failing"
      /\ UNCHANGED <<reprocess, digest, samples, rowLock, opc, oreq>>
  BY DEF RecordFailure, LeaveBatch, TypeOK, operatorVars
<1>4. SingleClaim'
  BY <1>1, <1>3 DEF SingleClaim, TypeOK
<1>5. LockInv'
  BY <1>1, <1>3 DEF LockInv, TypeOK
<1>6. CASE status[b] # "PROCESSING"
  <2>1. UNCHANGED <<status, retry, payload, alert, failures>>
    BY <1>6 DEF RecordFailure
  <2> USE <1>1, <1>3, <2>1 DEF TypeOK
  <2>2. RowInv' /\ SamplesMatchBatch' /\ PayloadHeldWhileInFlight' /\ AttemptBudget'
    BY DEF RowInv, SamplesMatchBatch, PayloadHeldWhileInFlight, AttemptBudget
  <2>3. WorkerInv'
    BY DEF WorkerInv
  <2> QED BY <1>4, <1>5, <2>2, <2>3
<1>7. CASE status[b] = "PROCESSING"
  <2>1. retry[b] \in 0..MaxRetry /\ retry[b] < MaxRetry /\ reprocess[b] \in 0..MaxReprocess
    BY <1>2, <1>7 DEF RowInv, TypeOK
  <2>2. /\ n.retry = retry[b] + 1
        /\ n.status = IF retry[b] + 1 < MaxRetry THEN "RECEIVED"
                      ELSE IF reprocess[b] = MaxReprocess THEN "DLQ_EXHAUSTED"
                      ELSE "DLQ"
    BY <2>1, NextFailureStateFacts
  <2> HIDE DEF n
  <2>3. /\ status'   = [status EXCEPT ![b] = n.status]
        /\ retry'    = [retry EXCEPT ![b] = n.retry]
        /\ payload'  = [payload EXCEPT ![b] =
                          IF n.status = "RECEIVED" THEN payload[b] ELSE NoDigest]
        /\ alert'    = [alert EXCEPT ![b] = alert[b] \/ n.status = "DLQ_EXHAUSTED"]
        /\ failures' = [failures EXCEPT ![b] = failures[b] + 1]
    BY <1>7 DEF RecordFailure, n
  <2> USE <1>1, <1>2, <1>3, <1>7, <2>1, <2>2, <2>3
  <2>4. RowInv'
    BY DEF RowInv, TypeOK
  <2>5. SamplesMatchBatch' /\ PayloadHeldWhileInFlight'
    BY DEF SamplesMatchBatch, PayloadHeldWhileInFlight, InFlight, TypeOK
  <2>6. AttemptBudget'
    <3>1. \A c \in Batches : failures'[c] = MaxRetry * reprocess'[c] + retry'[c]
      <4> TAKE c \in Batches
      <4>1. failures[c] = MaxRetry * reprocess[c] + retry[c]
        BY DEF AttemptBudget
      <4>2. CASE c = b
        <5>1. failures'[c] = failures[c] + 1 /\ retry'[c] = retry[c] + 1
          BY <4>2 DEF TypeOK
        <5>2. /\ failures[c] \in Nat /\ retry[c] \in Nat /\ reprocess[c] \in Nat
              /\ MaxRetry * reprocess[c] \in Nat
          BY DEF TypeOK
        <5> HIDE <1>1, <1>2, <1>3, <1>7, <2>1, <2>2, <2>3
        <5>3. reprocess'[c] = reprocess[c]
          BY <1>3
        <5> QED BY <4>1, <5>1, <5>2, <5>3
      <4>3. CASE c # b
        <5>1. failures'[c] = failures[c] /\ retry'[c] = retry[c] /\ reprocess'[c] = reprocess[c]
          BY ONLY <1>2, <1>3, <2>3, <4>3, TypeOK DEF TypeOK
        <5> QED BY ONLY <4>1, <5>1
      <4> QED BY ONLY <4>2, <4>3
    <3>2. \A c \in Batches : alert'[c] <=> status'[c] = "DLQ_EXHAUSTED"
      <4>1. /\ \A c \in Batches : alert[c] <=> status[c] = "DLQ_EXHAUSTED"
            /\ alert \in [Batches -> BOOLEAN] /\ status \in [Batches -> Status]
        BY DEF AttemptBudget, TypeOK
      <4> QED BY ONLY <4>1, <1>2, <1>7, <2>3
    <3>3. ASSUME NEW c \in Batches
          PROVE  status'[c] = "DLQ_EXHAUSTED" <=>
                   failures'[c] = MaxRetry * (MaxReprocess + 1)
      <4>1. /\ retry'[c] \in 0..MaxRetry /\ reprocess'[c] \in 0..MaxReprocess
            /\ status'[c] \in {"DLQ", "DLQ_EXHAUSTED"} <=> retry'[c] = MaxRetry
            /\ status'[c] = "DLQ" => reprocess'[c] < MaxReprocess
            /\ status'[c] = "DLQ_EXHAUSTED" => reprocess'[c] = MaxReprocess
        BY <2>4 DEF RowInv, TypeOK
      <4>2. failures'[c] = MaxRetry * reprocess'[c] + retry'[c]
        BY <3>1
      <4> HIDE <1>1, <1>2, <1>3, <1>7, <2>1, <2>2, <2>3
      <4> QED BY <4>1, <4>2, ExhaustedRow
    <3> QED BY <3>1, <3>2, <3>3 DEF AttemptBudget
  <2>7. WorkerInv'
    BY DEF WorkerInv, SingleClaim, TypeOK
  <2> QED BY <1>4, <1>5, <2>4, <2>5, <2>6, <2>7
<1> QED BY <1>6, <1>7

LEMMA AbandonInv ==
  ASSUME IInv, NEW w \in Workers, AbandonBatch(w)
  PROVE  IInv'
<1> USE NamesAssumption DEF AbandonBatch, LeaveBatch, IInv
<1>1. TypeOK'
  BY WorkerType DEF WorkerInv
<1> USE <1>1 DEF TypeOK
<1>2. RowInv' /\ SamplesMatchBatch' /\ PayloadHeldWhileInFlight' /\ AttemptBudget'
  BY DEF RowInv, SamplesMatchBatch, PayloadHeldWhileInFlight, AttemptBudget, rowVars
<1>3. WorkerInv' /\ SingleClaim'
  BY DEF WorkerInv, SingleClaim, rowVars
<1>4. LockInv'
  BY DEF LockInv, operatorVars
<1> QED BY <1>2, <1>3, <1>4

LEMMA LockInvStep ==
  ASSUME IInv, NEW o \in Operators, NEW b \in Batches, LockForRetry(o, b)
  PROVE  IInv'
<1> USE NamesAssumption DEF LockForRetry, IInv
<1>1. TypeOK'
  BY OperatorType DEF OperatorStep, LockInv
<1> USE <1>1 DEF TypeOK
<1>2. RowInv' /\ SamplesMatchBatch' /\ PayloadHeldWhileInFlight' /\ AttemptBudget'
  BY DEF RowInv, SamplesMatchBatch, PayloadHeldWhileInFlight, AttemptBudget, rowVars
<1>3. WorkerInv' /\ SingleClaim'
  BY DEF WorkerInv, SingleClaim, rowVars, workerVars
<1>4. oreq' = [oreq EXCEPT ![o] = oreq'[o]] /\ oreq'[o].batch = b
  BY DEF Request
<1>5. LockInv'
  <2>1. \A c \in Batches, w \in Workers : rowLock'[c] = w => wpc'[w] = "selected" /\ wbatch'[w] = c
    BY DEF LockInv, workerVars
  <2>2. \A q \in Operators : /\ opc'[q] # "idle" => oreq'[q].batch \in Batches
                             /\ opc'[q] = "retrying" => rowLock'[oreq'[q].batch] = q
    BY <1>4 DEF LockInv
  <2> QED BY <2>1, <2>2 DEF LockInv
<1> QED BY <1>2, <1>3, <1>5

LEMMA AuthorizeInv ==
  ASSUME IInv, NEW o \in Operators, AuthorizeRetry(o)
  PROVE  IInv'
<1> DEFINE b == oreq[o].batch
<1> USE NamesAssumption, RetryAssumption, ReprocessAssumption DEF IInv
<1>1. TypeOK'
  BY OperatorType DEF OperatorStep, OperatorCommit, LockInv
<1>2. b \in Batches /\ rowLock[b] = o /\ opc[o] = "retrying"
  BY DEF AuthorizeRetry, LockInv
<1>3. /\ opc'     = [opc EXCEPT ![o] = "idle"]
      /\ oreq'    = [oreq EXCEPT ![o] = NoRequest]
      /\ rowLock' = [rowLock EXCEPT ![b] = Free]
      /\ UNCHANGED <<digest, payload, samples, alert, wpc, wbatch, wpayload, failures>>
  BY DEF AuthorizeRetry, workerVars
<1>4. LockInv'
  BY <1>1, <1>2, <1>3 DEF LockInv, TypeOK
<1>5. SingleClaim'
  BY <1>3 DEF SingleClaim
<1>6. CASE ~Reopenable(b)
  <2>1. UNCHANGED <<status, retry, reprocess>>
    BY <1>6 DEF AuthorizeRetry
  <2> USE <1>1, <1>2, <1>3, <2>1 DEF TypeOK
  <2>2. RowInv' /\ SamplesMatchBatch' /\ PayloadHeldWhileInFlight' /\ AttemptBudget'
    BY DEF RowInv, SamplesMatchBatch, PayloadHeldWhileInFlight, AttemptBudget
  <2>3. WorkerInv'
    BY DEF WorkerInv
  <2> QED BY <1>1, <1>4, <1>5, <2>2, <2>3
<1>7. CASE Reopenable(b)
  <2>1. /\ status[b] = "DLQ" /\ reprocess[b] < MaxReprocess
        /\ retry[b] = MaxRetry /\ reprocess[b] \in 0..MaxReprocess
    BY <1>2, <1>7 DEF Reopenable, RowInv, TypeOK
  <2>2. /\ status'    = [status EXCEPT ![b] = "AWAITING_REUPLOAD"]
        /\ retry'     = [retry EXCEPT ![b] = 0]
        /\ reprocess' = [reprocess EXCEPT ![b] = reprocess[b] + 1]
    BY <1>7 DEF AuthorizeRetry
  <2> USE <1>1, <1>2, <1>3, <2>1, <2>2
  <2>3. RowInv'
    BY DEF RowInv, TypeOK
  <2>4. SamplesMatchBatch' /\ PayloadHeldWhileInFlight'
    BY DEF SamplesMatchBatch, PayloadHeldWhileInFlight, InFlight, TypeOK
  <2>5. WorkerInv'
    BY DEF WorkerInv, TypeOK
  <2>6. \A c \in Batches : failures'[c] = MaxRetry * reprocess'[c] + retry'[c]
    <3> TAKE c \in Batches
    <3>1. failures[c] = MaxRetry * reprocess[c] + retry[c]
      BY DEF AttemptBudget
    <3>2. failures'[c] = failures[c] /\ reprocess[c] \in Nat
      BY DEF TypeOK
    <3>3. CASE c = b
      <4>1. /\ retry[c] = MaxRetry /\ retry'[c] = 0
            /\ reprocess'[c] = reprocess[c] + 1
        BY <3>3 DEF TypeOK
      <4> HIDE <1>1, <1>2, <1>3, <2>1, <2>2
      <4>2. MaxRetry * (reprocess[c] + 1) = MaxRetry * reprocess[c] + MaxRetry
        BY <3>2
      <4>3. MaxRetry * reprocess[c] \in Nat
        BY <3>2
      <4> QED BY <3>1, <3>2, <4>1, <4>2, <4>3
    <3>4. CASE c # b
      BY <3>1, <3>4 DEF TypeOK
    <3> QED BY <3>3, <3>4
  <2>7. \A c \in Batches : alert'[c] <=> status'[c] = "DLQ_EXHAUSTED"
    BY DEF AttemptBudget, TypeOK
  <2>8. ASSUME NEW c \in Batches
        PROVE  status'[c] = "DLQ_EXHAUSTED" <=>
                 failures'[c] = MaxRetry * (MaxReprocess + 1)
    <3>1. /\ retry'[c] \in 0..MaxRetry /\ reprocess'[c] \in 0..MaxReprocess
          /\ status'[c] \in {"DLQ", "DLQ_EXHAUSTED"} <=> retry'[c] = MaxRetry
          /\ status'[c] = "DLQ" => reprocess'[c] < MaxReprocess
          /\ status'[c] = "DLQ_EXHAUSTED" => reprocess'[c] = MaxReprocess
      BY <2>3 DEF RowInv, TypeOK
    <3>2. failures'[c] = MaxRetry * reprocess'[c] + retry'[c]
      BY <2>6
    <3> HIDE <1>1, <1>2, <1>3, <2>1, <2>2
    <3> QED BY <3>1, <3>2, ExhaustedRow
  <2>9. AttemptBudget'
    BY <2>6, <2>7, <2>8 DEF AttemptBudget
  <2> QED BY <1>4, <1>5, <2>3, <2>4, <2>5, <2>9
<1> QED BY <1>6, <1>7

LEMMA DecisionInv ==
  ASSUME IInv, NEW o \in Operators,
         (\E b \in Batches, a \in Decision : SnapshotDecision(o, b, a))
           \/ DecideExhausted(o)
  PROVE  IInv'
<1> USE NamesAssumption DEF IInv
<1>1. TypeOK'
  BY OperatorType DEF OperatorStep, OperatorCommit, LockInv
<1>2. UNCHANGED <<rowVars, workerVars, samples, alert, rowLock, failures>>
  BY DEF SnapshotDecision, DecideExhausted
<1>3. RowInv' /\ SamplesMatchBatch' /\ PayloadHeldWhileInFlight' /\ AttemptBudget'
  BY <1>2 DEF RowInv, SamplesMatchBatch, PayloadHeldWhileInFlight, AttemptBudget, rowVars
<1>4. WorkerInv' /\ SingleClaim'
  BY <1>2 DEF WorkerInv, SingleClaim, rowVars, workerVars
<1>5. LockInv'
  <2>1. ASSUME NEW b \in Batches, NEW a \in Decision, SnapshotDecision(o, b, a)
        PROVE  LockInv'
    BY <1>2, <2>1 DEF LockInv, SnapshotDecision, TypeOK, workerVars
  <2>2. CASE DecideExhausted(o)
    BY <1>2, <2>2 DEF LockInv, DecideExhausted, TypeOK, workerVars
  <2> QED BY <2>1, <2>2
<1> QED BY <1>1, <1>3, <1>4, <1>5

LEMMA StutterInv == IInv /\ UNCHANGED vars => IInv'
<1> SUFFICES ASSUME IInv, UNCHANGED vars PROVE IInv'
  OBVIOUS
<1> USE DEF IInv, vars, rowVars, workerVars, operatorVars
<1>1. TypeOK'
  BY DEF TypeOK
<1>2. RowInv' /\ SamplesMatchBatch' /\ PayloadHeldWhileInFlight' /\ AttemptBudget'
  BY DEF RowInv, SamplesMatchBatch, PayloadHeldWhileInFlight, AttemptBudget
<1>3. WorkerInv' /\ LockInv' /\ SingleClaim'
  BY DEF WorkerInv, LockInv, SingleClaim
<1> QED BY <1>1, <1>2, <1>3

\* One step of the system preserves the inductive invariant: a case for each
\* action.
LEMMA NextInv == IInv /\ [Next]_vars => IInv'
<1> SUFFICES ASSUME IInv, [Next]_vars PROVE IInv'
  OBVIOUS
<1>1. CASE AgentStep
  BY <1>1, AgentInv
<1>2. ASSUME NEW w \in Workers, WorkerStep(w) PROVE IInv'
  BY <1>2, SelectInv, ClaimInv, StoreInv, StoreFailsInv, FailureInv DEF WorkerStep
<1>3. ASSUME NEW w \in Workers, AbandonBatch(w) PROVE IInv'
  BY <1>3, AbandonInv
<1>4. ASSUME NEW o \in Operators, OperatorStep(o) PROVE IInv'
  BY <1>4, LockInvStep, AuthorizeInv, DecisionInv DEF OperatorStep, OperatorCommit
<1>5. CASE UNCHANGED vars
  BY <1>5, StutterInv
<1> QED BY <1>1, <1>2, <1>3, <1>4, <1>5 DEF Next
-----------------------------------------------------------------------------
(* The theorems.                                                            *)

\* The inductive invariant holds in every behaviour, crashes included.
THEOREM Invariance == Spec => []IInv
<1>1. Init => IInv
  BY InitInv
<1>2. IInv /\ [Next]_vars => IInv'
  BY NextInv
<1> QED BY <1>1, <1>2, PTL DEF Spec

\* Every column of metric_batches stays inside the CHECK constraints of its
\* migration, and every worker and operator inside its control states.
THEOREM TypeCorrect == Spec => []TypeOK
<1>1. IInv => TypeOK
  BY DEF IInv
<1> QED BY <1>1, Invariance, PTL

\* The samples of a batch are those of the payload first accepted, stored once,
\* and only for a PROCESSED row (process_next_batch).
THEOREM SamplesCorrect == Spec => []SamplesMatchBatch
<1>1. IInv => SamplesMatchBatch
  BY DEF IInv
<1> QED BY <1>1, Invariance, PTL

\* No worker can claim a row without payload, and no settled or parked row
\* keeps one.
THEOREM PayloadCorrect == Spec => []PayloadHeldWhileInFlight
<1>1. IInv => PayloadHeldWhileInFlight
  BY DEF IInv
<1> QED BY <1>1, Invariance, PTL

\* Any number of workers share the table without two of them working on a row.
THEOREM ClaimsExclusive == Spec => []SingleClaim
<1>1. IInv => SingleClaim
  BY DEF IInv
<1> QED BY <1>1, Invariance, PTL

\* The retry and reprocess counters never lose a failed attempt, for every
\* value of both limits.
THEOREM AttemptsAccounted == Spec => []AttemptBudget
<1>1. IInv => AttemptBudget
  BY DEF IInv
<1> QED BY <1>1, Invariance, PTL

\* Only StoreSamples, RecordFailure, AuthorizeRetry and the agent's handlers
\* change a status, and each re-reads it first.
LEMMA SettledStep ==
  ASSUME IInv, [Next]_vars, NEW b \in Batches, status[b] \in Settled
  PROVE  status'[b] = status[b]
<1> USE DEF Settled, IInv, TypeOK
<1>1. CASE AgentStep
  BY <1>1 DEF AgentStep, IngestBatch, ReuploadBatch
<1>2. ASSUME NEW w \in Workers, WorkerStep(w) PROVE status'[b] = status[b]
  <2>1. ASSUME NEW c \in Batches, SelectBatch(w, c) PROVE status'[b] = status[b]
    BY <2>1 DEF SelectBatch, rowVars
  <2>2. CASE ClaimBatch(w)
    BY <2>2 DEF ClaimBatch
  <2>3. CASE StoreSamples(w)
    BY <2>3 DEF StoreSamples
  <2>4. CASE StoreFails(w)
    BY <2>4 DEF StoreFails, rowVars
  <2>5. CASE RecordFailure(w)
    BY <2>5 DEF RecordFailure
  <2> QED BY <1>2, <2>1, <2>2, <2>3, <2>4, <2>5 DEF WorkerStep
<1>3. ASSUME NEW w \in Workers, AbandonBatch(w) PROVE status'[b] = status[b]
  BY <1>3 DEF AbandonBatch, rowVars
<1>4. ASSUME NEW o \in Operators, OperatorStep(o) PROVE status'[b] = status[b]
  <2>1. CASE AuthorizeRetry(o)
    BY <2>1 DEF AuthorizeRetry, Reopenable
  <2>2. CASE ~AuthorizeRetry(o)
    BY <1>4, <2>2 DEF OperatorStep, OperatorCommit, LockForRetry,
                      SnapshotDecision, DecideExhausted, rowVars
  <2> QED BY <2>1, <2>2
<1>5. CASE UNCHANGED vars
  BY <1>5 DEF vars, rowVars
<1> QED BY <1>1, <1>2, <1>3, <1>4, <1>5 DEF Next

\* No interleaving of late failure records, retries, re-uploads and crashes
\* moves a batch out of PROCESSED or DLQ_EXHAUSTED.
THEOREM SettledForEver == Spec => SettledIsFinal
<1>1. IInv /\ [Next]_vars
        => [\A b \in Batches : status[b] \in Settled => status'[b] = status[b]]_vars
  BY SettledStep
<1> QED BY <1>1, Invariance, PTL DEF Spec, SettledIsFinal
-----------------------------------------------------------------------------
(* When a purge is final.                                                   *)

\* Decisions are taken of exhausted batches only, and these stay exhausted.
DecidesExhausted ==
  /\ \A b \in Batches : decision[b].action # NoDecision => status[b] = "DLQ_EXHAUSTED"
  /\ \A o \in Operators : opc[o] = "deciding" => status[oreq[o].batch] = "DLQ_EXHAUSTED"

\* Agents and workers decide nothing.
LEMMA OthersDecideNothing ==
  ASSUME AgentStep \/ (\E w \in Workers : WorkerStep(w) \/ AbandonBatch(w))
  PROVE  UNCHANGED <<decision, opc, oreq>>
<1>1. ASSUME NEW w \in Workers, WorkerStep(w) PROVE UNCHANGED <<decision, opc, oreq>>
  BY <1>1 DEF WorkerStep, SelectBatch, ClaimBatch, StoreSamples, StoreFails, RecordFailure,
              operatorVars
<1>2. ASSUME NEW w \in Workers, AbandonBatch(w) PROVE UNCHANGED <<decision, opc, oreq>>
  BY <1>2 DEF AbandonBatch, operatorVars
<1>3. CASE AgentStep
  BY <1>3 DEF AgentStep, IngestBatch, ReuploadBatch, operatorVars
<1> QED
  BY <1>1, <1>2, <1>3

\* Whose step it is that touches requests or decisions.
LEMMA WhoDecides ==
  ASSUME [Next]_vars
  PROVE  \/ UNCHANGED <<decision, opc, oreq>>
         \/ \E o \in Operators :
              \/ (\E c \in Batches : LockForRetry(o, c)) \/ AuthorizeRetry(o)
              \/ \E c \in Batches, a \in Decision : SnapshotDecision(o, c, a)
              \/ DecideExhausted(o)
<1>1. CASE UNCHANGED vars
  BY <1>1 DEF vars, operatorVars
<1>2. CASE AgentStep \/ (\E w \in Workers : WorkerStep(w) \/ AbandonBatch(w))
  BY <1>2, OthersDecideNothing
<1> QED
  BY <1>1, <1>2 DEF Next, OperatorStep, OperatorCommit

\* A decision is written only by a request whose snapshot did not show PURGE_LOCAL.
LEMMA DecisionStep ==
  ASSUME IInv, [Next]_vars, NEW b \in Batches
  PROVE  \/ decision'[b] = decision[b]
         \/ \E o \in Operators : /\ opc[o] = "deciding" /\ oreq[o].batch = b
                                 /\ oreq[o].seen # "PURGE_LOCAL"
<1>1. decision \in [Batches -> Entry]
  BY DEF IInv, TypeOK
<1>2. ASSUME NEW o \in Operators, DecideExhausted(o)
      PROVE  /\ opc[o] = "deciding"
             /\ decision'[b] = decision[b] \/ (oreq[o].batch = b /\ oreq[o].seen # "PURGE_LOCAL")
  BY <1>1, <1>2 DEF DecideExhausted
<1>3. ASSUME NEW o \in Operators,
             \/ (\E c \in Batches : LockForRetry(o, c)) \/ AuthorizeRetry(o)
             \/ \E c \in Batches, a \in Decision : SnapshotDecision(o, c, a)
      PROVE  decision' = decision
  BY <1>3 DEF LockForRetry, AuthorizeRetry, SnapshotDecision
<1> QED
  BY <1>2, <1>3, WhoDecides

\* A request on its way was on its way or has seen the decision in force.
LEMMA RequestStep ==
  ASSUME IInv, [Next]_vars, NEW b \in Batches, NEW p \in Operators,
         opc'[p] = "deciding", oreq'[p].batch = b
  PROVE  \/ opc[p] = "deciding" /\ oreq'[p] = oreq[p]
         \/ oreq'[p].seen = decision[b].action /\ status[b] = "DLQ_EXHAUSTED"
<1>1. oreq \in [Operators -> Request] /\ opc \in [Operators -> {"idle", "retrying", "deciding"}]
  BY DEF IInv, TypeOK
<1>2. ASSUME NEW o \in Operators,
             (\E c \in Batches : LockForRetry(o, c)) \/ AuthorizeRetry(o) \/ DecideExhausted(o)
      PROVE  opc[p] = "deciding" /\ oreq'[p] = oreq[p]
  BY <1>1, <1>2 DEF LockForRetry, AuthorizeRetry, DecideExhausted
<1>3. ASSUME NEW o \in Operators, NEW c \in Batches, NEW a \in Decision, SnapshotDecision(o, c, a)
      PROVE  \/ opc[p] = "deciding" /\ oreq'[p] = oreq[p]
             \/ oreq'[p].seen = decision[b].action /\ status[b] = "DLQ_EXHAUSTED"
  BY <1>1, <1>3 DEF SnapshotDecision
<1>4. CASE UNCHANGED <<decision, opc, oreq>>
  BY <1>4
<1> QED
  BY <1>2, <1>3, <1>4, WhoDecides

LEMMA DecidesExhaustedStep ==
  ASSUME IInv, DecidesExhausted, [Next]_vars
  PROVE  DecidesExhausted'
<1>1. \A b \in Batches : status[b] = "DLQ_EXHAUSTED" => status'[b] = "DLQ_EXHAUSTED"
  BY SettledStep DEF Settled
<1>2. ASSUME NEW b \in Batches, decision'[b].action # NoDecision
      PROVE  status'[b] = "DLQ_EXHAUSTED"
  <2>1. CASE decision'[b] = decision[b]
    BY <1>1, <1>2, <2>1 DEF DecidesExhausted
  <2>2. CASE \E o \in Operators : opc[o] = "deciding" /\ oreq[o].batch = b
    BY <1>1, <2>2 DEF DecidesExhausted
  <2> QED
    BY <2>1, <2>2, DecisionStep
<1>3. ASSUME NEW o \in Operators, opc'[o] = "deciding"
      PROVE  status'[oreq'[o].batch] = "DLQ_EXHAUSTED"
  <2>1. oreq'[o].batch \in Batches
    BY <1>3, NextInv DEF IInv, LockInv
  <2>2. \/ opc[o] = "deciding" /\ oreq'[o] = oreq[o]
        \/ status[oreq'[o].batch] = "DLQ_EXHAUSTED"
    BY <1>3, <2>1, RequestStep
  <2> QED
    BY <1>1, <2>1, <2>2 DEF DecidesExhausted
<1> QED
  BY <1>2, <1>3 DEF DecidesExhausted

LEMMA SettledPurgeStep ==
  ASSUME IInv, DecidesExhausted, [Next]_vars, NEW b \in Batches, PurgeSettled(b)
  PROVE  PurgeSettled(b)' /\ status'[b] = "DLQ_EXHAUSTED"
<1>1. decision'[b] = decision[b]
  BY DecisionStep DEF PurgeSettled
<1>2. ASSUME NEW o \in Operators, opc'[o] = "deciding", oreq'[o].batch = b
      PROVE  oreq'[o].seen = "PURGE_LOCAL"
  <2>1. \/ opc[o] = "deciding" /\ oreq'[o] = oreq[o]
        \/ oreq'[o].seen = decision[b].action
    BY <1>2, RequestStep
  <2> QED
    BY <1>2, <2>1 DEF PurgeSettled
<1>3. status[b] = "DLQ_EXHAUSTED"
  BY DEF PurgeSettled, DecidesExhausted, NoDecision
<1> QED
  BY <1>1, <1>2, <1>3, SettledStep DEF PurgeSettled, Settled

\* Once no decision older than it is under way, PURGE_LOCAL stays in force and its
\* batch exhausted, for any number of operators and whatever they ask for at once
\* (decide_exhausted_batch, authorize_retry).
THEOREM SettledPurge == Spec => PurgeSettles
<1>1. Init => DecidesExhausted
  BY DEF Init, DecidesExhausted, NoEntry
<1>2. IInv /\ DecidesExhausted /\ [Next]_vars => DecidesExhausted'
  BY DecidesExhaustedStep
<1>3. IInv /\ DecidesExhausted /\ [Next]_vars
        => [\A b \in Batches : PurgeSettled(b) =>
              PurgeSettled(b)' /\ status'[b] = "DLQ_EXHAUSTED"]_vars
  BY SettledPurgeStep
<1> QED
  BY <1>1, <1>2, <1>3, Invariance, PTL DEF Spec, PurgeSettles
-----------------------------------------------------------------------------
(* The refinement of BatchLifecycle.                                        *)

\* The image of one row's status changing, the other rows staying put.
LEMMA PhaseMove ==
  ASSUME TypeOK, NEW b \in Batches, NEW st, NEW ph, PhaseOf[st] = ph,
         status' = [status EXCEPT ![b] = st]
  PROVE  [c \in Batches |-> PhaseOf[status'[c]]]
           = [[c \in Batches |-> PhaseOf[status[c]]] EXCEPT ![b] = ph]
<1>1. \A c \in Batches : PhaseOf[status'[c]] = IF c = b THEN ph ELSE PhaseOf[status[c]]
  BY DEF TypeOK
<1> QED BY <1>1

\* The phase of each status.
LEMMA PhaseFacts ==
  /\ PhaseOf["ABSENT"] = "absent"
  /\ PhaseOf["RECEIVED"] = "pending"
  /\ PhaseOf["PROCESSING"] = "pending"
  /\ PhaseOf["PROCESSED"] = "stored"
  /\ PhaseOf["DLQ"] = "parked"
  /\ PhaseOf["AWAITING_REUPLOAD"] = "awaiting"
  /\ PhaseOf["DLQ_EXHAUSTED"] = "exhausted"
  BY DEF PhaseOf

LEMMA LifecycleInit == Init => Lifecycle!Init
<1> SUFFICES ASSUME Init PROVE Lifecycle!Init
  OBVIOUS
<1>1. [b \in Batches |-> PhaseOf[status[b]]] = [b \in Batches |-> "absent"]
  BY PhaseFacts DEF Init
<1> QED BY <1>1 DEF Init, Lifecycle!Init

\* A step that leaves statuses, digests, samples and reopenings alone is
\* invisible.
LEMMA InvisibleStep ==
  ASSUME UNCHANGED <<status, digest, samples, reprocess>>
  PROVE  UNCHANGED Lifecycle!lifecycleVars
  BY DEF Lifecycle!lifecycleVars

LEMMA LifecycleStep ==
  ASSUME NEW b \in Batches,
         Lifecycle!Store(b) \/ Lifecycle!Park(b) \/ Lifecycle!Exhaust(b) \/ Lifecycle!Reopen(b)
  PROVE  Lifecycle!Next
  BY DEF Lifecycle!Next, Lifecycle!Finish

LEMMA AgentRefines ==
  ASSUME IInv, NEW b \in Batches, NEW d \in Digests,
         IngestBatch(b, d) \/ ReuploadBatch(b, d)
  PROVE  Lifecycle!Next
<1> USE PhaseFacts
<1>1. CASE IngestBatch(b, d)
  <2>1. status' = [status EXCEPT ![b] = "RECEIVED"] /\ status[b] = "ABSENT"
    BY <1>1 DEF IngestBatch
  <2>2. [c \in Batches |-> PhaseOf[status'[c]]]
           = [[c \in Batches |-> PhaseOf[status[c]]] EXCEPT ![b] = "pending"]
    BY <2>1, PhaseMove, PhaseFacts DEF IInv
  <2>3. Lifecycle!Accept(b, d)
    BY <1>1, <2>1, <2>2 DEF Lifecycle!Accept, Lifecycle!Move, IngestBatch
  <2> QED BY <2>3 DEF Lifecycle!Next
<1>2. CASE ReuploadBatch(b, d)
  <2>1. status' = [status EXCEPT ![b] = "RECEIVED"] /\ status[b] = "AWAITING_REUPLOAD"
    BY <1>2 DEF ReuploadBatch
  <2>2. [c \in Batches |-> PhaseOf[status'[c]]]
           = [[c \in Batches |-> PhaseOf[status[c]]] EXCEPT ![b] = "pending"]
    BY <2>1, PhaseMove, PhaseFacts DEF IInv
  <2>3. Lifecycle!Resume(b)
    BY <1>2, <2>1, <2>2 DEF Lifecycle!Resume, Lifecycle!Move, ReuploadBatch
  <2> QED BY <2>3 DEF Lifecycle!Next
<1> QED BY <1>1, <1>2

LEMMA ClaimRefines ==
  ASSUME IInv, NEW w \in Workers, ClaimBatch(w)
  PROVE  UNCHANGED Lifecycle!lifecycleVars
<1>1. /\ wbatch[w] \in Batches /\ status[wbatch[w]] = "RECEIVED"
      /\ status' = [status EXCEPT ![wbatch[w]] = "PROCESSING"]
      /\ UNCHANGED <<digest, samples, reprocess>>
  BY DEF IInv, WorkerInv, ClaimBatch
<1>2. \A c \in Batches : PhaseOf[status'[c]] = PhaseOf[status[c]]
  BY <1>1, PhaseFacts DEF IInv, TypeOK
<1> QED BY <1>1, <1>2 DEF Lifecycle!lifecycleVars

LEMMA StoreRefines ==
  ASSUME IInv, NEW w \in Workers, StoreSamples(w)
  PROVE  Lifecycle!Next
<1>0. PICK b \in Batches : b = wbatch[w]
  BY DEF IInv, WorkerInv, StoreSamples
<1>1. /\ status[b] = "PROCESSING"
      /\ wpayload[w] = digest[b] /\ samples[b] = {}
  BY <1>0 DEF IInv, WorkerInv, StoreSamples, SamplesMatchBatch
<1>2. /\ status' = [status EXCEPT ![b] = "PROCESSED"]
      /\ samples' = [samples EXCEPT ![b] = {digest[b]}]
      /\ UNCHANGED <<digest, reprocess>>
  BY <1>0, <1>1 DEF StoreSamples
<1>3. [c \in Batches |-> PhaseOf[status'[c]]]
         = [[c \in Batches |-> PhaseOf[status[c]]] EXCEPT ![b] = "stored"]
  <2>1. PhaseOf["PROCESSED"] = "stored" /\ TypeOK
    BY PhaseFacts DEF IInv
  <2> QED BY <1>1, <1>2, <2>1, PhaseMove
<1>4. Lifecycle!Store(b)
  BY <1>1, <1>2, <1>3, PhaseFacts DEF Lifecycle!Store, Lifecycle!Move
<1> QED BY <1>4, LifecycleStep

LEMMA FailureRefines ==
  ASSUME IInv, NEW w \in Workers, RecordFailure(w)
  PROVE  [Lifecycle!Next]_(Lifecycle!lifecycleVars)
<1>0. PICK b \in Batches : b = wbatch[w]
  BY DEF IInv, WorkerInv, RecordFailure
<1> DEFINE n == NextFailureState(retry[b], reprocess[b])
<1>1. UNCHANGED <<digest, samples, reprocess>>
  BY DEF RecordFailure
<1>2. CASE status[b] # "PROCESSING"
  BY <1>0, <1>1, <1>2, InvisibleStep DEF RecordFailure
<1>3. CASE status[b] = "PROCESSING"
  <2>1. retry[b] \in 0..MaxRetry /\ retry[b] < MaxRetry /\ reprocess[b] \in 0..MaxReprocess
    BY <1>1, <1>3, RetryAssumption DEF IInv, RowInv, TypeOK
  <2>2. n.status = IF retry[b] + 1 < MaxRetry THEN "RECEIVED"
                   ELSE IF reprocess[b] = MaxReprocess THEN "DLQ_EXHAUSTED" ELSE "DLQ"
    BY <2>1, NextFailureStateFacts
  <2>3. status' = [status EXCEPT ![b] = n.status]
    BY <1>0, <1>3 DEF RecordFailure
  <2> HIDE DEF n
  <2>4. [c \in Batches |-> PhaseOf[status'[c]]]
           = [[c \in Batches |-> PhaseOf[status[c]]] EXCEPT ![b] = PhaseOf[n.status]]
    BY <1>1, <2>3, PhaseMove DEF IInv
  <2>5. PhaseOf[status[b]] = "pending"
    BY <1>3, PhaseFacts
  <2>6. CASE n.status = "RECEIVED"
    <3>1. \A c \in Batches : PhaseOf[status'[c]] = PhaseOf[status[c]]
      BY <1>1, <1>3, <2>3, <2>6, PhaseFacts DEF IInv, TypeOK
    <3> QED BY <1>1, <3>1 DEF Lifecycle!lifecycleVars
  <2>7. CASE n.status = "DLQ_EXHAUSTED"
    <3>1. reprocess[b] = MaxReprocess
      BY <2>2, <2>7
    <3>2. Lifecycle!Exhaust(b)
      BY <1>1, <2>4, <2>5, <2>7, <3>1, PhaseFacts DEF Lifecycle!Exhaust, Lifecycle!Move
    <3> QED BY <3>2, LifecycleStep
  <2>8. CASE n.status = "DLQ"
    <3>1. reprocess[b] < MaxReprocess
      BY <2>1, <2>2, <2>8, ReprocessAssumption
    <3>2. Lifecycle!Park(b)
      BY <1>1, <2>4, <2>5, <2>8, <3>1, PhaseFacts DEF Lifecycle!Park, Lifecycle!Move
    <3> QED BY <3>2, LifecycleStep
  <2> QED BY <2>2, <2>6, <2>7, <2>8
<1> QED BY <1>2, <1>3

LEMMA AuthorizeRefines ==
  ASSUME IInv, NEW o \in Operators, AuthorizeRetry(o)
  PROVE  [Lifecycle!Next]_(Lifecycle!lifecycleVars)
<1>0. PICK b \in Batches : b = oreq[o].batch
  BY DEF IInv, LockInv, AuthorizeRetry
<1>1. UNCHANGED <<digest, samples>>
  BY DEF AuthorizeRetry
<1>2. CASE ~Reopenable(b)
  BY <1>0, <1>1, <1>2, InvisibleStep DEF AuthorizeRetry
<1>3. CASE Reopenable(b)
  <2>1. /\ status[b] = "DLQ"
        /\ status' = [status EXCEPT ![b] = "AWAITING_REUPLOAD"]
        /\ reprocess' = [reprocess EXCEPT ![b] = reprocess[b] + 1]
    BY <1>0, <1>3 DEF AuthorizeRetry, Reopenable
  <2>2. [c \in Batches |-> PhaseOf[status'[c]]]
           = [[c \in Batches |-> PhaseOf[status[c]]] EXCEPT ![b] = "awaiting"]
    <3>1. PhaseOf["AWAITING_REUPLOAD"] = "awaiting" /\ TypeOK
      BY PhaseFacts DEF IInv
    <3> QED BY <1>1, <2>1, <3>1, PhaseMove
  <2>3. Lifecycle!Reopen(b)
    BY <1>1, <2>1, <2>2, PhaseFacts DEF Lifecycle!Reopen, Lifecycle!Move
  <2> QED BY <2>3, LifecycleStep
<1> QED BY <1>2, <1>3

LEMMA StepRefines ==
  IInv /\ [Next]_vars => [Lifecycle!Next]_(Lifecycle!lifecycleVars)
<1> SUFFICES ASSUME IInv, [Next]_vars
             PROVE  [Lifecycle!Next]_(Lifecycle!lifecycleVars)
  OBVIOUS
<1> DEFINE Image == [Lifecycle!Next]_(Lifecycle!lifecycleVars)
<1>1. CASE AgentStep
  BY <1>1, AgentRefines DEF AgentStep
<1>2. ASSUME NEW w \in Workers, WorkerStep(w) PROVE Image
  <2>1. CASE StoreFails(w) \/ \E c \in Batches : SelectBatch(w, c)
    BY <2>1, InvisibleStep DEF StoreFails, SelectBatch, rowVars
  <2> QED BY <1>2, <2>1, ClaimRefines, StoreRefines, FailureRefines DEF WorkerStep
<1>3. ASSUME NEW w \in Workers, AbandonBatch(w) PROVE Image
  BY <1>3, InvisibleStep DEF AbandonBatch, rowVars
<1>4. ASSUME NEW o \in Operators, OperatorStep(o) PROVE Image
  <2>1. CASE AuthorizeRetry(o)
    BY <2>1, AuthorizeRefines
  <2>2. CASE ~AuthorizeRetry(o)
    <3>1. UNCHANGED rowVars /\ UNCHANGED samples
      BY <1>4, <2>2 DEF OperatorStep, OperatorCommit, LockForRetry,
                        SnapshotDecision, DecideExhausted
    <3> QED BY <3>1, InvisibleStep DEF rowVars
  <2> QED BY <2>1, <2>2
<1>5. CASE UNCHANGED vars
  BY <1>5, InvisibleStep DEF vars, rowVars
<1> QED BY <1>1, <1>2, <1>3, <1>4, <1>5 DEF Next

\* The inbox with its workers, row locks, retry counters and crashes implements
\* the batch lifecycle.
THEOREM Refinement == Spec => ImplementsLifecycle
<1>1. Init => Lifecycle!Init
  BY LifecycleInit
<1>2. IInv /\ [Next]_vars => [Lifecycle!Next]_(Lifecycle!lifecycleVars)
  BY StepRefines
<1> QED BY <1>1, <1>2, Invariance, PTL DEF Spec, ImplementsLifecycle, Lifecycle!Spec
=============================================================================
