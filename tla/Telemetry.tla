------------------------------- MODULE Telemetry -------------------------------
(***************************************************************************)
(* The telemetry pipeline end to end: the agent's queue and loop            *)
(* (AgentQueue), an unreliable HTTP connection, and the server as the       *)
(* lifecycle its inbox implements (BatchLifecycle; MetricBatches refines    *)
(* it).                                                                     *)
(*                                                                          *)
(* A batch is identified on both sides by its interval of samples, and the  *)
(* payload posted under an identifier is always that interval.  A request   *)
(* can be lost, and it can be answered too late: the agent gives up and     *)
(* posts again while the first copy is still on its way.                    *)
(***************************************************************************)
EXTENDS AgentQueue

CONSTANTS
  MaxReprocess,    \* times the server reopens a parked batch
  ServerLimit,     \* samples the server takes in one request, before HTTP 413
  FullClient       \* does a caller use the dispatcher's whole interface, with a
                   \* sender that can re-upload?  The shipped loop does not.

ASSUME TelemetryAssumption ==
  {MaxReprocess, ServerLimit} \subseteq Nat /\ FullClient \in BOOLEAN

VARIABLES
  phase, accepted, stored, reopened,   \* the server's batches
  purge,      \* batches whose PURGE_LOCAL decision is in force
  wire,       \* posted batches the server has not handled yet
  reuploads,  \* re-uploads the server has not handled yet
  reply,      \* HTTP answer on its way to the waiting agent
  report      \* answer to the agent's last status query

serverVars == <<phase, accepted, stored, reopened, purge>>
netVars    == <<wire, reuploads, reply, report>>
vars       == <<agentVars, serverVars, netVars>>

Ids  == {id \in (1..MaxSamples) \X (1..MaxSamples) : id[1] <= id[2]}
NoId == <<0, 0>>
Id(r) == <<r.first, r.last>>
SamplesIn(id) == id[1]..id[2]
Queued(id) == \E r \in ToSet(queue) : Id(r) = id

NoReply  == 0
NoReport == [id |-> NoId, status |-> "NONE"]

Server == INSTANCE BatchLifecycle WITH
            Batches <- Ids, Digests <- Ids, NoDigest <- NoId

TypeOK ==
  /\ AgentTypeOK
  /\ Server!LifecycleTypeOK
  /\ purge \subseteq Ids
  /\ wire \subseteq Ids /\ reuploads \subseteq Ids
  /\ reply \in {NoReply, 202, 401, 413, 503}
  /\ report \in [id : Ids \cup {NoId}, status : RemoteStatus \cup {"NONE"}]

Init ==
  /\ AgentInit
  /\ Server!Init
  /\ purge = {}
  /\ wire = {} /\ reuploads = {}
  /\ reply = NoReply
  /\ report = NoReport
-----------------------------------------------------------------------------
(* The agent.                                                               *)

\* Steps of the loop that send nothing.
AgentLocal ==
  /\ \/ \E n \in BatchSizes : Collect(n, FALSE)
     \/ CollectNothing
     \/ Sleep /\ report = NoReport
  /\ UNCHANGED <<serverVars, netVars>>

\* The oldest due batch is posted.
Post ==
  /\ StartDispatch
  /\ wire' = IF pc' = "sending" THEN wire \cup {Id(sending')} ELSE wire
  /\ UNCHANGED <<serverVars, reuploads, reply, report>>

\* The answer arrives and dispatch_once acts on it.
TakeReply ==
  /\ \/ reply = 202 /\ Accepted
     \/ reply = 413 /\ TooLarge
     \/ reply = 401 /\ Rejected
     \/ reply = 503 /\ Retry
  /\ reply' = NoReply
  /\ UNCHANGED <<serverVars, wire, reuploads, report>>

\* No answer within the timeout.
TimeOut ==
  /\ Retry
  /\ reply' = NoReply
  /\ UNCHANGED <<serverVars, wire, reuploads, report>>

AgentRestarts ==
  /\ Restart
  /\ reply' = NoReply
  /\ report' = NoReport
  /\ UNCHANGED <<serverVars, wire, reuploads>>

\* What the status endpoint says of a batch (get_batch_status, with the
\* decision in place of the status once there is one).
RemoteOf(id) ==
  CASE phase[id] = "pending"   -> "RECEIVED"
    [] phase[id] = "stored"    -> "PROCESSED"
    [] phase[id] = "parked"    -> "DLQ"
    [] phase[id] = "awaiting"  -> "AWAITING_REUPLOAD"
    [] phase[id] = "exhausted" -> IF id \in purge THEN "PURGE_LOCAL"
                                                  ELSE "DLQ_EXHAUSTED"

\* A caller of the whole interface asks for a status; the answer may be out of
\* date when it is applied.
QueryStatus(r) ==
  /\ FullClient
  /\ pc = "sleeping"
  /\ phase[Id(r)] # "absent"
  /\ report' = [id |-> Id(r), status |-> RemoteOf(Id(r))]
  /\ UNCHANGED <<agentVars, serverVars, wire, reuploads, reply>>

ApplyStatus(r) ==
  /\ report.id = Id(r)
  /\ Reconcile(r, report.status)
  /\ report' = NoReport
  /\ UNCHANGED <<serverVars, wire, reuploads, reply>>

\* reupload_batch: post the payload again; the row is deferred on every answer
\* but a terminal one, which leaves it alone.
Reupload(r) ==
  /\ FullClient
  /\ pc = "sleeping"
  /\ phase[Id(r)] = "awaiting"
  /\ reuploads' = reuploads \cup {Id(r)}
  /\ \/ \E delay \in {PollDelay} \cup Backoff(r) : Defer(r, delay)
     \/ UNCHANGED <<storeVars, fateVars>>
  /\ UNCHANGED <<collected, protected, pc, sending, serverVars, wire, reply,
                 report>>
-----------------------------------------------------------------------------
(* The server.                                                              *)

\* The answer reaches the agent if it still waits for this request.
ReplyTo(id, code) ==
  reply' = IF pc = "sending" /\ Id(sending) = id THEN code ELSE reply

\* The body exceeds the server's limit.
Large(id) == id[2] - id[1] >= ServerLimit

Handles(id) == id \in wire /\ wire' = wire \ {id}

\* Faulty variant of Ingest: the batch is stored before its size is checked.
IngestThenRefuse(id) ==
  /\ Handles(id)
  /\ ReplyTo(id, IF Large(id) THEN 413 ELSE 202)
  /\ IF phase[id] = "absent"
       THEN Server!Accept(id, id)
       ELSE UNCHANGED <<phase, accepted, stored, reopened>>
  /\ UNCHANGED <<agentVars, purge, reuploads, report>>

\* enforce_metric_batch_size refuses the body before anything is stored;
\* ingest_metric_batch answers 202 whether the batch is new or known.
Ingest(id) ==
  /\ Handles(id)
  /\ IF Large(id)
       THEN ReplyTo(id, 413) /\ UNCHANGED <<phase, accepted, stored, reopened>>
       ELSE /\ ReplyTo(id, 202)
            /\ IF phase[id] = "absent"
                 THEN Server!Accept(id, id)
                 ELSE UNCHANGED <<phase, accepted, stored, reopened>>
  /\ UNCHANGED <<agentVars, purge, reuploads, report>>

\* Refused before the handler: a revoked token, a rate limit, no database.
Refuse(id) ==
  /\ Handles(id)
  /\ \E code \in {401, 503} : ReplyTo(id, code)
  /\ UNCHANGED <<agentVars, serverVars, reuploads, report>>

Lose(id) ==
  /\ Handles(id)
  /\ UNCHANGED <<agentVars, serverVars, reuploads, reply, report>>

HandleReupload(id) ==
  /\ id \in reuploads
  /\ reuploads' = reuploads \ {id}
  /\ IF phase[id] = "awaiting"
       THEN Server!Resume(id)
       ELSE UNCHANGED <<phase, accepted, stored, reopened>>
  /\ UNCHANGED <<agentVars, purge, wire, reply, report>>

\* The workers settle a pending batch.
Work(id) ==
  /\ Server!Finish(id)
  /\ UNCHANGED <<agentVars, purge, netVars>>

\* An operator retries a parked batch, or gives an exhausted one up.
Reopen(id) ==
  /\ Server!Reopen(id)
  /\ UNCHANGED <<agentVars, purge, netVars>>

DecidePurge(id) ==
  /\ phase[id] = "exhausted"
  /\ id \notin purge
  /\ purge' = purge \cup {id}
  /\ UNCHANGED <<agentVars, phase, accepted, stored, reopened, netVars>>
-----------------------------------------------------------------------------
AgentLoop == AgentLocal \/ Post \/ TakeReply

ServerStep(id) == Ingest(id) \/ Refuse(id) \/ HandleReupload(id) \/ Work(id)
                    \/ Reopen(id) \/ DecidePurge(id)

Next == \/ AgentLoop \/ TimeOut \/ AgentRestarts
        \/ \E r \in ToSet(queue) : QueryStatus(r) \/ ApplyStatus(r) \/ Reupload(r)
        \/ \E id \in Ids : ServerStep(id) \/ Lose(id)

Spec == Init /\ [][Next]_vars

\* The loop never stops, the server keeps handling requests and draining its
\* inbox, and the connection does not lose every request or every answer.
FairSpec == /\ Spec
            /\ WF_vars(AgentLoop) /\ WF_vars(TimeOut) /\ SF_vars(TakeReply)
            /\ \A id \in Ids : /\ SF_vars(pc = "sending" /\ Ingest(id))
                               /\ WF_vars(Work(id))
-----------------------------------------------------------------------------
(* Properties.                                                              *)

\* No measurement is stored twice under two batch identifiers: a batch that is
\* split after a 413 was never accepted whole, in spite of retries and of
\* requests that arrive after the agent gave up on them.
StoredOnce ==
  \A a, b \in Ids :
    a # b /\ stored[a] # {} /\ stored[b] # {} => SamplesIn(a) \cap SamplesIn(b) = {}

\* The agent deletes a sample as confirmed only when the server has stored it or
\* an operator gave it up, however old the status it acted on; so a parked or
\* awaiting batch, whose payload the server has dropped, can still be sent.
AcknowledgedIsSafe ==
  \A s \in acknowledged :
    \E id \in Ids : s \in SamplesIn(id) /\ (stored[id] # {} \/ id \in purge)

\* "Agente retiene lotes locales con HTTP 202 hasta confirmar estado PROCESSED":
\* once the server has processed a batch, the agent learns of it and stops
\* keeping it.
ProcessedIsConfirmed ==
  \A id \in Ids : phase[id] = "stored" /\ Queued(id) ~> ~Queued(id)
-----------------------------------------------------------------------------
(* The inductive invariant behind StoredOnce and AcknowledgedIsSafe.        *)

Known(id) == phase[id] # "absent"
Posted == wire \cup {id \in Ids : Known(id)}
Meet(a, b) == SamplesIn(a) \cap SamplesIn(b) # {}

\* An answer is for the request the agent waits for.
ReplyInv ==
  reply # NoReply => pc = "sending" /\ (reply = 413 => Large(Id(sending)))

\* Of two batches that share a sample, posted or still queued, the server has
\* refused or will refuse one: the one that was split.
OverlapInv ==
  /\ \A id \in Ids : Known(id) => ~Large(id)
  /\ \A id \in Posted : id[2] <= collected
  /\ \A id \in Posted, r \in ToSet(queue) : Id(r) # id /\ Meet(Id(r), id) => Large(id)
  /\ \A a, b \in Posted : a # b /\ Meet(a, b) => Large(a) \/ Large(b)

ServerInv ==
  \A id \in Ids : /\ phase[id] = "stored" <=> stored[id] # {}
                  /\ phase[id] # "absent" => accepted[id] = id
                  /\ phase[id] = "parked" => reopened[id] < MaxReprocess

\* A status that lets the agent delete a batch stays true.
ReportInv ==
  /\ report.status = "NONE" => report.id = NoId
  /\ report.status = "PROCESSED" => report.id \in Ids /\ stored[report.id] # {}
  /\ report.status = "PURGE_LOCAL" => report.id \in purge

PipelineInv == /\ TypeOK
               /\ AgentInv
               /\ ReplyInv
               /\ OverlapInv
               /\ ServerInv
               /\ ReportInv
               /\ AcknowledgedIsSafe
=============================================================================
