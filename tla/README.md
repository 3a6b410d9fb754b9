# Nexus-IT: formal models

Nexus-IT monitors and supports PCs. An agent on each PC collects telemetry and
executes remote actions; a FastAPI server over PostgreSQL and Redis receives
the telemetry, raises alerts, keeps tickets and their attachments, and signs the
actions. This directory holds TLA+ models of the parts in which order, failure
and concurrency matter, the TLC instances that check them, and TLAPS proofs.

Contents: [inventory](#1-inventory), [modules](#2-modules),
[model and code](#3-model-and-code), [runs](#4-runs-and-bounds),
[fairness](#5-fairness), [proofs](#6-proofs),
[findings](#7-where-the-code-and-its-documents-disagree),
[limits](#8-what-is-not-covered), [plan](#9-plan).

## 1. Inventory

Paths are relative to `src/`. PROJECT.json lists every component and, under
"hazards", each place where this code is hard to test.

| component | state | operations | talks to |
| --- | --- | --- | --- |
| **Metric inbox and worker** (`backend/app/metrics/{postgres,service,worker}.py`, `api/metrics.py`) | `metric_batches`, `metric_samples`, the alert of an exhausted batch, decisions in `audit_logs` | ingest, re-upload, claim, store, record failure, authorize retry, decide an exhausted batch | agent over HTTP; operators; workers share the table through row locks |
| **Agent queue and dispatcher** (`agent/nexus_agent/{storage,dispatcher}.py`, `agent/run_agent.py`) | SQLite `queued_batches`, `batch_quarantine`, `sample_quarantine`, `local_audit` | enqueue, evict, next, acknowledge, defer, split, quarantine, expire, reconcile, isolate a corrupt file | server over HTTP |
| **Remote actions** (`backend/app/support`, `agent/nexus_agent/actions.py`, `run_agent.py`) | `action_executions`; SQLite `consumed_nonces`, `action_states` | request, approve, poll, acknowledge, report; accept, claim, execute, finish, reconcile after restart | console, agent, the device's tokens |
| **Attachments and outbox** (`backend/app/support/{postgres,service,attachments}.py`) | `ticket_attachments`, `attachment_deletions_outbox`, files on a private volume | upload, delete attachment, delete ticket, claim, unlink, mark completed or failed | tickets (foreign key), the volume |
| **Accounts** (`backend/app/auth`, `app/users`, `app/administration`, `api/{auth,users,administration,dependencies}.py`) | `users`, `user_sessions`, `organization_memberships`, `user_roles`, `password_reset_tokens`; failures and locks in Redis | login, change of context, logout, authenticated request; create, deactivate, remove a member, revoke its sessions, create and assign a role; request, deliver, confirm a reset | console, Redis, SMTP; row-level security decides what a transaction sees |
| **Devices** (`backend/app/devices`, `api/devices.py`) | `devices`, `device_tokens`, `device_inventory`, `device_assignments` | enrol, update, rotate, disconnect, revoke, delete, assign; authenticate an agent, write an inventory | console, agents, members (foreign key) |
| **Alerts** (`backend/app/metrics/{postgres,service,worker}.py`) | `alert_rules`, `alerts` | create a rule; evaluate, open, resolve, commit, publish | metric worker, e-mail, realtime |
| **Realtime** (`backend/app/realtime/hub.py`, `api/realtime.py`) | one bounded buffer per WebSocket client | connect, publish, receive, send, pong, close | Redis channels, alerts |
| **Metric maintenance** (`backend/app/metrics/maintenance.py`, migration 0023) | `metric_samples`, `metric_aggregates`, an advisory lock | elect a leader, roll up by hour and by day, apply retention | metric worker; the other processes' maintenance workers |
| Tickets and comments | `tickets`, `ticket_comments` | create, transition, comment | console |
| Shutdown (`backend/app/main.py`) | background tasks | start, stop | workers |
| Web console, installer, migrations, infrastructure | - | - | - |

What is hard, and what makes each component right:

- **Metric inbox.** A claim and its work are two transactions, so a failure, a
  cancellation or a lost commit acknowledgement can fall between them; several
  workers and operators meet on one row. Right means: the stored samples are
  those of the payload first accepted, once; a row in flight has its payload;
  tries are bounded; a settled batch stays settled; every accepted batch leaves
  the queue; an irrevocable decision is taken back by nothing that begins after it.
- **Agent queue.** Two quotas and a physical one, eviction in the middle of an
  insertion, splitting that replaces one row by two, exceptions that must roll
  back. Right means: every sample is in one place or gone for one recorded
  reason, the quotas hold, critical batches are not evicted.
- **Pipeline end to end.** Time-outs racing late requests, 413 answers that make
  the agent split what it already posted, stale status answers. Right means: no
  sample stored twice, none deleted by the agent before it is safe, and a
  processed batch is eventually let go.
- **Remote actions.** Orders are delivered at least once and must run at most
  once, through crashes at any step, two runners on one store, clocks that
  differ, and requests handled after the agent gave up on them. Right means: at
  most one execution, never without the approval it needs, and a server record
  that only says what happened at the agent and never changes once final.
- **Attachments.** A file store and a database without a common transaction.
  Right means: a row has its file, a file without a row is being pursued, and
  the outbox says COMPLETED only of what is gone.
- **Accounts.** A login is three transactions around a password check in a
  thread; an authenticated request commits its authentication before its handler
  starts, and the handler of a role relies on the permissions read then. Members
  are removed while they log in, change context or are given a role. Right means:
  who is not a member has neither session nor role, a change of context replaces
  one session by one, a revoked session admits nobody, a reset token works once.
- **Devices.** Statements that lock several rows one at a time, in orders that
  differ between operations. Right means: deletion leaves no token, whoever
  writes an inventory may do so when it is committed, no credential is prolonged
  or brought back, and what deadlocks is known.
- **Alerts and realtime.** Each API process has a worker and all of them evaluate
  the same rules, reading and writing statement by statement; publication comes
  after the commit. Right means: in the end an alert agrees with its device, and a
  console that stays connected gets its alerts whatever its buffer drops.

- **Maintenance.** Every process has a worker, a lock elects one for the day's
  cycle, and the cycle goes on should it lose it. Samples may arrive weeks late. Right
  means: what came in time is summarised when its raw rows are gone, and an aggregate
  is completed, never cut down.

## 2. Modules

| module | about | composes |
| --- | --- | --- |
| `BatchLifecycle` | abstract: what the server promises about one batch (absent, pending, stored, parked, awaiting, exhausted) | |
| `MetricBatches` | the inbox in detail: rows, row locks, workers, operators, crashes | implements `BatchLifecycle` |
| `MetricBatches_proofs` | TLAPS proofs about `MetricBatches` | extends it |
| `AgentQueue` | the agent's queue, dispatcher and loop, with any HTTP answer | |
| `Telemetry` | agent, unreliable connection and server | extends `AgentQueue`, instantiates `BatchLifecycle` |
| `Telemetry_proofs` | TLAPS proofs about `AgentQueue` and `Telemetry` | extends `Telemetry` |
| `ActionLifecycle` | abstract: what a remote action promises (ordered, taken, run once, settled or given up, recorded as it went) | |
| `RemoteActions` | server, agent store, runners, requests in flight, clocks, tokens | implements `ActionLifecycle` |
| `RemoteActions_proofs` | TLAPS proofs about `RemoteActions` | extends it |
| `Attachments` | uploads, deletions, outbox workers and the volume | |
| `Attachments_proofs` | TLAPS proofs about `Attachments` | extends it |
| `Accounts` | logins, sessions, members, roles, password reset | |
| `Accounts_proofs` | TLAPS proofs about `Accounts` | extends it |
| `Devices` | devices, tokens, inventory, with PostgreSQL row locks and deadlocks | |
| `Devices_proofs` | TLAPS proofs about `Devices` | extends it |
| `Alerts` | rules, samples by age, workers evaluating them | |
| `Realtime` | Redis channels and the bounded buffers of the connections | |
| `Monitoring` | from samples to consoles | extends `Alerts` and `Realtime` |
| `Monitoring_proofs` | TLAPS proofs about `Alerts`, `Realtime` and `Monitoring` | extends `Monitoring` |
| `Maintenance` | roll-ups and retention under the leader lock | |
| `Maintenance_proofs` | TLAPS proofs about `Maintenance` | extends it |
| `MC*` | constants and symmetry for TLC | extend the above |

`Telemetry` uses the server only through `BatchLifecycle`; that this is
legitimate is what `MetricBatches!ImplementsLifecycle` says, which is checked by
TLC and proved, as is `RemoteActions!ImplementsLifecycle` of `ActionLifecycle`.

Operators whose comment begins with "Faulty variant" or "Mutant" are not part of any
specification. Each is a plausible mistake in one definition; substituting it
makes the property it is paired with (PROJECT.json, "mutants") fail, which shows
that the property depends on that piece of code.

## 3. Model and code

PROJECT.json "map" gives the lines each definition translates. In general, a
database transaction is one step; it is two where another transaction can see or
act on the intermediate state.

**MetricBatches.** One row per batch; payloads are named by their digest.

- `IngestBatch`, `ReuploadBatch`: the agent's handlers. A batch that is already
  there is left alone, whatever the digest.
- `SelectBatch` (the `FOR UPDATE SKIP LOCKED` select), `ClaimBatch` (UPDATE and
  commit), `StoreSamples` (second transaction), `StoreFails` (any exception, or a
  commit whose acknowledgement is lost) and `RecordFailure` (third transaction).
- `AbandonBatch`: the worker's task disappears, in a crash or by `task.cancel()`
  in `main.py`. It is enabled by `CrashAllowed`.
- `LockForRetry` / `AuthorizeRetry`: the operator's retry holds a row lock that
  `SKIP LOCKED` skips. `SnapshotDecision` / `DecideExhausted`: the previous
  decision comes from a subquery of the `SELECT ... FOR UPDATE`, evaluated on the
  snapshot taken when the statement starts, before the row lock is obtained.

**AgentQueue.** Samples are numbered as they are collected, so a batch is an
interval. The sizes in bytes are functions of the number of samples, one for the
compressed queue and one for the encrypted quarantine; nothing is assumed of them, not
even that more samples take more bytes. An operation that raises
leaves the store unchanged (`BEGIN IMMEDIATE` and rollback) and ends the cycle.
The loop is `pc`: collect, dispatch, sending, sleeping.

**Telemetry.** A request is an identifier in `wire` until the server handles or
loses it; the agent may time out first and post again. `FullClient` adds callers
of the dispatcher's whole interface (status queries, re-upload); the shipped
loop uses neither.

**RemoteActions.** An order is the action and its time of issue; the signature is
the server's and verifies, unless the order is outside its window (`Fresh`). The
store's two UNIQUE columns are one condition because an action has one nonce. The
agent reads its clock once per poll (`asOf`), consumes the nonce (`AcceptOrder`),
acknowledges, claims, runs, records and reports; `pc` has one value between any
two of them. `Restart` is `reconcile_after_restart`, run by every start of the
agent, also while another runner shares the store. `AbandonOrder` is the
loop's `except` around one order.

**Attachments.** Stored names are random, so each upload has its file. An
uncommitted row holds a share lock on its ticket through the foreign key, which
`FinishTicketDelete` waits for; what it queues is what its statement saw
(`StartTicketDelete`). History variables name the three ways a file is left
behind or a row left bare (`uncertain`, `overlooked`, `stranded`).

**Accounts.** Every request is a call with a stage; `HeldSessions`, `HeldTokens`
and `Referenced` say which rows an open transaction holds.

- *Login*: `StartLogin` (the limiter), `ReadCredential`, `ListMemberships`,
  `OpenSession` / `OpenRefused` (revocation of the old session and insertion of the
  new one, which the policy refuses without an active membership), `CommitLogin`,
  `CountSuccess`; or `RecordFailure` in the database and `CountFailure` in Redis.
- *Sessions*: `Present` reads the session, `Touch` renews it under its row lock.
  Then `Enter` (the handler starts, with the permissions read), `EnterLimited`,
  `GetMe`, `SelectContext` / `CommitContext`, or `Logout`.
- *Administration*: the functions of migration 0022 ask again whether the actor
  manages the tenant (`StillAllowed`); the routes of roles do not (`Allowed`). They
  are owned by the superuser that runs the migrations, so that row-level security
  does not restrict them. `DeleteMember` waits for the sessions it removes
  (`FreeSession`) and for insertions that refer to the membership (`Referenced`).
- *Reset*: `RequestReset`, `IssueToken`, `Deliver` (background, may fail),
  `StartConfirm`, `LockToken`, `Consume`. `Visible` is the policy on
  `user_sessions`: the row with the user and the hash that the transaction has set.
- `Abort` is any rollback, refusal for CSRF included. `Limited` lets the counters of
  the address and of the pair refuse any login. `users.is_active`, which no code
  writes, is left out, and a custom role grants nothing.

**Devices.** `Holds` and `Wants` give, for each stage of a call, the row locks it
has and the one it waits for; `Granted` is the absence of a conflicting holder,
`Ring` a deadlock, `BreakDeadlock` PostgreSQL's way out of it. An UPDATE is a
selection on the statement's snapshot (`SelectOlder`, `SelectLive`) followed by one
lock at a time and a new check of the condition (`CutToken`, `LockRevoked`). The UPDATEs
have no ORDER BY, so a statement may come to its tokens in any order (`NextOf`).
`RequestDisconnect` is `/disconnect`, which rotates the token and discards the new
one. The agent's side is `PresentToken`, `FindToken`, `ActivateIdentity` (FOR
SHARE), `RecordUse` (UPDATE of the same row), then `IngestBatch`, or `CheckWriter`,
`StoreInventory` and `FinishInventory`. Whether the tenant itself is active is left
out.

**Alerts.** A sample is known by its age, `Tick` makes all older by one. `Run` and
`Triggered` are `evaluate_rule`. A cycle is `StartEvaluation`, then per device
`ReadSamples`, `ReadExisting` and one of `OpenAlert`, `ResolveAlert`, `LeaveAlert`,
then `CommitEvaluation` and one `Publish` for each alert written. Each statement
sees what is committed when it begins; `Pending` is the wait for another worker's
uncommitted row; the unique index turns a second active alert into `Abort` of the
whole cycle. The devices come in any order (`SELECT DISTINCT`). The UPDATE that
resolves is by id, without a condition on the status: the alert that another worker has
resolved after it was read is resolved once more (`"AGAIN"`), which does not touch the
alert opened since.
The worker judges by the time it read first, so the clock waits for its reads
(`Reads`). One tenant is modelled; an error in one ends the cycle of those after
it (`worker.py:82`), which is one more failed cycle to them.

**Realtime.** `Put` is `BoundedClientBuffer.put`; `ReceiveRedis`, `SendClient` and
`ReceiveClient` are the three tasks of `serve`. Alerts and pongs are critical. An error of
Redis ends the connection, as an exception in a task of `serve` does (section 8).
Nothing in the repository publishes ordinary events; the buffer is written for them
and the model broadcasts them.

**Maintenance.** One series, that is one metric of one device of an active tenant; the
statements group by series and do nothing across them. The rows of an aggregate are
known by the samples they summarise. A roll-up is two steps, its snapshot
(`ReadSamples`) and its writes (`WriteRollup`, bucket by bucket: `Upsert`), and
retention is one transaction under a lock of its own (`ApplyRetention`). `FailCycle` is
any error and the end of the process. `LoseSession` ends the session that holds the
advisory lock: the cycle uses other connections and learns of it at the end only.
`late` is history: samples stored when their day's raw rows were within two hours of
expiring, or gone.

## 4. Runs and bounds

Deadlock checking is off where clocks, calls and samples are bounded, so that every
behaviour of the instance ends. In `Monitoring` nothing is counted but failures,
and deadlock is checked.

| run | instance | shows |
| --- | --- | --- |
| `inbox_crash` | 2 batches, 2 payloads, 2 workers, 2 operators, 2 tries, 1 reopening, 7 calls, crashes | all safety properties of the inbox, what can take PURGE_LOCAL back, and the refinement |
| `inbox_live` | same without crashes, 1 payload, 1 operator, 4 calls, fair | no batch is starved or stuck |
| `agent_queue` | 5 samples in batches of 2 or 3, quotas of 8 and 6 bytes, depth 1 | conservation of samples, quotas, critical batches |
| `telemetry` | 2 samples, the server takes one per request, one reopening | no double storage, no premature deletion |
| `telemetry_confirm` | 1 sample, the shipped loop, fair | **violation**: a processed batch is never confirmed |
| `actions` | 1 privileged action, 2 runners on one store, 2 tokens, clock 0..3, drift -1..1 | at most once, approval, agreement of server and agent, finality, and the refinement |
| `attachments` | 2 files, 1 ticket, 2 workers, 2 attempts, crashes | rows, files and outbox agree up to the named exceptions |
| `accounts` | 2 users, 2 tenants, 2 passwords, 2 calls, 3 sessions, 2 reset tokens, lock after 1 failure, clock 0..1 | access needs membership, one heir per session, no admission after revocation, one use of a token |
| `accounts_reset` | 1 user, 1 tenant, 1 call | **violation**: a reset leaves the sessions |
| `devices` | 2 devices, 3 calls, 3 tokens of which 1 or 2 are issued, clock 0..1, overlap 1 | deletion, inventory, deadlocks, credentials |
| `maintenance` | 2 samples at any time of 11 hours, days of 2 hours, raw rows kept 2 days, aggregates 3 and 4, 2 workers, 1 lost lock | what came in time is summarised; aggregates only grow |
| `monitoring` | 1 device, 2 workers, duration 1 in a window of 2, 1 failed cycle, 1 console with a buffer of 2 | what an evaluation decided is true when it commits; alerts follow their device; no alert is lost on an open connection |

Why these bounds suffice to see the interesting cases:

- *Inbox.* Two tries and one reopening give every value of the two counters at,
  below and past their limits, hence every status. Two payloads are enough for a
  substitution; two workers for a race; two batches for one batch overtaking
  another. `MaxCalls` bounds insertions and operator requests: seven allow two
  insertions, a retry, and four decisions that overlap or follow one another; without
  the second operator four are enough. Re-uploads and failures are not counted by
  it: the counters bound them.
- *Agent.* Two halves are together larger than their parent and encryption
  doubles a payload, so both splitting and quarantining can run out of room. The
  quotas hold three small batches but not all five samples. Depth 1 makes both a
  split and a refused split happen with batches of 2 and 3 samples.
- *Telemetry.* Two samples make one batch that must be split and two that fit.
  The server lets one sample through, so a 413 and a 202 both occur.
- *Actions.* Actions share nothing but the page limit and the order of a poll,
  so one action shows what can happen to an action; the proof below covers any
  number. A window of 2 and a tolerance of 1 on a clock of 4 values give orders
  before, in, and past their window, with a clock ahead or behind. Two tokens are
  needed for a report by another token than the one that acknowledged.
- *Attachments.* One ticket with two files, of which one can be uploaded while
  the other is deleted; two attempts give a retry and a final failure; batches of
  2 give a worker several items, of which one may be settled before it dies.

- *Accounts.* Every interleaving of two calls is there, with every state the
  database may have before them: one administrator of all tenants, other users
  with some memberships, a session each, at most one mailed token. Two calls are
  what each property needs to fail. Three sessions leave one to be opened; one
  failure locks, so that locked, unlocked and expired locks occur within the clock.
- *Devices.* Three calls make a ring of two with a bystander and a ring of three;
  of three tokens one or two are issued at first, so that two rotations can meet on two
  tokens in opposite orders, and one or two are left for rotations and enrolments; a
  token may end at the deadline, before or after it.
- *Monitoring.* With one device the two workers meet on every row. A duration of
  one tick needs two samples; the window of two holds a sample that no longer
  counts. A buffer of two holds an alert and an event that makes way for another
  alert, and overflows with critical events; a failed cycle falls before or
  after the commit. Liveness is checked without symmetry.
- *Maintenance.* Two samples share an hour, a day or nothing, so that a bucket can be
  seen in part. Two days of raw rows against roll-ups that are a day behind leave room
  for one cycle to repair what another overwrote; with one day they do not, and a
  margin of one hour instead of two in `late` is not enough either, as TLC shows. A
  cycle takes an hour at most, which is generous for a day of 2 hours and short for
  one of 24. The clock reaches the expiry of both aggregates.

Symmetry: batches, payloads, workers and operators of `MetricBatches`, the runners of
`RemoteActions`, the files, tickets and workers of `Attachments` are
interchangeable, and so are all the sets of `Accounts`, and the devices and
calls of `Devices`, where the tokens are numbered, and the samples and workers of
`Maintenance`. The tokens of `RemoteActions` are not (the first one is
distinguished). Symmetry
is used only where the run's properties are invariants and properties of single steps, for
which it is sound; the fair runs with liveness properties have none.

Four more configurations belong to no run of PROJECT.json and reproduce a
counterexample each: `MetricBatches_decisions.cfg` and `MetricBatches_stop.cfg` (of
`MCMetricBatches`), `RemoteActions_report.cfg` (of `MCRemoteActions`) and
`Attachments_race.cfg` (of `MCAttachments`); section 7 says what they show.

## 5. Fairness

- `MetricBatches!FairSpec`: each worker loop goes on (`run_forever` catches
  every exception and sleeps), and an operator's started request ends. Nothing
  forces an agent or an operator to call. `inbox_live` excludes cancellation:
  with it a batch may be stranded (section 7).
- `Telemetry!FairSpec`: the loop runs for ever, a time-out ends a wait, and the
  worker drains the inbox. Strong fairness on the handling of an outstanding
  request and on its answer says that the network does not lose *every* one. The
  counterexample of `telemetry_confirm` needs no loss at all.
- `RemoteActions!FairSpec`: runners go on and each request is handled or lost.
  Losing is a legal outcome, as HTTP promises nothing.
- `Monitoring!Spec`: weak fairness of each worker's steps, because `run_forever`
  catches every error of a cycle and starts the next. A lock it waits for is held
  by another worker, which is fair as well. Failed cycles are bounded by
  `MaxFaults`: workers that fail for ever resolve nothing. Nothing is assumed of
  samples, clients or the clock.

## 6. Proofs

The theorems hold for every set of batches, payloads, workers, operators, actions,
runners, tokens, devices, users, tenants, passwords, calls, sessions, files, tickets and
samples, finite or not (only the tokens of `Devices` are numbered up to a bound, and the clocks end), and every value of the limits that satisfies the named
assumptions: at least one try before parking, names that denote different things,
privileged actions that are actions, natural bounds, integer clock offsets, batches of one
sample at least and sizes in octets that are natural, raw rows kept for two days at least, a
window of at least two durations (`postgres.py:1025`), buffers and channels with room for
one event, and devices that events can name. Nothing else is assumed. Each component has
an inductive invariant (`IInv`; `AgentInv`, `PipelineInv`, `MonitoringInv`), which TLC
checked on the instance of the component's run before it was proved; `Invariance` is
`Spec => []IInv`, and the other theorems follow from it. No library theorem on
induction can be used with these provers, so the lemmas on queues, sums and buffers are
proved from `SetInduction`: a set of naturals that has 0 and each successor is `Nat`.

**MetricBatches.** None of the properties is inductive alone. That two workers
never hold one batch rests on who may hold a row lock (`LockInv`); that the stored
samples are those of the accepted payload rests on what a worker remembers of the
row it claimed (`WorkerInv`); that the attempts stay within budget rests on the
relation between status and counters (`RowInv`). `IInv` is their conjunction with
the properties themselves. The module shows that each action preserves each part,
then `Invariance`, and from it `TypeCorrect`, `SamplesCorrect`, `PayloadCorrect`,
`ClaimsExclusive`, `AttemptsAccounted`, the step property `SettledForEver`, and
`Refinement`: every step under `IInv` is a step of `BatchLifecycle` or leaves its
variables alone.

`PurgeIsFinal` is false when decisions overlap (section 7). What is true of any number of
operators and any overlap is `PurgeSettles`, proved as `SettledPurge`: a purge that every
decision under way has seen (`PurgeSettled`) stays in force, and its batch exhausted. A
decision begun later reads it in its snapshot (`RequestStep`), one that has read it can only
repeat it (`DecisionStep`), and a decided batch is exhausted (`DecidesExhausted`), so that
no retry or re-upload reaches it.

**AgentQueue.** `PlacesInv` says that a collected sample is in one place: a row of
the queue, a sealed row of the quarantine, or gone for one reason. Each operation is shown to
regroup rows (`Regrouped`): an eviction takes the earliest periodic rows that the
quota forces out, a split puts two halves for their whole, quarantine moves a row after
making room for it. `StoreInv` (rows disjoint, none twice) makes "one place" meaningful and
`CriticalInv` (the mark of a row is that of its samples) gives `CriticalNeverEvicted`. The
quotas are sums over what is left of a queue after dropping rows, which an order of
insertion does not help with; `Bytes` is therefore the cardinality of the set of all
octets, so that fewer rows have fewer bytes whatever their order (`BytesOfFewer`), and a row
more adds its own size (`BytesOfOneMore`). `SendingInv` says that the row whose answer is awaited
is still queued. Theorems: `AgentInvariance`, `AgentTypeCorrect`, `Conserved`,
`QuotasHold`, `CriticalKept`.

**Telemetry.** Why no measurement is stored twice: a sample is in two posted batches only
if one of them was split, the agent splits only upon a 413 for the row it is sending
(`ReplyInv`), and the server never stores what it has once refused for its size. `OverlapInv`
says so of posted and queued batches: of two that meet, one is too large, and a batch the
server knows is not. That it outlives lost, repeated and late requests is immediate in this
form, since it speaks of everything ever posted. `ServerInv` and `ReportInv` say that a status lets
the agent delete a batch only if it will be true for ever, which gives `DeletedIsSafe`. The
agent's own steps are those of `AgentQueue`, so its invariant carries over
(`AgentKeepsPromises`); `PipelineServer` shows that the server's part moves only as
`BatchLifecycle` allows, the abstract specification that `MetricBatches` was proved to implement.
Theorems: `PipelineInvariance`, `PipelineTypeCorrect`, `NothingStoredTwice`, `DeletedIsSafe`
and these two.

**Monitoring.** A worker reads an alert in one statement and writes it in a later
one. What it has written stays true although others commit in between (`WritesHold`): it
is protected by row locks and by the unique index, so that no two open transactions have
opened or resolved an alert of one device (`ApartInv`), and the alert a worker found open is
open still or it is known to be gone. Hence `CommitsAreCurrent`: a commit, which only
`CommitEvaluation` is (`OnlyCommitsCommit`), opens an alert where there is none, resolves
one that is open, and leaves all others alone, also those opened after the alert it
resolves again. `WorkerInv` says that a cycle writes devices that it has done, each once.
For the consoles, `NoAlertLost` equates what a connection is owed with the alerts of
its buffer and channel; the lemmas show that the alerts of a sequence are those of its
parts in order (`AlertsConcat`), that `Put` displaces no alert (`PutFacts`), and that each
of the three tasks keeps the equation (`OnItsWay`). Theorems: `Invariance`,
`TypeCorrect`, `CommitsStayCurrent`, `AlertsArrive`.

**RemoteActions.** The argument goes from the agent outwards. `StoreStep` says how
the status of an action in the agent's store can change in one step: accepted once,
claimed once, settled once. `RunnerInv` says what each runner may rely on while
others act: a restarted runner may turn an action in progress into UNKNOWN, but an
action past its claim is never ACCEPTED again, so `ClaimInv` (no two runners are
past the claim of one action) is preserved, and with it `EffectInv` (the handler ran
only if the store says so, and once). `RequestInv` says that a request in flight
keeps telling the truth until it is handled, however late; `StatusStep` concludes
what the server can record. `ApprovalInv` follows an approval from the server through
the poll to the store, and `GivenInv` that what a runner was sent was ordered. From
`Invariance`: `TypeCorrect`, `AtMostOnce`, `ApprovalFirst`, `ServerFollows` and the step
properties `LocalFinality` and `ServerFinality`. `Refinement`: under `IInv` each step is
one of `ActionLifecycle` or leaves its four variables alone. A poll is its `Expire`, a
restart its `GiveUp`, both for any number of actions at once; a settlement after a
restart and a replayed request are invisible. `GivenInv` is needed where the agent takes
an action: it may take none that was not ordered.

**Devices.** What a call may rely on after a lock is granted depends on what the other
calls can still do to the same rows, so no property is inductive without the locks.
`Excludes` says of two calls that who changes a device is alone to hold it, that no
token is locked by two, that a shared token is locked by nobody, and that one call
writes an inventory; `Locks` says that a statement waits for one of the tokens it still
has to change, that a holder finds its device active, that rotation cuts only what outlives its deadline, and that
deletion misses no live token; `Remembers` ties what a call remembers to its stage.
`IInv` is these with the types and `DeletedHasNoToken` and `WriterIsEntitled`. The
proof has two halves for each action: the call that moves is left in order (`Fits`),
and every other call is spared what it has checked or locked (`Spares`, `OthersFit`).
From `Invariance`: `TypeCorrect`, `DeletionRevokesAll`, `WritersEntitled`; the step
property `TokensShrink`; and `DeadlocksAreLocal`, which assumes no order of the token
locks. Whoever waits and holds something waits for a request about the same device
(`BlockedConcernsSame`), and each member of a ring holds something (`MembersBlock`), so
the members about one device are a ring by themselves and, a ring being minimal, all of it
(`RingConcernsOne`). Without agents all of them are changing tokens (`ConsoleMember`), and a
deletion has its device to itself, so that none of them is one (`NoDeletionInRing`).

**Attachments.** No transaction spans the volume and the database, so the invariant says
for each stage what the other side may still do. `UploadInv` ties an upload to its file,
its row and its ticket; `DeletedInv` says that a file is unlinked only after its row was
committed and deleted, and that the outbox knows each such file unless the deletion
overlooked it; `SnapshotInv` that what a ticket's deletion saw was committed;
`QueueInv` that only deleted rows are queued; `OutboxInv` and `WorkerInv` tie the status
of an outbox row to its attempts, its worker and what the worker found. Why `RowHasFile`
needs all of it: three actions remove files, each on other grounds, and in each case it has
to be known that no row refers to the file now or later. Theorems: `TypeCorrect`,
`FilesKept`, `NoOrphanRows`, `CompletionTrue`, `ClaimsExclusive`, `LeftoversAccounted`.

**Accounts.** Every step but the clock's is the step of one call. A call relies on what it
has read as long as it holds the rows (`Fits`, by stage), and two calls never hold rows
that conflict (`Excludes`); so each action is shown to leave its own call in order, to
exclude the others, to leave the tables in order (`Tables`) and to change no row on which
another call relies (`Spares`). The tables need more than the properties: `HeirInv` (a
session that was replaced is over and has one heir), `UnusedInv` (a session not yet
opened is of no tenant, a deleted one of no user) and `MailedInv` (only issued tokens are
mailed). `AccessNeedsMembership` is the delicate one: the session that a login
inserts is checked against the membership when it is inserted and committed later, and it is
`Referenced`, the share lock of its foreign key, that keeps the membership until then.
Theorems: `TypeCorrect`, `NoAccessAfterRemoval`, `OneSuccessorEach`,
`AdmissionIsCurrent`, `TokensSpentOnce`.

**Maintenance.** That a dropped sample is summarised is a matter of times. A cycle that
began at most an hour ago (`CycleInv`) drops what had expired when its retention ran; a
sample that is not `late` was stored two hours before that, hence before the cycle began, so
its roll-ups saw it (`SeenInv`, which follows a cycle through its statements) and wrote
it. What one cycle wrote another may replace as long as it has a statement open, so
`DroppedInv` also says that an open statement either has the sample or has nothing of its
bucket; `DayInv` that the raw rows of a day go together; `AloneInv` that a cycle that kept its
lock runs alone, from which `AggregatesOnlyGrow` follows. Two assumptions matter.
`RawDays >= 2` (`DaysAssumption`; the code has 14, `maintenance.py:21`): with one day TLC
finds `TimelySamplesSummarised` violated, as two cycles without the lock can undo each other's
roll-up before retention. And the model's `Tick` lets no cycle take more than an
hour, which nothing in the code enforces. The proofs need facts about `\div` and products that
the provers do not find alone; they are the first lemmas of the module. Theorems:
`TypeCorrect`, `TimelySummarised` and the step property `AggregatesGrow`.

The proofs do not cover what section 7 shows to be false: `ClaimedHasWorker`,
`ExecutionIsRecorded`, `LeftoverIsQueued` and `PurgeIsFinal`.

## 7. Where the code and its documents disagree

Checked by a run of PROJECT.json:

1. **Confirmation of batches** (`telemetry_confirm`). `tasks/todo.md:95` says
   that the agent keeps a batch until `PROCESSED` is confirmed. The endpoint
   answers 202 whatever the status, the dispatcher defers on 202, and the loop
   never asks for the status: the confirmation never comes.
2. **Password reset** (`accounts_reset`). `tasks/todo.md:86` says that a change of
   password revokes the sessions. `consume_password_reset` does issue the UPDATE,
   but its transaction sets neither the current user nor a session token hash, and
   the policies of `user_sessions` (migrations 0008, 0019) show `nexus_auth_user`
   no other row: the UPDATE matches nothing, and its count is not checked. The tests
   of the repository use a connection double, which applies no policy.

Shown by a configuration kept for it:

3. **Overlapping decisions** (`MetricBatches_decisions.cfg`, `PurgeIsFinal`). `postgres.py:491` reads the
   previous decision in a subquery of the statement that then waits for the row
   lock. PostgreSQL re-checks the locked row but does not re-evaluate the
   subquery on other tables against a new snapshot, so of two overlapping
   requests the second does not see the first, and RETAIN can follow PURGE_LOCAL
   in spite of the test at `postgres.py:521`.
4. **Stopping a worker** (`MetricBatches_stop.cfg`, `ClaimedHasWorker`).
   `worker.py:195` promises a graceful stop; `main.py:88-92` cancels the task at
   once. A batch whose claim is committed stays PROCESSING, and no query selects
   such a row.
5. **Recorded actions** (`RemoteActions_report.cfg`, `ExecutionIsRecorded`).
   `README.md:14` promises recorded actions; acknowledgement and result are sent
   once each and the answers are ignored.
6. **Durable outbox** (`Attachments_race.cfg`, `LeftoverIsQueued`).
   `tasks/todo.md:101` promises durable deletion of files; an upload that commits
   while the ticket's DELETE waits for it loses its row to the cascade and its file
   is in no outbox row.

Behaviours the models contain and no property forbids, which a maintainer may want
to know:

- *Accounts.* A login that has read the old password may commit after a reset. Two
  requests for a reset at once leave two valid links until one is used. A
  revocation that misses a change of context in progress leaves the new session.
  A member that was deactivated keeps the permissions of its session. Role routes
  act on permissions read when the request entered. When Redis fails after a login
  has committed, the answer is 503 and the session stays.
- *Devices.* The console says after a disconnection that the active credentials
  were revoked (`DeviceDetailView.tsx:126`); `/disconnect` rotates, so the old
  token works for 300 seconds. Two requests of one agent may deadlock on its token
  and one is answered 503. Two overlapping rotations leave two tokens without a
  deadline; once there are two, two rotations may deadlock, as both hold the device FOR
  SHARE and the UPDATE of its tokens has no ORDER BY (`devices/postgres.py:601`). Agents'
  requests also deadlock with rotations, deletions and updates of their device. The name of
  a deleted device is never free again, and `last_seen_at` may go backwards. A batch whose call was admitted is
  stored although the device was deleted meanwhile.
- *Alerts.* The alert of a device that falls silent stays open. One high sample
  followed by silence triggers once `duration` has passed, although the manual says
  that persistence filters transient peaks (`MANUAL-DE-USO.md:49`). Two workers may
  publish OPEN after RESOLVED, or RESOLVED twice for one alert, and an end of the process between commit and
  publication loses the announcement.
- *Maintenance.* A sample that arrives after its day's raw rows were dropped replaces
  the hourly and the daily aggregate of its bucket by itself alone (`maintenance.py:119`);
  an agent that was off for two weeks, or a batch parked that long, sends such samples.
  Retention drops the samples of inactive tenants, which no cycle rolls up.
- *Realtime.* The session of a WebSocket is checked once, when it connects. A pong
  that finds no room is dropped silently.

## 8. What is not covered

- *Checked on small instances only.* Liveness: `EventuallyLeavesTheQueue` and
  `AlertsFollowDevices` (the prover has no rules for fairness and ENABLED). Every safety
  property of the runs that is expected to hold has its theorem.
- *Abstracted.* Payload contents, compression, encryption, signatures, JSON and
  its validation: batches and orders are names, and digests match exactly when
  the payloads do. Outside `Accounts`, row-level security and permissions: one
  organization, callers that are allowed to call. The `TypeOK` of `Attachments`, `Accounts`,
  `MetricBatches`, `RemoteActions`, `Telemetry` and `Maintenance` are proved and in no run.
- *Maintenance.* Partitions, whose rows go with their day; audit rows; and time zones:
  the deletion's boundary is midnight of the session's zone, taken to be UTC.
- *Redis client.* `Realtime` lets every error of Redis end the console's connection. The
  client pinned in `requirements.txt` may instead reconnect within `get_message` and
  subscribe again without an exception reaching `serve`; what is published in between is
  then lost on a connection that stays open, and `NoAlertLost` does not speak of that.
- *Device assignments* (`devices/postgres.py:729-826`): one row per assignment, read only by
  the queries that restrict a user to assigned devices. A member who has assigned a device
  cannot be removed, because `device_assignments.assigned_by` refers to the membership
  (`0016:57-61`); in `Accounts` this is one of the refusals of `Abort`.
- *Clocks.* `CURRENT_TIMESTAMP` is a logical clock of transactions. The agent's
  clock has a constant offset.
- *Scheduling of the outbox worker.* No code outside the tests calls
  `process_pending_attachment_deletions`; the model lets it run, without
  fairness, so its safety is checked and nothing is claimed of progress.
- *Not modelled yet* (see the plan): the ticket workflow. *Not
  planned*: listings, audit log, configuration, the console, packaging and
  infrastructure, which keep no state of their own or are single statements.

## 9. Plan

Done: the modules above, and a proof for every safety property the runs expect to hold. Next:

1. The ticket workflow (a compare-and-set on the status), with its theorem.
2. An abstract specification of an attachment, as `BatchLifecycle` is one of a batch and
   `ActionLifecycle` one of an action, with a proof that `Attachments` implements it.
