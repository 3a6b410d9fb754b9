------------------------------- MODULE Alerts -------------------------------
(***************************************************************************)
(* Alert rules and the workers that evaluate them over the recent samples  *)
(* of the devices of one tenant.                                           *)
(*                                                                         *)
(* Time is relative: a sample is known by its age in ticks, and ages as    *)
(* the clock advances.  Of the values the rule only tells whether they     *)
(* satisfy its condition ("high") or not ("low").  A worker evaluates all  *)
(* devices in one transaction whose statements each see what is committed  *)
(* when they begin; its alerts exist once it commits, and are published    *)
(* after that.  Of the states of an alert the code only writes OPEN and    *)
(* RESOLVED: a device has an active alert or it has none.                  *)
(***************************************************************************)
EXTENDS Naturals, Sequences, FiniteSets, FiniteSetsExt

CONSTANTS
  Devices,    \* numbered
  Workers,    \* one in each process that serves the API
  Duration,   \* duration_seconds of the rule
  Window,     \* age of the oldest sample looked at
  MaxFaults   \* bound on the cycles that fail

ASSUME WindowAssumption ==
  /\ Devices \subseteq Nat /\ {Duration, MaxFaults} \subseteq Nat
  /\ Window \in Nat \ {0} /\ Window >= 2 * Duration

VARIABLES
  rule,    \* alert_rules: the rule exists
  sample,  \* metric_samples of the last Window ticks
  active,  \* alerts: devices with an alert that is OPEN
  worker,  \* where each worker is
  faults   \* cycles that have failed

alertVars == <<rule, sample, active, worker, faults>>

Ages == 0..Window
Idle == [at |-> "idle", todo |-> {}, device |-> 0, verdict |-> FALSE,
         existing |-> "none", results |-> <<>>]

Effects == {"OPEN", "RESOLVED", "AGAIN", "announce"}

OncePerDevice(results) ==
  \A i, j \in DOMAIN results : results[i].device = results[j].device => i = j

\* Types; in particular a worker writes each device at most once in a cycle.
AlertTypeOK ==
  /\ rule \in BOOLEAN
  /\ sample \in [Devices -> [Ages -> {"none", "high", "low"}]]
  /\ active \subseteq Devices
  /\ worker \in [Workers -> [at : {"idle", "evaluating", "judged", "decided", "publishing"},
                             todo : SUBSET Devices, device : Devices \cup {0}, verdict : BOOLEAN,
                             existing : {"none", "active", "gone"},
                             results : Seq([device : Devices, effect : Effects])]]
  /\ \A w \in Workers : OncePerDevice(worker[w].results)
  /\ faults \in 0..MaxFaults

At(w, stage)  == worker[w].at = stage
InTransaction(w) == worker[w].at \in {"evaluating", "judged", "decided"}
Seen(d)       == {a \in Ages : sample[d][a] # "none"}
Latest(d)     == Min(Seen(d))
-----------------------------------------------------------------------------
(* evaluate_rule.                                                           *)

\* Samples that qualify together with every later one.
Run(d) == {a \in Seen(d) : \A b \in Seen(d) : b <= a => sample[d][b] = "high"}
Triggered(d) == \E a \in Run(d) : a >= Duration
-----------------------------------------------------------------------------
(* The tenant's data.                                                       *)

CreateRule ==
  /\ ~rule
  /\ rule' = TRUE
  /\ UNCHANGED <<sample, active, worker, faults>>

\* A batch is stored, with samples as old as the agent's queue made them.
StoreSample(d, a, v) ==
  /\ sample[d][a] = "none"
  /\ sample' = [sample EXCEPT ![d][a] = v]
  /\ UNCHANGED <<rule, active, worker, faults>>

\* A worker judges all devices by the time it read first: the clock waits for its reads.
Reads(w) == InTransaction(w) /\ worker[w].todo \ {worker[w].device} # {}

Tick ==
  /\ ~\E w \in Workers : Reads(w)
  /\ sample' = [d \in Devices |-> [a \in Ages |-> IF a = 0 THEN "none" ELSE sample[d][a - 1]]]
  /\ UNCHANGED <<rule, active, worker, faults>>
-----------------------------------------------------------------------------
(* A cycle of a worker.                                                     *)

\* Mutant of Reporting: only devices that satisfy the condition are visited.
ReportingHigh == {d \in Devices : \E a \in Ages : sample[d][a] = "high"}

\* Devices with a sample in the window; without any the cycle ends at once.
Reporting == {d \in Devices : Seen(d) # {}}

StartEvaluation(w) ==
  /\ At(w, "idle") /\ rule /\ Reporting # {}
  /\ worker' = [worker EXCEPT ![w].at = "evaluating", ![w].todo = Reporting]
  /\ UNCHANGED <<rule, sample, active, faults>>

\* SELECT DISTINCT gives the devices in any order.
ReadSamples(w) ==
  /\ At(w, "evaluating")
  /\ \E d \in worker[w].todo :
     worker' = [worker EXCEPT ![w].at = "judged", ![w].device = d, ![w].verdict = Triggered(d)]
  /\ UNCHANGED <<rule, sample, active, faults>>

ReadExisting(w) ==
  /\ At(w, "judged")
  /\ worker' = [worker EXCEPT ![w].at = "decided",
                  ![w].existing = IF worker[w].device \in active THEN "active" ELSE "none"]
  /\ UNCHANGED <<rule, sample, active, faults>>

With(results, effect) ==
  {d \in Devices : \E i \in DOMAIN results : results[i] = [device |-> d, effect |-> effect]}

\* Devices whose active alert a worker has inserted or resolved.
Written(w) == With(worker[w].results, "OPEN") \cup With(worker[w].results, "RESOLVED")

\* Another worker's transaction that has not ended wrote the active alert of d.
Pending(w, d) == \E v \in Workers \ {w} : InTransaction(v) /\ d \in Written(v)

Abort(w) == worker' = [worker EXCEPT ![w] = Idle]

Write(w, effect) ==
  worker' = [worker EXCEPT ![w].at = "evaluating", ![w].todo = @ \ {worker[w].device},
               ![w].device = 0, ![w].verdict = FALSE, ![w].existing = "none",
               ![w].results = IF effect = "none" THEN @
                              ELSE Append(@, [device |-> worker[w].device, effect |-> effect])]

\* The unique index refuses a second active alert: the whole cycle is undone.
OpenAlert(w) ==
  /\ At(w, "decided") /\ worker[w].verdict /\ worker[w].existing = "none"
  /\ ~Pending(w, worker[w].device)
  /\ IF worker[w].device \in active THEN Abort(w) ELSE Write(w, "OPEN")
  /\ UNCHANGED <<rule, sample, active, faults>>

\* The alert that was read is resolved by its id.  If another worker has resolved it
\* meanwhile, that row is resolved AGAIN, without waiting for whoever opens a new one.
ResolveAlert(w) ==
  /\ At(w, "decided") /\ ~worker[w].verdict
  /\ \/ /\ worker[w].existing = "active" /\ ~Pending(w, worker[w].device)
        /\ Write(w, "RESOLVED")
     \/ worker[w].existing = "gone" /\ Write(w, "AGAIN")
  /\ UNCHANGED <<rule, sample, active, faults>>

LeaveAlert(w) ==
  /\ At(w, "decided") /\ worker[w].verdict = (worker[w].existing # "none")
  /\ Write(w, "none")
  /\ UNCHANGED <<rule, sample, active, faults>>

\* What was written is announced in the same order, whatever it was.
ToAnnounce(results) == [i \in DOMAIN results |-> [results[i] EXCEPT !.effect = "announce"]]

\* The worker that has committed announces what it wrote; an alert that another has
\* read and this one has resolved is gone from here on.
AfterCommit(w) ==
  [v \in Workers |->
     IF v = w THEN IF worker[v].results = <<>> THEN Idle
                   ELSE [worker[v] EXCEPT !.at = "publishing", !.results = ToAnnounce(worker[w].results)]
     ELSE IF /\ At(v, "decided") /\ worker[v].existing = "active"
             /\ worker[v].device \in With(worker[w].results, "RESOLVED")
          THEN [worker[v] EXCEPT !.existing = "gone"]
     ELSE worker[v]]

\* Mutant of CommitEvaluation: alerts are resolved by rule and device.
CommitByDevice(w) ==
  /\ At(w, "evaluating") /\ worker[w].todo = {}
  /\ active' = (active \ (Written(w) \cup With(worker[w].results, "AGAIN")))
                 \cup With(worker[w].results, "OPEN")
  /\ worker' = AfterCommit(w)
  /\ UNCHANGED <<rule, sample, faults>>

CommitEvaluation(w) ==
  /\ At(w, "evaluating") /\ worker[w].todo = {}
  /\ active' = (active \ With(worker[w].results, "RESOLVED")) \cup With(worker[w].results, "OPEN")
  /\ worker' = AfterCommit(w)
  /\ UNCHANGED <<rule, sample, faults>>

\* Whose alert is announced next.
NoticeOf(w) == Head(worker[w].results).device

\* Sent, or not: an error of Redis or of the mail server is logged and passed over.
Publish(w) ==
  /\ At(w, "publishing")
  /\ worker' = [worker EXCEPT ![w] = IF Len(worker[w].results) = 1 THEN Idle
                                     ELSE [worker[w] EXCEPT !.results = Tail(@)]]
  /\ UNCHANGED <<rule, sample, active, faults>>

\* The database fails or breaks a deadlock, or the process ends and is started again: what was not
\* committed is undone, what was committed and not published never will be.
FailCycle(w) ==
  /\ ~At(w, "idle") /\ faults < MaxFaults
  /\ Abort(w)
  /\ faults' = faults + 1
  /\ UNCHANGED <<rule, sample, active>>

AlertInit ==
  /\ rule \in BOOLEAN
  /\ sample = [d \in Devices |-> [a \in Ages |-> "none"]]
  /\ active = {}
  /\ worker = [w \in Workers |-> Idle]
  /\ faults = 0

Transaction(w) ==
  \/ StartEvaluation(w) \/ ReadSamples(w) \/ ReadExisting(w)
  \/ OpenAlert(w) \/ ResolveAlert(w) \/ LeaveAlert(w) \/ CommitEvaluation(w)
-----------------------------------------------------------------------------
\* What a worker commits it decided on alerts read earlier, while others commit.  At its
\* commit, all the same, each device it opens an alert for has none, and each alert it
\* resolves for the first time is open.  One that another has resolved meanwhile it
\* resolves again, which has no effect on an alert opened since (postgres.py,
\* evaluate_alerts: INSERT under the unique index on active alerts of migration 0013,
\* UPDATE by id and without a condition on the status).
Commits(w) == At(w, "evaluating") /\ worker'[w].at = "publishing"
CommitsAreCurrent ==
  [][\A w \in Workers : Commits(w) =>
       \A d \in Devices :
         IF d \in With(worker[w].results, "OPEN") THEN d \notin active /\ d \in active'
         ELSE IF d \in With(worker[w].results, "RESOLVED") THEN d \in active /\ d \notin active'
         ELSE d \in active' <=> d \in active]_alertVars

\* An alert follows its device, whatever the workers read while others wrote:
\* one that reports normal values again, and goes on reporting, has its alert
\* resolved; one whose condition goes on holding has an alert open
\* (postgres.py, evaluate_alerts; worker.py, run_forever).
Recovered(d) == Seen(d) # {} /\ sample[d][Latest(d)] = "low"
AlertsFollowDevices ==
  \A d \in Devices : /\ <>[]Recovered(d) => <>[](d \notin active)
                     /\ <>[](rule /\ Triggered(d)) => <>[](d \in active)

\* What is inductive about a worker: it begins with nothing written, decides on a
\* device it has still to do, has written only devices it has done, and publishes
\* while there is something left.
WorkerInv ==
  \A w \in Workers :
    /\ At(w, "idle") => worker[w].results = <<>>
    /\ worker[w].at \in {"judged", "decided"} => worker[w].device \in worker[w].todo
    /\ \A i \in DOMAIN worker[w].results : worker[w].results[i].device \notin worker[w].todo
    /\ At(w, "publishing") => worker[w].results # <<>>

\* What a worker has opened or resolved and not committed stays true of the alerts.
WritesHold ==
  \A w \in Workers : InTransaction(w) =>
    /\ With(worker[w].results, "OPEN") \cap active = {}
    /\ With(worker[w].results, "RESOLVED") \subseteq active

\* Two transactions that have not ended wrote the active alert of no device in common,
\* and the alert that a worker has read is open as long as nobody closes it under its eyes.
ApartInv ==
  /\ \A v, w \in Workers :
       v # w /\ InTransaction(v) /\ InTransaction(w) => Written(v) \cap Written(w) = {}
  /\ \A w \in Workers :
       At(w, "decided") /\ worker[w].existing = "active" => worker[w].device \in active
=============================================================================
