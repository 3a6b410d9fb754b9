---------------------------- MODULE RemoteActions ----------------------------
(***************************************************************************)
(* Remote actions: the server's table action_executions and its handlers,   *)
(* the agent's SQLiteActionStore and the loop that polls, accepts, executes *)
(* and reports.                                                             *)
(*                                                                          *)
(* The server signs an order valid for Window; a privileged action is       *)
(* signed only when an administrator approves it.  The agent consumes the   *)
(* order's nonce before anything else, acknowledges, executes, and reports  *)
(* once; it looks at the answer of neither request.  A request can be lost  *)
(* or handled after the agent gave up on it, the agent can die between any  *)
(* two steps, and its store may be shared by several runners.               *)
(*                                                                          *)
(* Signatures and digests are those the server made: an order is the action *)
(* and the time it was issued.  An action has one nonce, so the two UNIQUE  *)
(* columns of the store are one condition.                                  *)
(***************************************************************************)
EXTENDS Integers, FiniteSets

CONSTANTS
  Actions,        \* identifiers of the actions of one device
  Privileged,     \* those that need an approval (reboot_system)
  Runners,        \* agent processes sharing one action store
  Tokens,         \* device tokens
  FirstToken,     \* the token of the enrolment
  NoAction,       \* a runner that handles no order
  Window,         \* validity of an order (5 minutes)
  Skew,           \* tolerance of the agent's clock (60 seconds)
  Drifts,         \* possible offsets of the agent's clock
  PollLimit,      \* orders returned by one poll (10)
  MaxTime,        \* bound on the clock
  CanFail         \* may runners die and their store refuse a statement?

ASSUME ActionsAssumption == Privileged \subseteq Actions /\ NoAction \notin Actions
ASSUME TokensAssumption  == FirstToken \in Tokens
ASSUME ClockAssumption   == /\ {Window, Skew, PollLimit, MaxTime} \subseteq Nat
                            /\ Drifts \subseteq Int
ASSUME FailAssumption    == CanFail \in BOOLEAN

VARIABLES
  now,            \* the server's clock
  drift,          \* what the agent's clock adds to it
  tokens,         \* device_tokens: not made yet, valid, revoked or expired
  status, issued, ackToken,   \* action_executions
  approved,       \* history: an administrator approved the action
  local,          \* action_states: the agent's status of each action
  nonceUntil,     \* consumed_nonces.expires_at_with_skew
  pc, inbox, asOf, current, outcome, token,   \* each runner's memory
  requests,       \* acks and reports the server has not handled yet
  effects         \* history: times the action's handler ran

serverVars == <<tokens, status, issued, ackToken, approved>>
storeVars  == <<local, nonceUntil>>
runnerVars == <<pc, inbox, asOf, current, outcome, token>>
vars == <<now, drift, serverVars, storeVars, runnerVars, requests, effects>>

Valid == {t \in Tokens : tokens[t] = "valid"}

ServerStatus == {"NONE", "PENDING_APPROVAL", "DISPATCHED", "ACCEPTED",
                 "EXECUTING", "COMPLETED", "FAILED", "INTERRUPTED", "UNKNOWN",
                 "TIMED_OUT"}
LocalStatus  == {"NONE", "ACCEPTED", "EXECUTING", "SUCCEEDED", "FAILED",
                 "INTERRUPTED", "UNKNOWN"}
ServerFinal  == {"COMPLETED", "FAILED", "INTERRUPTED", "UNKNOWN", "TIMED_OUT"}
LocalFinal   == {"SUCCEEDED", "FAILED", "INTERRUPTED", "UNKNOWN"}

Orders == [action : Actions, issued : Int]
Request == [kind : {"ack", "report"}, action : Actions, token : Tokens,
            result : LocalStatus]

TypeOK ==
  /\ now \in Nat /\ drift \in Int
  /\ tokens \in [Tokens -> {"unused", "valid", "revoked"}]
  /\ status \in [Actions -> ServerStatus]
  /\ issued \in [Actions -> Int]
  /\ ackToken \in [Actions -> SUBSET Tokens]
  /\ approved \in [Actions -> BOOLEAN]
  /\ local \in [Actions -> LocalStatus]
  /\ nonceUntil \in [Actions -> Int]
  /\ pc \in [Runners -> {"idle", "polled", "working", "accepted",
                         "acknowledged", "executing", "finishing", "reporting"}]
  /\ inbox \in [Runners -> SUBSET Orders]
  /\ asOf \in [Runners -> Int]
  /\ current \in [Runners -> Actions \cup {NoAction}]
  /\ \A r \in Runners : pc[r] \in {"idle", "polled", "working"} <=> current[r] = NoAction
  /\ outcome \in [Runners -> {"SUCCEEDED", "FAILED"}]
  /\ token \in [Runners -> Tokens]
  /\ requests \subseteq Request
  /\ effects \in [Actions -> Nat]

Init ==
  /\ now = 0 /\ drift \in Drifts
  /\ tokens = [t \in Tokens |-> IF t = FirstToken THEN "valid" ELSE "unused"]
  /\ status = [a \in Actions |-> "NONE"]
  /\ issued = [a \in Actions |-> 0]
  /\ ackToken = [a \in Actions |-> {}]
  /\ approved = [a \in Actions |-> FALSE]
  /\ local = [a \in Actions |-> "NONE"]
  /\ nonceUntil = [a \in Actions |-> 0]
  /\ pc = [r \in Runners |-> "idle"]
  /\ inbox = [r \in Runners |-> {}]
  /\ asOf = [r \in Runners |-> 0]
  /\ current = [r \in Runners |-> NoAction]
  /\ outcome = [r \in Runners |-> "FAILED"]
  /\ token = [r \in Runners |-> FirstToken]
  /\ requests = {}
  /\ effects = [a \in Actions |-> 0]
-----------------------------------------------------------------------------
(* The console.                                                             *)

Expires(a) == issued[a] + Window

\* Faulty variant of RequestAction: no action waits for an approval.
RequestDispatched(a) ==
  /\ status[a] = "NONE"
  /\ status' = [status EXCEPT ![a] = "DISPATCHED"]
  /\ issued' = [issued EXCEPT ![a] = now]
  /\ UNCHANGED <<now, drift, tokens, ackToken, approved, storeVars, runnerVars,
                 requests, effects>>

\* request_action and create_action.
RequestAction(a) ==
  /\ status[a] = "NONE"
  /\ status' = [status EXCEPT ![a] = IF a \in Privileged THEN "PENDING_APPROVAL"
                                                         ELSE "DISPATCHED"]
  /\ issued' = [issued EXCEPT ![a] = now]
  /\ UNCHANGED <<now, drift, tokens, ackToken, approved, storeVars, runnerVars,
                 requests, effects>>

\* Faulty variant of ApproveAction: the status is not read again under the lock.
ApproveAgain(a) ==
  /\ status[a] # "NONE"
  /\ Expires(a) > now
  /\ status' = [status EXCEPT ![a] = "DISPATCHED"]
  /\ issued' = [issued EXCEPT ![a] = now]
  /\ approved' = [approved EXCEPT ![a] = TRUE]
  /\ UNCHANGED <<now, drift, tokens, ackToken, storeVars, runnerVars, requests,
                 effects>>

\* approve_action: the row is locked, signed with new times and dispatched.
ApproveAction(a) ==
  /\ status[a] = "PENDING_APPROVAL"
  /\ Expires(a) > now
  /\ status' = [status EXCEPT ![a] = "DISPATCHED"]
  /\ issued' = [issued EXCEPT ![a] = now]
  /\ approved' = [approved EXCEPT ![a] = TRUE]
  /\ UNCHANGED <<now, drift, tokens, ackToken, storeVars, runnerVars, requests,
                 effects>>

\* rotate_token adds a token; the old ones expire, or are revoked, later.
RotateToken(t) ==
  /\ tokens[t] = "unused"
  /\ tokens' = [tokens EXCEPT ![t] = "valid"]
  /\ UNCHANGED <<now, drift, status, issued, ackToken, approved, storeVars,
                 runnerVars, requests, effects>>

RevokeToken(t) ==
  /\ tokens[t] = "valid"
  /\ tokens' = [tokens EXCEPT ![t] = "revoked"]
  /\ UNCHANGED <<now, drift, status, issued, ackToken, approved, storeVars,
                 runnerVars, requests, effects>>

Tick ==
  /\ now < MaxTime
  /\ now' = now + 1
  /\ UNCHANGED <<drift, serverVars, storeVars, runnerVars, requests, effects>>
-----------------------------------------------------------------------------
(* The agent's poll.                                                        *)

Open == {a \in Actions : status[a] = "DISPATCHED" /\ Expires(a) > now}

\* ORDER BY issued_at, id LIMIT: the oldest open actions.
Page == {S \in SUBSET Open :
           /\ Cardinality(S) <= PollLimit
           /\ S # Open => Cardinality(S) = PollLimit
           /\ \A a \in S, b \in Open \ S : issued[a] <= issued[b]}

\* poll_actions: expired orders are timed out, open ones are returned.
Poll(r) ==
  /\ pc[r] = "idle"
  /\ token[r] \in Valid
  /\ status' = [a \in Actions |->
                  IF status[a] = "DISPATCHED" /\ Expires(a) <= now
                    THEN "TIMED_OUT" ELSE status[a]]
  /\ \E S \in Page :
       inbox' = [inbox EXCEPT ![r] = {[action |-> a, issued |-> issued[a]] : a \in S}]
  /\ pc' = [pc EXCEPT ![r] = "polled"]
  /\ UNCHANGED <<now, drift, tokens, issued, ackToken, approved, storeVars, asOf,
                 current, outcome, token, requests, effects>>

\* The answer arrives; the time is read once for all its orders.
ReceivePoll(r) ==
  /\ pc[r] = "polled"
  /\ pc' = [pc EXCEPT ![r] = "working"]
  /\ asOf' = [asOf EXCEPT ![r] = now + drift]
  /\ UNCHANGED <<now, drift, serverVars, storeVars, inbox, current, outcome,
                 token, requests, effects>>

LosePoll(r) ==
  /\ pc[r] = "polled"
  /\ pc' = [pc EXCEPT ![r] = "idle"]
  /\ inbox' = [inbox EXCEPT ![r] = {}]
  /\ UNCHANGED <<now, drift, serverVars, storeVars, asOf, current, outcome,
                 token, requests, effects>>

EndCycle(r) ==
  /\ pc[r] = "working"
  /\ inbox[r] = {}
  /\ pc' = [pc EXCEPT ![r] = "idle"]
  /\ asOf' = [asOf EXCEPT ![r] = 0]
  /\ UNCHANGED <<now, drift, serverVars, storeVars, inbox, current, outcome,
                 token, requests, effects>>
-----------------------------------------------------------------------------
(* One order at the agent.                                                  *)

\* The next order of the poll, in the order it was returned.
NextOrder(r, o) ==
  /\ pc[r] = "working"
  /\ o \in inbox[r]
  /\ \A p \in inbox[r] : o.issued <= p.issued
  /\ inbox' = [inbox EXCEPT ![r] = @ \ {o}]

\* verify_order_signature: the order's validity against the time of the poll.
Fresh(r, o) == /\ o.issued <= asOf[r] + Skew
               /\ o.issued + Window >= asOf[r] - Skew

\* Faulty variant of NewOrder: the nonce is not looked up.
AnyOrder(o) == TRUE

\* accept: the nonce and the action were never seen.
NewOrder(o) == local[o.action] = "NONE"

\* Faulty variant of AcceptOrder: the acknowledgement is sent first.
AcknowledgeFirst(r, o) ==
  /\ NextOrder(r, o)
  /\ Fresh(r, o)
  /\ NewOrder(o)
  /\ requests' = requests \cup {[kind |-> "ack", action |-> o.action,
                                 token |-> token[r], result |-> "ACCEPTED"]}
  /\ pc' = [pc EXCEPT ![r] = "accepted"]
  /\ current' = [current EXCEPT ![r] = o.action]
  /\ UNCHANGED <<now, drift, serverVars, storeVars, asOf, outcome, token, effects>>

\* verify_and_accept: nonce and order are written in one transaction.
AcceptOrder(r, o) ==
  /\ NextOrder(r, o)
  /\ Fresh(r, o)
  /\ NewOrder(o)
  /\ local' = [local EXCEPT ![o.action] = "ACCEPTED"]
  /\ nonceUntil' = [nonceUntil EXCEPT ![o.action] = o.issued + Window + Skew]
  /\ pc' = [pc EXCEPT ![r] = "accepted"]
  /\ current' = [current EXCEPT ![r] = o.action]
  /\ UNCHANGED <<now, drift, serverVars, asOf, outcome, token, requests, effects>>

\* The order is out of its window, or its nonce is consumed.
SkipOrder(r, o) ==
  /\ NextOrder(r, o)
  /\ ~(Fresh(r, o) /\ NewOrder(o))
  /\ UNCHANGED <<now, drift, serverVars, storeVars, pc, asOf, current, outcome,
                 token, requests, effects>>

\* acknowledge_action is sent; its answer is ignored.
SendAck(r) ==
  /\ pc[r] = "accepted"
  /\ requests' = requests \cup {[kind |-> "ack", action |-> current[r],
                                 token |-> token[r], result |-> "ACCEPTED"]}
  /\ pc' = [pc EXCEPT ![r] = "acknowledged"]
  /\ UNCHANGED <<now, drift, serverVars, storeVars, inbox, asOf, current,
                 outcome, token, effects>>

\* The runner turns to the next order.
LeaveOrder(r) ==
  /\ pc' = [pc EXCEPT ![r] = "working"]
  /\ current' = [current EXCEPT ![r] = NoAction]
  /\ outcome' = [outcome EXCEPT ![r] = "FAILED"]

\* claim: UPDATE ... SET status = 'EXECUTING' WHERE status = 'ACCEPTED'.
Claim(r) ==
  LET a == current[r] IN
  /\ pc[r] = "acknowledged"
  /\ IF local[a] = "ACCEPTED"
       THEN /\ local' = [local EXCEPT ![a] = "EXECUTING"]
            /\ pc' = [pc EXCEPT ![r] = "executing"]
            /\ UNCHANGED <<current, outcome>>
       ELSE LeaveOrder(r) /\ UNCHANGED local
  /\ UNCHANGED <<now, drift, serverVars, nonceUntil, inbox, asOf, token, requests,
                 effects>>

\* The handler runs; an exception counts as FAILED.
RunHandler(r, result) ==
  /\ pc[r] = "executing"
  /\ effects' = [effects EXCEPT ![current[r]] = @ + 1]
  /\ outcome' = [outcome EXCEPT ![r] = result]
  /\ pc' = [pc EXCEPT ![r] = "finishing"]
  /\ UNCHANGED <<now, drift, serverVars, storeVars, inbox, asOf, current, token,
                 requests>>

\* Faulty variant of Finish: the status is not re-read.
FinishBlindly(r) ==
  /\ pc[r] = "finishing"
  /\ local' = [local EXCEPT ![current[r]] = outcome[r]]
  /\ pc' = [pc EXCEPT ![r] = "reporting"]
  /\ UNCHANGED <<now, drift, serverVars, nonceUntil, inbox, asOf, current,
                 outcome, token, requests, effects>>

\* _finish: raises unless the action is still EXECUTING.
Finish(r) ==
  LET a == current[r] IN
  /\ pc[r] = "finishing"
  /\ IF local[a] = "EXECUTING"
       THEN /\ local' = [local EXCEPT ![a] = outcome[r]]
            /\ pc' = [pc EXCEPT ![r] = "reporting"]
            /\ UNCHANGED <<current, outcome>>
       ELSE LeaveOrder(r) /\ UNCHANGED local
  /\ UNCHANGED <<now, drift, serverVars, nonceUntil, inbox, asOf, token, requests,
                 effects>>

\* report_result is sent once; its answer is ignored.
Report(r) ==
  /\ pc[r] = "reporting"
  /\ requests' = requests \cup {[kind |-> "report", action |-> current[r],
                                 token |-> token[r], result |-> local[current[r]]]}
  /\ LeaveOrder(r)
  /\ UNCHANGED <<now, drift, serverVars, storeVars, inbox, asOf, token, effects>>

\* The store refuses a statement: the loop prints the error and goes on.
AbandonOrder(r) ==
  /\ CanFail
  /\ current[r] # NoAction
  /\ LeaveOrder(r)
  /\ UNCHANGED <<now, drift, serverVars, storeVars, inbox, asOf, token, requests,
                 effects>>

\* The runner dies and starts again, perhaps with another token:
\* reconcile_after_restart settles what the store holds.
Restart(r) ==
  /\ CanFail
  /\ local' = [a \in Actions |->
                 CASE local[a] = "EXECUTING" -> "UNKNOWN"
                   [] local[a] = "ACCEPTED" /\ nonceUntil[a] <= now + drift ->
                        "INTERRUPTED"
                   [] OTHER -> local[a]]
  /\ \E t \in Valid \cup {token[r]} : token' = [token EXCEPT ![r] = t]
  /\ pc' = [pc EXCEPT ![r] = "idle"]
  /\ inbox' = [inbox EXCEPT ![r] = {}]
  /\ asOf' = [asOf EXCEPT ![r] = 0]
  /\ current' = [current EXCEPT ![r] = NoAction]
  /\ outcome' = [outcome EXCEPT ![r] = "FAILED"]
  /\ UNCHANGED <<now, drift, serverVars, nonceUntil, requests, effects>>
-----------------------------------------------------------------------------
(* The server handles an ack or a report, or never sees it.                 *)

\* Faulty variant of Acknowledgeable: a late acknowledgement is welcome.
AcknowledgeableLate(a) == status[a] \in {"DISPATCHED", "TIMED_OUT"}

Acknowledgeable(a) == status[a] = "DISPATCHED" /\ Expires(a) > now

\* acknowledge_action.  A second ack of the same token is a replay and any other
\* is refused: neither changes the row.
HandleAck(m) ==
  /\ m.kind = "ack" /\ m \in requests
  /\ requests' = requests \ {m}
  /\ IF Acknowledgeable(m.action) /\ m.token \in Valid
       THEN /\ status' = [status EXCEPT ![m.action] = "ACCEPTED"]
            /\ ackToken' = [ackToken EXCEPT ![m.action] = {m.token}]
       ELSE UNCHANGED <<status, ackToken>>
  /\ UNCHANGED <<now, drift, tokens, issued, approved, storeVars, runnerVars, effects>>

ResultStatus == [ACCEPTED |-> "ACCEPTED", EXECUTING |-> "EXECUTING",
                 SUCCEEDED |-> "COMPLETED", FAILED |-> "FAILED",
                 INTERRUPTED |-> "INTERRUPTED", UNKNOWN |-> "UNKNOWN"]
Sources(s) == IF s \in {"ACCEPTED", "EXECUTING"} THEN {"ACCEPTED"}
                                                ELSE {"ACCEPTED", "EXECUTING"}

\* record_action_result: only from the token that acknowledged.
HandleReport(m) ==
  /\ m.kind = "report" /\ m \in requests
  /\ requests' = requests \ {m}
  /\ LET s == ResultStatus[m.result] IN
     IF /\ status[m.action] \in Sources(s)
        /\ m.token \in ackToken[m.action] \cap Valid
       THEN status' = [status EXCEPT ![m.action] = s]
       ELSE UNCHANGED status
  /\ UNCHANGED <<now, drift, tokens, issued, ackToken, approved, storeVars,
                 runnerVars, effects>>

Lose(m) ==
  /\ requests' = requests \ {m}
  /\ UNCHANGED <<now, drift, serverVars, storeVars, runnerVars, effects>>

Deliver(m) == HandleAck(m) \/ HandleReport(m) \/ Lose(m)
-----------------------------------------------------------------------------
Console == \/ \E a \in Actions : RequestAction(a) \/ ApproveAction(a)
           \/ \E t \in Tokens : RotateToken(t) \/ RevokeToken(t)

Loop(r) == \/ Poll(r) \/ ReceivePoll(r) \/ LosePoll(r) \/ EndCycle(r)
           \/ \E o \in inbox[r] : AcceptOrder(r, o) \/ SkipOrder(r, o)
           \/ SendAck(r) \/ Claim(r)
           \/ \E result \in {"SUCCEEDED", "FAILED"} : RunHandler(r, result)
           \/ Finish(r) \/ Report(r)

Next == \/ Console \/ Tick
        \/ \E r \in Runners : Loop(r) \/ AbandonOrder(r) \/ Restart(r)
        \/ \E m \in requests : Deliver(m)

Spec == Init /\ [][Next]_vars

\* The loop never stops and every request reaches the server or is lost.
FairSpec == /\ Spec
            /\ \A r \in Runners : WF_vars(Loop(r))
            /\ WF_vars(\E m \in requests : Deliver(m))
-----------------------------------------------------------------------------
(* Properties.                                                              *)

\* No action's handler runs twice, although an order is polled again whenever
\* its acknowledgement is lost, several runners may hold it, and any of them may
\* die and restart in the middle (consumed_nonces, claim).
ExecutedAtMostOnce == \A a \in Actions : effects[a] <= 1

\* A privileged action runs only after an administrator approved it.
ApprovedBeforeExecuted ==
  \A a \in Privileged : effects[a] > 0 => approved[a]

\* The server never knows more than the agent: it records an acceptance only of
\* an order whose nonce the agent has durably consumed, and a result only if
\* the handler ran and the agent recorded that very result.
ServerFollowsAgent ==
  \A a \in Actions :
    /\ status[a] \in {"ACCEPTED", "EXECUTING"} => local[a] # "NONE"
    /\ status[a] = "COMPLETED" => local[a] = "SUCCEEDED" /\ effects[a] = 1
    /\ status[a] = "FAILED" => local[a] = "FAILED" /\ effects[a] = 1

\* A result of the agent stands, although one runner may restart (and give up
\* what is in progress as UNKNOWN) while another is still executing.
LocalResultIsFinal ==
  [][\A a \in Actions : local[a] \in LocalFinal => local'[a] = local[a]]_vars

\* A result or timeout recorded by the server stands, whatever arrives late.
ServerResultIsFinal ==
  [][\A a \in Actions : status[a] \in ServerFinal => status'[a] = status[a]]_vars

\* Remote actions are "controladas y registradas" (README): when a handler has
\* run, the server comes to record its result.
ExecutionIsRecorded ==
  \A a \in Actions : effects[a] > 0 ~> status[a] \in {"COMPLETED", "FAILED"}
-----------------------------------------------------------------------------
(* The refinement.                                                          *)

OrderOf(s) == IF s = "NONE" THEN "none"
              ELSE IF s = "PENDING_APPROVAL" THEN "waiting" ELSE "given"
WorkOf == [NONE        |-> "none",
           ACCEPTED    |-> "taken",
           EXECUTING   |-> "begun",
           SUCCEEDED   |-> "succeeded",
           FAILED      |-> "failed",
           INTERRUPTED |-> "interrupted",
           UNKNOWN     |-> "unknown"]
RecordOf == [NONE             |-> "open",
             PENDING_APPROVAL |-> "open",
             DISPATCHED       |-> "open",
             TIMED_OUT        |-> "expired",
             ACCEPTED         |-> "acknowledged",
             EXECUTING        |-> "acknowledged",
             COMPLETED        |-> "succeeded",
             FAILED           |-> "failed",
             INTERRUPTED      |-> "interrupted",
             UNKNOWN          |-> "unknown"]

Lifecycle == INSTANCE ActionLifecycle WITH
               order  <- [a \in Actions |-> OrderOf(status[a])],
               work   <- [a \in Actions |-> WorkOf[local[a]]],
               runs   <- effects,
               record <- [a \in Actions |-> RecordOf[status[a]]]

\* Polls, nonces, tokens, requests that are lost or late and runners that race are
\* invisible from outside: each action is ordered, taken, run once, settled or given
\* up, and recorded as it went, every step being one of those or none of them.
ImplementsLifecycle == Lifecycle!Spec
-----------------------------------------------------------------------------
(* The inductive invariant behind the properties above.                     *)

Holding   == {"accepted", "acknowledged", "executing", "finishing", "reporting"}
Executing == {"executing", "finishing", "reporting"}
Released(a) == a \in Privileged => approved[a]

\* The handler of an action ran only if the store says so.
EffectInv ==
  \A a \in Actions :
    /\ effects[a] <= 1
    /\ local[a] \in {"NONE", "ACCEPTED", "INTERRUPTED"} => effects[a] = 0
    /\ local[a] \in {"SUCCEEDED", "FAILED"} => effects[a] = 1

\* What a runner knows of the action it holds: once it is claimed, only a
\* restart of another runner can have changed what the store says.
RunnerInv ==
  \A r \in Runners : pc[r] \in Holding =>
    /\ local[current[r]] # "NONE"
    /\ pc[r] \in {"executing", "finishing"} =>
         local[current[r]] \in {"EXECUTING", "UNKNOWN"}
    /\ pc[r] = "executing" => effects[current[r]] = 0
    /\ pc[r] = "finishing" => effects[current[r]] = 1
    /\ pc[r] = "reporting" => local[current[r]] \in {"SUCCEEDED", "FAILED"}

\* No two runners are past the claim of the same action.
ClaimInv ==
  \A q, r \in Runners :
    q # r /\ pc[q] \in Executing /\ pc[r] \in Executing => current[q] # current[r]

\* A request tells what the store still says when it is handled.
RequestInv ==
  \A m \in requests :
    /\ local[m.action] # "NONE"
    /\ m.kind = "report" => /\ m.result \in {"SUCCEEDED", "FAILED"}
                            /\ m.result = local[m.action]

\* An action that left the server was approved if it had to be.
ApprovalInv ==
  /\ \A a \in Actions :
       /\ status[a] \notin {"NONE", "PENDING_APPROVAL"} => Released(a)
       /\ local[a] # "NONE" => Released(a)
  /\ \A r \in Runners : \A o \in inbox[r] : Released(o.action)

\* A runner's list names orders that were given.
GivenInv == \A r \in Runners : \A o \in inbox[r] : OrderOf(status[o.action]) = "given"

IInv == /\ TypeOK
        /\ EffectInv
        /\ RunnerInv
        /\ ClaimInv
        /\ RequestInv
        /\ ApprovalInv
        /\ GivenInv
        /\ ServerFollowsAgent
=============================================================================
