------------------------ MODULE RemoteActions_proofs ------------------------
(***************************************************************************)
(* Proofs about RemoteActions, for every set of actions, runners and tokens *)
(* and every window, tolerance, clock offset and page limit.                *)
(***************************************************************************)
EXTENDS RemoteActions, TLAPS

-----------------------------------------------------------------------------
(* What single steps do to the state.                                       *)

\* A runner past the acceptance holds an action.
LEMMA HeldAction ==
  ASSUME TypeOK, NEW r \in Runners, pc[r] \in Holding
  PROVE  current[r] \in Actions
  BY DEF TypeOK, Holding

\* An order of a poll names an action.
LEMMA OrderedAction ==
  ASSUME TypeOK, NEW r \in Runners, NEW o \in inbox[r]
  PROVE  o \in Orders /\ o.action \in Actions /\ o.issued \in Int
  BY DEF TypeOK, Orders

LEMMA LeaveOrderType ==
  ASSUME TypeOK, NEW r \in Runners, LeaveOrder(r)
  PROVE  /\ pc' \in [Runners -> {"idle", "polled", "working", "accepted",
                                 "acknowledged", "executing", "finishing", "reporting"}]
         /\ current' \in [Runners -> Actions \cup {NoAction}]
         /\ outcome' \in [Runners -> {"SUCCEEDED", "FAILED"}]
         /\ \A q \in Runners :
              pc'[q] \in {"idle", "polled", "working"} <=> current'[q] = NoAction
  BY DEF TypeOK, LeaveOrder

\* reconcile_after_restart touches nothing but what is in progress.
LEMMA RestartStore ==
  ASSUME TypeOK, NEW r \in Runners, Restart(r), NEW a \in Actions
  PROVE  \/ local'[a] = local[a]
         \/ local[a] = "EXECUTING" /\ local'[a] = "UNKNOWN"
         \/ local[a] = "ACCEPTED" /\ local'[a] = "INTERRUPTED"
<1>1. local'[a] = CASE local[a] = "EXECUTING" -> "UNKNOWN"
                    [] local[a] = "ACCEPTED" /\ nonceUntil[a] <= now + drift ->
                         "INTERRUPTED"
                    [] OTHER -> local[a]
  BY DEF Restart
<1> QED BY <1>1

\* How a step of a runner changes the store: an action is accepted once, claimed
\* once, and settled once.
LEMMA StoreStep ==
  ASSUME IInv, [Next]_vars, NEW a \in Actions
  PROVE  \/ local'[a] = local[a]
         \/ local[a] = "NONE" /\ local'[a] = "ACCEPTED"
         \/ local[a] = "ACCEPTED" /\ local'[a] \in {"EXECUTING", "INTERRUPTED"}
         \/ local[a] = "EXECUTING" /\ local'[a] \in {"SUCCEEDED", "FAILED", "UNKNOWN"}
<1> DEFINE Goal == \/ local'[a] = local[a]
                   \/ local[a] = "NONE" /\ local'[a] = "ACCEPTED"
                   \/ local[a] = "ACCEPTED" /\ local'[a] \in {"EXECUTING", "INTERRUPTED"}
                   \/ local[a] = "EXECUTING" /\ local'[a] \in {"SUCCEEDED", "FAILED", "UNKNOWN"}
<1> TypeOK
  BY DEF IInv
<1>1. CASE Console \/ Tick \/ \E m \in requests : Deliver(m)
  BY <1>1 DEF Console, RequestAction, ApproveAction, RotateToken, RevokeToken, Tick,
              Deliver, HandleAck, HandleReport, Lose, storeVars
<1>2. ASSUME NEW r \in Runners, Loop(r) \/ AbandonOrder(r) PROVE Goal
  <2>1. CASE Poll(r) \/ ReceivePoll(r) \/ LosePoll(r) \/ EndCycle(r) \/ SendAck(r)
               \/ Report(r) \/ AbandonOrder(r)
               \/ \E result \in {"SUCCEEDED", "FAILED"} : RunHandler(r, result)
    BY <2>1 DEF Poll, ReceivePoll, LosePoll, EndCycle, SendAck, Report,
                AbandonOrder, RunHandler, storeVars
  <2>2. ASSUME NEW o \in inbox[r], AcceptOrder(r, o) \/ SkipOrder(r, o) PROVE Goal
    BY <2>2, OrderedAction DEF AcceptOrder, SkipOrder, NewOrder, storeVars, TypeOK
  <2>3. CASE Claim(r)
    BY <2>3 DEF Claim, TypeOK
  <2>4. CASE Finish(r)
    BY <2>4 DEF Finish, TypeOK
  <2> QED BY <1>2, <2>1, <2>2, <2>3, <2>4 DEF Loop
<1>3. ASSUME NEW r \in Runners, Restart(r) PROVE Goal
  BY <1>3, RestartStore
<1>4. CASE UNCHANGED vars
  BY <1>4 DEF vars, storeVars
<1> QED BY <1>1, <1>2, <1>3, <1>4 DEF Next
-----------------------------------------------------------------------------
(* Type correctness.                                                        *)

LEMMA InitType == Init => TypeOK
<1> SUFFICES ASSUME Init
             PROVE  TypeOK
  OBVIOUS
<1>1. now \in Nat /\ drift \in Int
  BY ClockAssumption DEF Init
<1>2. \A r \in Runners : pc[r] \in {"idle", "polled", "working"} <=> current[r] = NoAction
  BY DEF Init
<1>3. tokens \in [Tokens -> {"unused", "valid", "revoked"}]
  BY DEF Init
<1>4. /\ status \in [Actions -> ServerStatus]
      /\ issued \in [Actions -> Int]
      /\ ackToken \in [Actions -> SUBSET Tokens]
      /\ approved \in [Actions -> BOOLEAN]
      /\ local \in [Actions -> LocalStatus]
      /\ nonceUntil \in [Actions -> Int]
      /\ effects \in [Actions -> Nat]
  BY DEF Init, ServerStatus, LocalStatus
<1>5. /\ pc \in [Runners -> {"idle", "polled", "working", "accepted",
                             "acknowledged", "executing", "finishing", "reporting"}]
      /\ inbox \in [Runners -> SUBSET Orders]
      /\ asOf \in [Runners -> Int]
      /\ current \in [Runners -> Actions \cup {NoAction}]
      /\ outcome \in [Runners -> {"SUCCEEDED", "FAILED"}]
      /\ token \in [Runners -> Tokens]
  BY TokensAssumption DEF Init
<1>6. requests \subseteq Request
  BY DEF Init
<1> QED
  BY <1>1, <1>2, <1>3, <1>4, <1>5, <1>6 DEF TypeOK

LEMMA ConsoleType ==
  ASSUME TypeOK, Console \/ Tick
  PROVE  TypeOK'
<1>1. ASSUME NEW a \in Actions, RequestAction(a) \/ ApproveAction(a) PROVE TypeOK'
  <2>1. CASE RequestAction(a)
    <3>1. status' \in [Actions -> ServerStatus]
      BY <2>1 DEF RequestAction, TypeOK, ServerStatus
    <3> QED BY <2>1, <3>1 DEF RequestAction, TypeOK, storeVars, runnerVars
  <2>2. CASE ApproveAction(a)
    <3>1. status' \in [Actions -> ServerStatus]
      BY <2>2 DEF ApproveAction, TypeOK, ServerStatus
    <3> QED BY <2>2, <3>1 DEF ApproveAction, TypeOK, storeVars, runnerVars
  <2> QED BY <1>1, <2>1, <2>2
<1>2. ASSUME NEW t \in Tokens, RotateToken(t) \/ RevokeToken(t) PROVE TypeOK'
  BY <1>2 DEF RotateToken, RevokeToken, TypeOK, storeVars, runnerVars
<1>3. CASE Tick
  BY <1>3 DEF Tick, TypeOK, serverVars, storeVars, runnerVars
<1> QED BY <1>1, <1>2, <1>3 DEF Console

LEMMA PollType ==
  ASSUME TypeOK, NEW r \in Runners,
         Poll(r) \/ ReceivePoll(r) \/ LosePoll(r) \/ EndCycle(r)
  PROVE  TypeOK'
<1>1. CASE Poll(r)
  <2>1. PICK S \in Page :
          inbox' = [inbox EXCEPT ![r] = {[action |-> a, issued |-> issued[a]] : a \in S}]
    BY <1>1 DEF Poll
  <2>2. {[action |-> a, issued |-> issued[a]] : a \in S} \subseteq Orders
    BY DEF Page, Open, Orders, TypeOK
  <2>3. inbox' \in [Runners -> SUBSET Orders]
    BY <2>1, <2>2 DEF TypeOK
  <2>4. status' \in [Actions -> ServerStatus]
    BY <1>1 DEF Poll, TypeOK, ServerStatus
  <2> QED BY <1>1, <2>3, <2>4 DEF Poll, TypeOK, storeVars
<1>2. CASE ReceivePoll(r)
  BY <1>2 DEF ReceivePoll, TypeOK, serverVars, storeVars
<1>3. CASE LosePoll(r)
  BY <1>3 DEF LosePoll, TypeOK, serverVars, storeVars
<1>4. CASE EndCycle(r)
  BY <1>4 DEF EndCycle, TypeOK, serverVars, storeVars
<1> QED BY <1>1, <1>2, <1>3, <1>4

LEMMA OrderType ==
  ASSUME TypeOK, NEW r \in Runners, NEW o \in inbox[r],
         AcceptOrder(r, o) \/ SkipOrder(r, o)
  PROVE  TypeOK'
<1>1. o.action \in Actions /\ o.issued \in Int /\ o.action # NoAction
  BY OrderedAction, ActionsAssumption
<1>2. inbox' \in [Runners -> SUBSET Orders]
  BY DEF AcceptOrder, SkipOrder, NextOrder, TypeOK
<1>3. CASE AcceptOrder(r, o)
  <2>1. o.issued + Window + Skew \in Int
    BY <1>1, ClockAssumption
  <2>2. /\ local' \in [Actions -> LocalStatus]
        /\ nonceUntil' \in [Actions -> Int]
    BY <1>1, <1>3, <2>1 DEF AcceptOrder, TypeOK, LocalStatus
  <2>3. /\ pc' = [pc EXCEPT ![r] = "accepted"]
        /\ current' = [current EXCEPT ![r] = o.action]
    BY <1>3 DEF AcceptOrder
  <2>4. \A q \in Runners :
          pc'[q] \in {"idle", "polled", "working"} <=> current'[q] = NoAction
    BY <1>1, <2>3 DEF TypeOK
  <2> QED BY <1>1, <1>2, <1>3, <2>2, <2>3, <2>4 DEF AcceptOrder, TypeOK, serverVars
<1>4. CASE SkipOrder(r, o)
  BY <1>2, <1>4 DEF SkipOrder, TypeOK, serverVars, storeVars
<1> QED BY <1>3, <1>4

LEMMA ExecuteType ==
  ASSUME TypeOK, NEW r \in Runners,
         \/ SendAck(r) \/ Claim(r) \/ Finish(r) \/ Report(r) \/ AbandonOrder(r)
         \/ \E result \in {"SUCCEEDED", "FAILED"} : RunHandler(r, result)
  PROVE  TypeOK'
<1>1. CASE SendAck(r)
  <2>1. current[r] \in Actions
    BY <1>1, HeldAction DEF SendAck, Holding
  <2>2. requests' \subseteq Request
    BY <1>1, <2>1 DEF SendAck, TypeOK, Request, LocalStatus
  <2> QED BY <1>1, <2>2 DEF SendAck, TypeOK, serverVars, storeVars
<1>2. CASE Claim(r)
  <2>1. local' \in [Actions -> LocalStatus]
    BY <1>2 DEF Claim, TypeOK, LocalStatus
  <2>2. CASE local[current[r]] = "ACCEPTED"
    BY <1>2, <2>1, <2>2 DEF Claim, TypeOK, serverVars
  <2>3. CASE local[current[r]] # "ACCEPTED"
    BY <1>2, <2>1, <2>3, LeaveOrderType DEF Claim, TypeOK, serverVars
  <2> QED BY <2>2, <2>3
<1>3. CASE \E result \in {"SUCCEEDED", "FAILED"} : RunHandler(r, result)
  <2>1. current[r] \in Actions
    BY <1>3, HeldAction DEF RunHandler, Holding
  <2>2. effects' \in [Actions -> Nat]
    BY <1>3, <2>1 DEF RunHandler, TypeOK
  <2> QED BY <1>3, <2>2 DEF RunHandler, TypeOK, serverVars, storeVars
<1>4. CASE Finish(r)
  <2>1. local' \in [Actions -> LocalStatus]
    BY <1>4 DEF Finish, TypeOK, LocalStatus
  <2>2. CASE local[current[r]] = "EXECUTING"
    BY <1>4, <2>1, <2>2 DEF Finish, TypeOK, serverVars
  <2>3. CASE local[current[r]] # "EXECUTING"
    BY <1>4, <2>1, <2>3, LeaveOrderType DEF Finish, TypeOK, serverVars
  <2> QED BY <2>2, <2>3
<1>5. CASE Report(r)
  <2>1. current[r] \in Actions
    BY <1>5, HeldAction DEF Report, Holding
  <2>2. requests' \subseteq Request
    BY <1>5, <2>1 DEF Report, TypeOK, Request
  <2> QED BY <1>5, <2>2, LeaveOrderType DEF Report, TypeOK, serverVars, storeVars
<1>6. CASE AbandonOrder(r)
  BY <1>6, LeaveOrderType DEF AbandonOrder, TypeOK, serverVars, storeVars
<1> QED BY <1>1, <1>2, <1>3, <1>4, <1>5, <1>6

LEMMA RestartType ==
  ASSUME TypeOK, NEW r \in Runners, Restart(r)
  PROVE  TypeOK'
<1>1. local' \in [Actions -> LocalStatus]
  <2>1. \A a \in Actions : local'[a] \in LocalStatus
    BY RestartStore DEF TypeOK, LocalStatus
  <2>2. local' = [a \in Actions |-> local'[a]]
    BY DEF Restart
  <2> QED BY <2>1, <2>2
<1>2. token' \in [Runners -> Tokens]
  BY DEF Restart, TypeOK, Valid
<1> QED BY <1>1, <1>2 DEF Restart, TypeOK, serverVars

LEMMA DeliverType ==
  ASSUME IInv, NEW m \in requests, Deliver(m)
  PROVE  TypeOK'
<1> TypeOK /\ RequestInv
  BY DEF IInv
<1>1. m.action \in Actions /\ m.token \in Tokens /\ m.result \in LocalStatus
  BY DEF TypeOK, Request
<1>2. requests' \subseteq Request
  BY DEF Deliver, HandleAck, HandleReport, Lose, TypeOK
<1>3. CASE HandleAck(m)
  BY <1>1, <1>2, <1>3 DEF HandleAck, TypeOK, storeVars, runnerVars, ServerStatus
<1>4. CASE HandleReport(m)
  <2>1. status' \in [Actions -> ServerStatus]
    <3>1. CASE status' = status
      BY <3>1 DEF TypeOK
    <3>2. CASE status' = [status EXCEPT ![m.action] = ResultStatus[m.result]]
      <4>1. m.result \in {"SUCCEEDED", "FAILED"}
        BY <1>4 DEF HandleReport, RequestInv
      <4>2. ResultStatus[m.result] \in ServerStatus
        BY <4>1 DEF ResultStatus, ServerStatus
      <4> QED BY <3>2, <4>2 DEF TypeOK
    <3> QED BY <1>4, <3>1, <3>2 DEF HandleReport
  <2> QED BY <1>2, <1>4, <2>1 DEF HandleReport, TypeOK, storeVars, runnerVars
<1>5. CASE Lose(m)
  BY <1>2, <1>5 DEF Lose, TypeOK, serverVars, storeVars, runnerVars
<1> QED BY <1>3, <1>4, <1>5 DEF Deliver

LEMMA TypeStep == IInv /\ [Next]_vars => TypeOK'
<1> SUFFICES ASSUME IInv, [Next]_vars
             PROVE  TypeOK'
  OBVIOUS
<1> TypeOK
  BY DEF IInv
<1>1. CASE Console \/ Tick
  BY <1>1, ConsoleType
<1>2. ASSUME NEW r \in Runners, Loop(r) PROVE TypeOK'
  BY <1>2, PollType, OrderType, ExecuteType DEF Loop
<1>3. ASSUME NEW r \in Runners, AbandonOrder(r) \/ Restart(r) PROVE TypeOK'
  BY <1>3, ExecuteType, RestartType
<1>4. ASSUME NEW m \in requests, Deliver(m) PROVE TypeOK'
  BY <1>4, DeliverType
<1>5. CASE UNCHANGED vars
  BY <1>5 DEF TypeOK, vars, serverVars, storeVars, runnerVars
<1> QED BY <1>1, <1>2, <1>3, <1>4, <1>5 DEF Next
-----------------------------------------------------------------------------
(* The parts of the inductive invariant.                                    *)

\* What every step but an agent's leaves alone.
LEMMA QuietServer ==
  ASSUME Console \/ Tick \/ (\E m \in requests : Deliver(m)) \/ UNCHANGED vars
  PROVE  UNCHANGED <<storeVars, runnerVars, effects>>
  BY DEF Console, RequestAction, ApproveAction, RotateToken, RevokeToken, Tick,
         Deliver, HandleAck, HandleReport, Lose, vars

\* The handler runs once, and its result is recorded after it ran.
LEMMA EffectStep == IInv /\ [Next]_vars => EffectInv'
<1> SUFFICES ASSUME IInv, [Next]_vars, NEW a \in Actions
             PROVE  /\ effects'[a] <= 1
                    /\ local'[a] \in {"NONE", "ACCEPTED", "INTERRUPTED"} => effects'[a] = 0
                    /\ local'[a] \in {"SUCCEEDED", "FAILED"} => effects'[a] = 1
  BY DEF EffectInv
<1> DEFINE Goal == /\ effects'[a] <= 1
                   /\ local'[a] \in {"NONE", "ACCEPTED", "INTERRUPTED"} => effects'[a] = 0
                   /\ local'[a] \in {"SUCCEEDED", "FAILED"} => effects'[a] = 1
<1> TypeOK /\ EffectInv /\ RunnerInv
  BY DEF IInv
<1>1. CASE UNCHANGED <<local, effects>>
  BY <1>1 DEF EffectInv
<1>2. ASSUME NEW r \in Runners, Loop(r) \/ AbandonOrder(r) PROVE Goal
  <2>1. CASE Poll(r) \/ ReceivePoll(r) \/ LosePoll(r) \/ EndCycle(r) \/ SendAck(r)
               \/ Report(r) \/ AbandonOrder(r)
    BY <1>1, <2>1 DEF Poll, ReceivePoll, LosePoll, EndCycle, SendAck, Report,
                      AbandonOrder, storeVars
  <2>2. ASSUME NEW o \in inbox[r], AcceptOrder(r, o) \/ SkipOrder(r, o) PROVE Goal
    BY <1>1, <2>2, OrderedAction
       DEF AcceptOrder, SkipOrder, NewOrder, storeVars, TypeOK, EffectInv
  <2>3. CASE Claim(r)
    BY <2>3 DEF Claim, TypeOK, EffectInv
  <2>4. CASE \E result \in {"SUCCEEDED", "FAILED"} : RunHandler(r, result)
    <3>1. /\ current[r] \in Actions
          /\ local[current[r]] \in {"EXECUTING", "UNKNOWN"}
          /\ effects[current[r]] = 0
      BY <2>4, HeldAction DEF RunHandler, RunnerInv, Holding
    <3> QED BY <2>4, <3>1 DEF RunHandler, TypeOK, EffectInv, storeVars
  <2>5. CASE Finish(r)
    <3>1. current[r] \in Actions /\ effects[current[r]] = 1
      BY <2>5, HeldAction DEF Finish, RunnerInv, Holding
    <3> QED BY <2>5, <3>1 DEF Finish, TypeOK, EffectInv
  <2> QED BY <1>2, <2>1, <2>2, <2>3, <2>4, <2>5 DEF Loop
<1>3. ASSUME NEW r \in Runners, Restart(r) PROVE Goal
  BY <1>3, RestartStore DEF Restart, EffectInv
<1> QED BY <1>1, <1>2, <1>3, QuietServer DEF Next, storeVars

\* No step puts a second runner past the claim of an action.
LEMMA ClaimStep == IInv /\ [Next]_vars => ClaimInv'
<1> SUFFICES ASSUME IInv, [Next]_vars, NEW p \in Runners, NEW q \in Runners, p # q,
                    pc'[p] \in Executing, pc'[q] \in Executing
             PROVE  current'[p] # current'[q]
  BY DEF ClaimInv
<1> TypeOK /\ RunnerInv /\ ClaimInv
  BY DEF IInv
<1>1. CASE UNCHANGED <<pc, current>>
  BY <1>1 DEF ClaimInv
<1>2. ASSUME NEW r \in Runners, Loop(r) PROVE current'[p] # current'[q]
  <2>1. CASE Poll(r) \/ ReceivePoll(r) \/ LosePoll(r) \/ EndCycle(r) \/ SendAck(r)
               \/ Report(r)
    BY <2>1 DEF Poll, ReceivePoll, LosePoll, EndCycle, SendAck, Report, LeaveOrder,
                Executing, TypeOK, ClaimInv
  <2>2. ASSUME NEW o \in inbox[r], AcceptOrder(r, o) \/ SkipOrder(r, o)
        PROVE  current'[p] # current'[q]
    BY <2>2 DEF AcceptOrder, SkipOrder, Executing, TypeOK, ClaimInv
  <2>3. CASE Claim(r)
    <3>1. \A c \in Runners : pc[c] \in Executing => local[current[c]] # "ACCEPTED"
      BY DEF RunnerInv, Executing, Holding
    <3>2. CASE local[current[r]] = "ACCEPTED"
      <4>1. pc' = [pc EXCEPT ![r] = "executing"] /\ current' = current
        BY <2>3, <3>2 DEF Claim
      <4> QED BY <3>1, <3>2, <4>1 DEF TypeOK, ClaimInv
    <3>3. CASE local[current[r]] # "ACCEPTED"
      BY <2>3, <3>3 DEF Claim, LeaveOrder, Executing, TypeOK, ClaimInv
    <3> QED BY <3>2, <3>3
  <2>4. CASE \E result \in {"SUCCEEDED", "FAILED"} : RunHandler(r, result)
    BY <2>4 DEF RunHandler, Executing, TypeOK, ClaimInv
  <2>5. CASE Finish(r)
    BY <2>5 DEF Finish, LeaveOrder, Executing, TypeOK, ClaimInv
  <2> QED BY <1>2, <2>1, <2>2, <2>3, <2>4, <2>5 DEF Loop
<1>3. ASSUME NEW r \in Runners, AbandonOrder(r) \/ Restart(r)
      PROVE  current'[p] # current'[q]
  BY <1>3 DEF AbandonOrder, Restart, LeaveOrder, Executing, TypeOK, ClaimInv
<1> QED BY <1>1, <1>2, <1>3, QuietServer DEF Next, runnerVars

\* What a runner knows of its action survives the steps of the others.
LEMMA RunnerStep == IInv /\ [Next]_vars => RunnerInv'
<1> DEFINE Knows(q) ==
      pc[q] \in Holding =>
        /\ local[current[q]] # "NONE"
        /\ pc[q] \in {"executing", "finishing"} =>
             local[current[q]] \in {"EXECUTING", "UNKNOWN"}
        /\ pc[q] = "executing" => effects[current[q]] = 0
        /\ pc[q] = "finishing" => effects[current[q]] = 1
        /\ pc[q] = "reporting" => local[current[q]] \in {"SUCCEEDED", "FAILED"}
<1> SUFFICES ASSUME IInv, [Next]_vars, NEW q \in Runners
             PROVE  Knows(q)'
  BY DEF RunnerInv
<1> TypeOK /\ EffectInv /\ RunnerInv /\ ClaimInv
  BY DEF IInv
<1> USE DEF Holding
<1>0. /\ Knows(q)
      /\ pc[q] \in Holding => current[q] \in Actions
  BY HeldAction DEF RunnerInv
<1>1. CASE UNCHANGED <<pc, current, local, effects>>
  BY <1>1, <1>0
<1>2. ASSUME NEW r \in Runners, Loop(r) PROVE Knows(q)'
  <2>1. CASE Poll(r) \/ ReceivePoll(r) \/ LosePoll(r) \/ EndCycle(r) \/ SendAck(r)
               \/ Report(r)
    BY <1>0, <2>1 DEF Poll, ReceivePoll, LosePoll, EndCycle, SendAck, Report,
                      LeaveOrder, TypeOK, storeVars
  <2>2. ASSUME NEW o \in inbox[r], AcceptOrder(r, o) PROVE Knows(q)'
    BY <1>0, <2>2, OrderedAction DEF AcceptOrder, NextOrder, NewOrder, TypeOK
  <2>3. ASSUME NEW o \in inbox[r], SkipOrder(r, o) PROVE Knows(q)'
    BY <1>0, <2>3 DEF SkipOrder, storeVars
  <2>4. CASE Claim(r)
    <3>1. current[r] \in Actions
      BY <2>4, HeldAction DEF Claim
    <3>2. CASE local[current[r]] = "ACCEPTED"
      <4>1. /\ local' = [local EXCEPT ![current[r]] = "EXECUTING"]
            /\ pc' = [pc EXCEPT ![r] = "executing"]
            /\ UNCHANGED <<current, effects>>
        BY <2>4, <3>2 DEF Claim
      <4>2. effects[current[r]] = 0
        BY <3>1, <3>2 DEF EffectInv
      <4> QED BY <1>0, <3>1, <3>2, <4>1, <4>2 DEF TypeOK
    <3>3. CASE local[current[r]] # "ACCEPTED"
      BY <1>0, <2>4, <3>3 DEF Claim, LeaveOrder, TypeOK
    <3> QED BY <3>2, <3>3
  <2>5. ASSUME NEW result \in {"SUCCEEDED", "FAILED"}, RunHandler(r, result)
        PROVE  Knows(q)'
    <3>1. /\ current[r] \in Actions /\ effects[current[r]] = 0
          /\ local[current[r]] \in {"EXECUTING", "UNKNOWN"}
      BY <2>5, HeldAction DEF RunHandler, RunnerInv
    <3>2. q # r /\ pc[q] \in Executing => current[q] # current[r]
      BY <2>5 DEF RunHandler, ClaimInv, Executing
    <3>3. /\ effects' = [effects EXCEPT ![current[r]] = @ + 1]
          /\ pc' = [pc EXCEPT ![r] = "finishing"]
          /\ UNCHANGED <<current, local>>
      BY <2>5 DEF RunHandler, storeVars
    <3>4. CASE q = r
      BY <3>1, <3>3, <3>4 DEF TypeOK
    <3>5. CASE q # r
      BY <1>0, <3>1, <3>2, <3>3, <3>5 DEF TypeOK, Executing
    <3> QED BY <3>4, <3>5
  <2>6. CASE Finish(r)
    <3>1. current[r] \in Actions /\ outcome[r] \in {"SUCCEEDED", "FAILED"}
      BY <2>6, HeldAction DEF Finish, TypeOK
    <3>2. q # r /\ pc[q] \in Executing => current[q] # current[r]
      BY <2>6 DEF Finish, ClaimInv, Executing
    <3>3. CASE local[current[r]] = "EXECUTING"
      <4>1. /\ local' = [local EXCEPT ![current[r]] = outcome[r]]
            /\ pc' = [pc EXCEPT ![r] = "reporting"]
            /\ UNCHANGED <<current, effects>>
        BY <2>6, <3>3 DEF Finish
      <4>2. CASE q = r
        BY <3>1, <4>1, <4>2 DEF TypeOK
      <4>3. CASE q # r
        BY <1>0, <3>1, <3>2, <4>1, <4>3 DEF TypeOK, Executing
      <4> QED BY <4>2, <4>3
    <3>4. CASE local[current[r]] # "EXECUTING"
      BY <1>0, <2>6, <3>4 DEF Finish, LeaveOrder, TypeOK
    <3> QED BY <3>3, <3>4
  <2> QED BY <1>2, <2>1, <2>2, <2>3, <2>4, <2>5, <2>6 DEF Loop
<1>3. ASSUME NEW r \in Runners, AbandonOrder(r) PROVE Knows(q)'
  BY <1>0, <1>3 DEF AbandonOrder, LeaveOrder, TypeOK, storeVars
<1>4. ASSUME NEW r \in Runners, Restart(r) PROVE Knows(q)'
  <2>1. /\ pc' = [pc EXCEPT ![r] = "idle"]
        /\ current' = [current EXCEPT ![r] = NoAction]
        /\ UNCHANGED effects
    BY <1>4 DEF Restart
  <2>2. CASE q = r
    BY <2>1, <2>2 DEF TypeOK
  <2>3. CASE q # r
    <3>1. pc'[q] = pc[q] /\ current'[q] = current[q]
      BY <2>1, <2>3 DEF TypeOK
    <3>2. CASE pc[q] \in Holding
      <4> DEFINE a == current[q]
      <4>1. \/ local'[a] = local[a]
            \/ local[a] = "EXECUTING" /\ local'[a] = "UNKNOWN"
            \/ local[a] = "ACCEPTED" /\ local'[a] = "INTERRUPTED"
        BY <1>0, <1>4, <3>2, RestartStore
      <4> QED BY <1>0, <2>1, <3>1, <3>2, <4>1
    <3>3. CASE pc[q] \notin Holding
      BY <3>1, <3>3
    <3> QED BY <3>2, <3>3
  <2> QED BY <2>2, <2>3
<1> QED BY <1>1, <1>2, <1>3, <1>4, QuietServer DEF Next, runnerVars, storeVars

\* A request in flight keeps telling the truth, and a new one does.
LEMMA RequestStep == IInv /\ [Next]_vars => RequestInv'
<1> DEFINE Honest(m) == /\ local'[m.action] # "NONE"
                        /\ m.kind = "report" => /\ m.result \in {"SUCCEEDED", "FAILED"}
                                                /\ m.result = local'[m.action]
<1> SUFFICES ASSUME IInv, [Next]_vars, NEW m \in requests'
             PROVE  Honest(m)
  BY DEF RequestInv
<1> TypeOK /\ RunnerInv /\ RequestInv
  BY DEF IInv
<1>1. CASE m \in requests
  <2>1. m.action \in Actions
    BY <1>1 DEF TypeOK, Request
  <2> QED BY <1>1, <2>1, StoreStep DEF RequestInv
<1>2. CASE m \notin requests
  <2>1. PICK r \in Runners : SendAck(r) \/ Report(r)
    <3>1. CASE Console \/ Tick \/ UNCHANGED vars
      BY <1>2, <3>1 DEF Console, RequestAction, ApproveAction, RotateToken, RevokeToken,
                        Tick, vars
    <3>2. ASSUME NEW r \in Runners, Loop(r) PROVE SendAck(r) \/ Report(r)
      BY <1>2, <3>2 DEF Loop, Poll, ReceivePoll, LosePoll, EndCycle, AcceptOrder,
                        SkipOrder, Claim, RunHandler, Finish
    <3>3. CASE \E r \in Runners : AbandonOrder(r) \/ Restart(r)
      BY <1>2, <3>3 DEF AbandonOrder, Restart
    <3>4. CASE \E k \in requests : Deliver(k)
      BY <1>2, <3>4 DEF Deliver, HandleAck, HandleReport, Lose
    <3> QED BY <3>1, <3>2, <3>3, <3>4 DEF Next
  <2>2. CASE SendAck(r)
    BY <1>2, <2>2 DEF SendAck, storeVars, RunnerInv, Holding
  <2>3. CASE Report(r)
    BY <1>2, <2>3 DEF Report, storeVars, RunnerInv, Holding
  <2> QED BY <2>1, <2>2, <2>3
<1> QED BY <1>1, <1>2

\* An order in a poll, in the store or past the server's approval is released.
LEMMA ApprovalStep == IInv /\ [Next]_vars => ApprovalInv'
<1> SUFFICES ASSUME IInv, [Next]_vars
             PROVE  ApprovalInv'
  OBVIOUS
<1> TypeOK /\ ApprovalInv
  BY DEF IInv
<1> USE DEF Released
<1>1. CASE UNCHANGED <<status, approved, local, inbox>>
  BY <1>1 DEF ApprovalInv
<1>2. ASSUME NEW a \in Actions, RequestAction(a) \/ ApproveAction(a)
      PROVE  ApprovalInv'
  <2>1. CASE RequestAction(a)
    <3>1. \A b \in Actions : status'[b] \notin {"NONE", "PENDING_APPROVAL"} =>
                                status[b] \notin {"NONE", "PENDING_APPROVAL"} \/ b \notin Privileged
      BY <2>1 DEF RequestAction, TypeOK
    <3> QED BY <2>1, <3>1 DEF RequestAction, storeVars, runnerVars, ApprovalInv
  <2>2. CASE ApproveAction(a)
    <3>1. \A b \in Actions : (approved[b] => approved'[b]) /\ (b # a => status'[b] = status[b])
      BY <2>2 DEF ApproveAction, TypeOK
    <3>2. approved'[a]
      BY <2>2 DEF ApproveAction, TypeOK
    <3>3. local' = local /\ inbox' = inbox
      BY <2>2 DEF ApproveAction, storeVars, runnerVars
    <3>4. \A r \in Runners : \A o \in inbox[r] : o.action \in Actions
      BY OrderedAction
    <3> QED BY <3>1, <3>2, <3>3, <3>4 DEF ApprovalInv
  <2> QED BY <1>2, <2>1, <2>2
<1>3. ASSUME NEW r \in Runners, Poll(r) PROVE ApprovalInv'
  <2>1. \A b \in Actions : status'[b] \notin {"NONE", "PENDING_APPROVAL"} =>
                              status[b] \notin {"NONE", "PENDING_APPROVAL"}
    BY <1>3 DEF Poll
  <2>2. PICK S \in Page :
          inbox' = [inbox EXCEPT ![r] = {[action |-> a, issued |-> issued[a]] : a \in S}]
    BY <1>3 DEF Poll
  <2>3. \A a \in S : Released(a)
    BY DEF Page, Open, ApprovalInv
  <2>4. \A q \in Runners : \A o \in inbox'[q] : Released(o.action)
    BY <2>2, <2>3 DEF ApprovalInv, TypeOK
  <2> QED BY <1>3, <2>1, <2>4 DEF Poll, storeVars, ApprovalInv
<1>4. ASSUME NEW r \in Runners, NEW o \in inbox[r], AcceptOrder(r, o) \/ SkipOrder(r, o)
      PROVE  ApprovalInv'
  <2>1. o.action \in Actions /\ Released(o.action)
    BY OrderedAction DEF ApprovalInv
  <2>2. \A q \in Runners : inbox'[q] \subseteq inbox[q]
    BY <1>4 DEF AcceptOrder, SkipOrder, NextOrder, TypeOK
  <2>3. \A a \in Actions : local'[a] # "NONE" => local[a] # "NONE" \/ a = o.action
    BY <1>4, <2>1 DEF AcceptOrder, SkipOrder, storeVars, TypeOK
  <2>4. UNCHANGED <<status, approved>>
    BY <1>4 DEF AcceptOrder, SkipOrder, serverVars
  <2> QED BY <2>1, <2>2, <2>3, <2>4 DEF ApprovalInv
<1>5. ASSUME NEW r \in Runners,
             \/ ReceivePoll(r) \/ LosePoll(r) \/ EndCycle(r) \/ SendAck(r) \/ Claim(r)
             \/ (\E result \in {"SUCCEEDED", "FAILED"} : RunHandler(r, result))
             \/ Finish(r) \/ Report(r) \/ AbandonOrder(r) \/ Restart(r)
      PROVE  ApprovalInv'
  <2>1. UNCHANGED <<status, approved>>
    BY <1>5 DEF ReceivePoll, LosePoll, EndCycle, SendAck, Claim, RunHandler, Finish,
                Report, AbandonOrder, Restart, serverVars
  <2>2. \A q \in Runners : inbox'[q] \subseteq inbox[q]
    BY <1>5 DEF ReceivePoll, LosePoll, EndCycle, SendAck, Claim, RunHandler, Finish,
                Report, AbandonOrder, Restart, TypeOK
  <2>3. \A a \in Actions : local'[a] # "NONE" => local[a] # "NONE"
    <3>1. CASE Restart(r)
      BY <3>1, RestartStore
    <3>2. CASE UNCHANGED local
      BY <3>2
    <3>3. CASE Claim(r) \/ Finish(r)
      <4>1. current[r] \in Actions
        BY <3>3, HeldAction DEF Claim, Finish, Holding
      <4> QED BY <3>3, <4>1 DEF Claim, Finish, TypeOK
    <3> QED BY <1>5, <3>1, <3>2, <3>3 DEF ReceivePoll, LosePoll, EndCycle, SendAck,
                RunHandler, Report, AbandonOrder, storeVars
  <2> QED BY <2>1, <2>2, <2>3 DEF ApprovalInv
<1>6. ASSUME NEW m \in requests, Deliver(m) PROVE ApprovalInv'
  <2>1. \A b \in Actions : status'[b] \notin {"NONE", "PENDING_APPROVAL"} =>
                              status[b] \notin {"NONE", "PENDING_APPROVAL"}
    BY <1>6 DEF Deliver, HandleAck, HandleReport, Lose, Acknowledgeable, Sources,
                serverVars, TypeOK
  <2>2. UNCHANGED <<approved, local, inbox>>
    BY <1>6 DEF Deliver, HandleAck, HandleReport, Lose, serverVars, storeVars, runnerVars
  <2> QED BY <2>1, <2>2 DEF ApprovalInv
<1>7. CASE Tick \/ (\E t \in Tokens : RotateToken(t) \/ RevokeToken(t)) \/ UNCHANGED vars
  BY <1>1, <1>7 DEF Tick, RotateToken, RevokeToken, vars, serverVars, storeVars, runnerVars
<1> QED BY <1>2, <1>3, <1>4, <1>5, <1>6, <1>7 DEF Next, Console, Loop

\* What a step does to the status of one action at the server.
LEMMA StatusStep ==
  ASSUME IInv, [Next]_vars, NEW a \in Actions
  PROVE  \/ status'[a] = status[a]
         \/ status[a] = "NONE" /\ status'[a] \in {"PENDING_APPROVAL", "DISPATCHED"}
         \/ status[a] = "PENDING_APPROVAL" /\ status'[a] = "DISPATCHED"
         \/ status[a] = "DISPATCHED" /\ status'[a] = "TIMED_OUT"
         \/ /\ status[a] = "DISPATCHED" /\ status'[a] = "ACCEPTED"
            /\ local[a] # "NONE"
         \/ /\ status[a] \in {"ACCEPTED", "EXECUTING"}
            /\ local[a] \in {"SUCCEEDED", "FAILED"}
            /\ status'[a] = ResultStatus[local[a]]
<1> DEFINE Goal ==
      \/ status'[a] = status[a]
      \/ status[a] = "NONE" /\ status'[a] \in {"PENDING_APPROVAL", "DISPATCHED"}
      \/ status[a] = "PENDING_APPROVAL" /\ status'[a] = "DISPATCHED"
      \/ status[a] = "DISPATCHED" /\ status'[a] = "TIMED_OUT"
      \/ /\ status[a] = "DISPATCHED" /\ status'[a] = "ACCEPTED"
         /\ local[a] # "NONE"
      \/ /\ status[a] \in {"ACCEPTED", "EXECUTING"}
         /\ local[a] \in {"SUCCEEDED", "FAILED"}
         /\ status'[a] = ResultStatus[local[a]]
<1> TypeOK /\ RequestInv
  BY DEF IInv
<1>1. CASE Console
  BY <1>1 DEF Console, RequestAction, ApproveAction, RotateToken, RevokeToken, TypeOK
<1>2. ASSUME NEW r \in Runners, Loop(r) \/ AbandonOrder(r) \/ Restart(r) PROVE Goal
  <2>1. CASE Poll(r)
    BY <2>1 DEF Poll
  <2>2. CASE ~Poll(r)
    BY <1>2, <2>2 DEF Loop, ReceivePoll, LosePoll, EndCycle, AcceptOrder, SkipOrder,
       SendAck, Claim, RunHandler, Finish, Report, AbandonOrder, Restart, serverVars
  <2> QED BY <2>1, <2>2
<1>3. ASSUME NEW m \in requests, Deliver(m) PROVE Goal
  <2>1. m.action \in Actions
    BY DEF TypeOK, Request
  <2>2. CASE HandleAck(m)
    BY <2>1, <2>2 DEF HandleAck, Acknowledgeable, RequestInv, TypeOK
  <2>3. CASE HandleReport(m)
    <3>1. m.result \in {"SUCCEEDED", "FAILED"} /\ m.result = local[m.action]
      BY <2>3 DEF HandleReport, RequestInv
    <3>2. ResultStatus[m.result] \in {"COMPLETED", "FAILED"}
      BY <3>1 DEF ResultStatus
    <3>3. CASE status' = status
      BY <3>3
    <3>4. CASE /\ status[m.action] \in Sources(ResultStatus[m.result])
               /\ status' = [status EXCEPT ![m.action] = ResultStatus[m.result]]
      <4>1. status[m.action] \in {"ACCEPTED", "EXECUTING"}
        BY <3>4 DEF Sources
      <4> QED BY <2>1, <3>1, <3>4, <4>1 DEF TypeOK
    <3> QED BY <2>3, <3>3, <3>4 DEF HandleReport
  <2>4. CASE Lose(m)
    BY <2>4 DEF Lose, serverVars
  <2> QED BY <1>3, <2>2, <2>3, <2>4 DEF Deliver
<1>4. CASE Tick \/ UNCHANGED vars
  BY <1>4 DEF Tick, vars, serverVars
<1> QED BY <1>1, <1>2, <1>3, <1>4 DEF Next

\* The server's record stays behind the agent's.
LEMMA FollowsStep == IInv /\ [Next]_vars => ServerFollowsAgent'
<1> SUFFICES ASSUME IInv, [Next]_vars, NEW a \in Actions
             PROVE  /\ status'[a] \in {"ACCEPTED", "EXECUTING"} => local'[a] # "NONE"
                    /\ status'[a] = "COMPLETED" => local'[a] = "SUCCEEDED" /\ effects'[a] = 1
                    /\ status'[a] = "FAILED" => local'[a] = "FAILED" /\ effects'[a] = 1
  BY DEF ServerFollowsAgent
<1>1. local'[a] \in {"SUCCEEDED", "FAILED"} => effects'[a] = 1
  BY EffectStep DEF EffectInv
<1>2. /\ local[a] # "NONE" => local'[a] # "NONE"
      /\ local[a] \in {"SUCCEEDED", "FAILED"} => local'[a] = local[a]
  BY StoreStep
<1>3. /\ ResultStatus["SUCCEEDED"] = "COMPLETED"
      /\ ResultStatus["FAILED"] = "FAILED"
  BY DEF ResultStatus
<1> QED BY <1>1, <1>2, <1>3, StatusStep DEF IInv, ServerFollowsAgent

\* An order on a runner's list was given, and an order that was given stays given.
LEMMA GivenStep == IInv /\ [Next]_vars => GivenInv'
<1> SUFFICES ASSUME IInv, [Next]_vars, NEW q \in Runners, NEW o \in inbox'[q]
             PROVE  OrderOf(status'[o.action]) = "given"
  BY DEF GivenInv, OrderOf
<1> TypeOK /\ GivenInv
  BY DEF IInv
<1>1. ASSUME NEW a \in Actions, OrderOf(status[a]) = "given"
      PROVE  OrderOf(status'[a]) = "given"
  <2>1. status[a] \notin {"NONE", "PENDING_APPROVAL"}
    BY <1>1 DEF OrderOf
  <2>2. status'[a] \notin {"NONE", "PENDING_APPROVAL"}
    BY <2>1, StatusStep DEF ResultStatus
  <2> QED
    BY <2>2 DEF OrderOf
<1>2. CASE o \in inbox[q]
  BY <1>1, <1>2, OrderedAction DEF GivenInv
<1>3. CASE o \notin inbox[q]
  <2>1. PICK r \in Runners : Poll(r)
    <3>1. CASE Console \/ Tick \/ (\E m \in requests : Deliver(m)) \/ UNCHANGED vars
      BY <1>3, <3>1, QuietServer DEF runnerVars
    <3>2. ASSUME NEW r \in Runners, Loop(r) \/ AbandonOrder(r) \/ Restart(r), ~Poll(r)
          PROVE  FALSE
      BY <1>3, <3>2 DEF Loop, ReceivePoll, LosePoll, EndCycle, AcceptOrder, SkipOrder,
         NextOrder, SendAck, Claim, RunHandler, Finish, Report, AbandonOrder, Restart,
         LeaveOrder, TypeOK
    <3> QED
      BY <3>1, <3>2 DEF Next, Loop
  <2>2. PICK S \in Page :
          inbox' = [inbox EXCEPT ![r] = {[action |-> a, issued |-> issued[a]] : a \in S}]
    BY <2>1 DEF Poll
  <2>3. q = r /\ o \in {[action |-> a, issued |-> issued[a]] : a \in S}
    BY <1>3, <2>2 DEF TypeOK
  <2>4. PICK a \in S : o = [action |-> a, issued |-> issued[a]]
    BY <2>3
  <2>5. o.action = a /\ a \in Actions /\ status[a] = "DISPATCHED"
    BY <2>4 DEF Page, Open
  <2>6. OrderOf(status[a]) = "given"
    BY <2>5 DEF OrderOf
  <2> QED
    BY <1>1, <2>5, <2>6
<1> QED
  BY <1>2, <1>3
-----------------------------------------------------------------------------
(* The theorems.                                                            *)

LEMMA InitInv == Init => IInv
<1> SUFFICES ASSUME Init
             PROVE  IInv
  OBVIOUS
<1>1. /\ EffectInv /\ RunnerInv /\ ClaimInv /\ RequestInv /\ ApprovalInv /\ GivenInv
      /\ ServerFollowsAgent
  BY DEF Init, EffectInv, RunnerInv, ClaimInv, RequestInv, ApprovalInv, GivenInv,
         ServerFollowsAgent, Holding, Executing
<1> QED BY <1>1, InitType DEF IInv

\* The inductive invariant: what the store, the runners, the requests in flight
\* and the server say of an action agree in every reachable state.
THEOREM Invariance == Spec => []IInv
<1>1. IInv /\ [Next]_vars => IInv'
  BY TypeStep, EffectStep, RunnerStep, ClaimStep, RequestStep, ApprovalStep,
     GivenStep, FollowsStep DEF IInv
<1> QED BY <1>1, InitInv, PTL DEF Spec

\* Every variable keeps its type.
THEOREM TypeCorrect == Spec => []TypeOK
<1>1. IInv => TypeOK
  BY DEF IInv
<1> QED BY <1>1, Invariance, PTL

\* The handler of an action runs at most once, whatever crashes, is polled again
\* or shares the store (SQLiteActionStore.accept and claim).
THEOREM AtMostOnce == Spec => []ExecutedAtMostOnce
<1>1. IInv => ExecutedAtMostOnce
  BY DEF IInv, EffectInv, ExecutedAtMostOnce
<1> QED BY <1>1, Invariance, PTL

\* No privileged action runs that an administrator did not approve
\* (create_action, approve_action).
THEOREM ApprovalFirst == Spec => []ApprovedBeforeExecuted
<1>1. ASSUME IInv, NEW a \in Privileged, effects[a] > 0
      PROVE  approved[a]
  <2>1. a \in Actions
    BY ActionsAssumption
  <2>2. local[a] # "NONE"
    BY <1>1, <2>1 DEF IInv, EffectInv
  <2> QED BY <1>1, <2>1, <2>2 DEF IInv, ApprovalInv, Released
<1>2. IInv => ApprovedBeforeExecuted
  BY <1>1 DEF ApprovedBeforeExecuted
<1> QED BY <1>2, Invariance, PTL

\* What the server records of an action happened at the agent
\* (acknowledge_action, record_action_result).
THEOREM ServerFollows == Spec => []ServerFollowsAgent
<1>1. IInv => ServerFollowsAgent
  BY DEF IInv
<1> QED BY <1>1, Invariance, PTL

\* The agent never replaces a result it has recorded (_finish,
\* reconcile_after_restart).
THEOREM LocalFinality == Spec => LocalResultIsFinal
<1>1. IInv /\ [Next]_vars =>
        [\A a \in Actions : local[a] \in LocalFinal => local'[a] = local[a]]_vars
  <2> SUFFICES ASSUME IInv, [Next]_vars, NEW a \in Actions, local[a] \in LocalFinal
               PROVE  local'[a] = local[a]
    OBVIOUS
  <2> QED BY StoreStep DEF LocalFinal
<1> QED BY <1>1, Invariance, PTL DEF Spec, LocalResultIsFinal

\* The server never replaces a result or a timeout it has recorded.
THEOREM ServerFinality == Spec => ServerResultIsFinal
<1>1. IInv /\ [Next]_vars =>
        [\A a \in Actions : status[a] \in ServerFinal => status'[a] = status[a]]_vars
  <2> SUFFICES ASSUME IInv, [Next]_vars, NEW a \in Actions, status[a] \in ServerFinal
               PROVE  status'[a] = status[a]
    OBVIOUS
  <2> QED BY StatusStep DEF ServerFinal
<1> QED BY <1>1, Invariance, PTL DEF Spec, ServerResultIsFinal
-----------------------------------------------------------------------------
(* The refinement.                                                          *)

\* The images of the values the mapping tells apart.
LEMMA ImageFacts ==
  /\ WorkOf["NONE"] = "none" /\ WorkOf["ACCEPTED"] = "taken"
  /\ WorkOf["EXECUTING"] = "begun" /\ WorkOf["SUCCEEDED"] = "succeeded"
  /\ WorkOf["FAILED"] = "failed" /\ WorkOf["INTERRUPTED"] = "interrupted"
  /\ WorkOf["UNKNOWN"] = "unknown"
  /\ RecordOf["NONE"] = "open" /\ RecordOf["PENDING_APPROVAL"] = "open"
  /\ RecordOf["DISPATCHED"] = "open" /\ RecordOf["TIMED_OUT"] = "expired"
  /\ RecordOf["ACCEPTED"] = "acknowledged" /\ RecordOf["EXECUTING"] = "acknowledged"
  /\ RecordOf["COMPLETED"] = "succeeded" /\ RecordOf["FAILED"] = "failed"
  BY DEF WorkOf, RecordOf

\* The images of the variables.
order  == [a \in Actions |-> OrderOf(status[a])]
work   == [a \in Actions |-> WorkOf[local[a]]]
record == [a \in Actions |-> RecordOf[status[a]]]

LEMMA ImageOfOne ==
  ASSUME NEW a \in Actions
  PROVE  /\ order[a] = OrderOf(status[a]) /\ work[a] = WorkOf[local[a]]
         /\ record[a] = RecordOf[status[a]]
  BY DEF order, work, record

\* A step that leaves status, store and effects alone is invisible.
LEMMA InvisibleStep ==
  ASSUME UNCHANGED <<status, local, effects>>
  PROVE  UNCHANGED Lifecycle!lifecycleVars
  BY DEF Lifecycle!lifecycleVars, OrderOf

\* The image of one action's status or store changing.
LEMMA WorkMoves ==
  ASSUME TypeOK, NEW a \in Actions, NEW x, local' = [local EXCEPT ![a] = x]
  PROVE  work' = [work EXCEPT ![a] = WorkOf[x]]
<1>1. \A c \in Actions : WorkOf[local'[c]] = IF c = a THEN WorkOf[x] ELSE WorkOf[local[c]]
  BY DEF TypeOK
<1> QED
  BY <1>1 DEF work

LEMMA StatusMoves ==
  ASSUME TypeOK, NEW a \in Actions, NEW x, status' = [status EXCEPT ![a] = x]
  PROVE  /\ order' = [order EXCEPT ![a] = OrderOf(x)]
         /\ record' = [record EXCEPT ![a] = RecordOf[x]]
<1>1. \A c \in Actions : status'[c] = IF c = a THEN x ELSE status[c]
  BY DEF TypeOK
<1>2. \A c \in Actions : OrderOf(status'[c]) = IF c = a THEN OrderOf(x) ELSE OrderOf(status[c])
  BY <1>1 DEF OrderOf
<1>3. \A c \in Actions : RecordOf[status'[c]] = IF c = a THEN RecordOf[x] ELSE RecordOf[status[c]]
  BY <1>1
<1>4. order' = [order EXCEPT ![a] = OrderOf(x)]
  BY <1>2 DEF order, OrderOf
<1>5. record' = [record EXCEPT ![a] = RecordOf[x]]
  BY <1>3 DEF record
<1> QED
  BY <1>4, <1>5

LEMMA LifecycleInit == Init => Lifecycle!Init
<1> SUFFICES ASSUME Init PROVE Lifecycle!Init
  OBVIOUS
<1>1. /\ [a \in Actions |-> OrderOf(status[a])] = [a \in Actions |-> "none"]
      /\ [a \in Actions |-> WorkOf[local[a]]] = [a \in Actions |-> "none"]
      /\ [a \in Actions |-> RecordOf[status[a]]] = [a \in Actions |-> "open"]
  BY ImageFacts DEF Init, OrderOf
<1> QED
  BY <1>1 DEF Init, Lifecycle!Init

\* The console's steps.
LEMMA ConsoleRefines ==
  ASSUME TypeOK, NEW a \in Actions, RequestAction(a) \/ ApproveAction(a)
  PROVE  Lifecycle!Ask(a) \/ Lifecycle!Approve(a)
<1> DEFINE x == status'[a]
<1>1. status' = [status EXCEPT ![a] = x] /\ local' = local /\ effects' = effects
  BY DEF RequestAction, ApproveAction, storeVars, TypeOK
<1>2. x = IF RequestAction(a) /\ a \in Privileged THEN "PENDING_APPROVAL" ELSE "DISPATCHED"
  BY DEF RequestAction, ApproveAction, TypeOK
<1>3. status[a] = IF RequestAction(a) THEN "NONE" ELSE "PENDING_APPROVAL"
  BY DEF RequestAction, ApproveAction
<1> HIDE DEF x
<1>4. order' = [order EXCEPT ![a] = OrderOf(x)]
  BY <1>1, StatusMoves
<1>5. work' = work
  BY <1>1 DEF work
<1>6. record' = record
  <2>1. record' = [record EXCEPT ![a] = RecordOf[x]]
    BY <1>1, StatusMoves
  <2>2. RecordOf[x] = record[a]
    BY <1>2, <1>3, ImageFacts DEF record
  <2> QED
    BY <2>1, <2>2 DEF record
<1>7. /\ RequestAction(a) => /\ order[a] = "none"
                            /\ OrderOf(x) = IF a \in Privileged THEN "waiting" ELSE "given"
      /\ ~RequestAction(a) => order[a] = "waiting" /\ OrderOf(x) = "given"
  BY <1>2, <1>3 DEF order, OrderOf
<1>8. CASE RequestAction(a)
  BY <1>1, <1>4, <1>5, <1>6, <1>7, <1>8 DEF Lifecycle!Ask, order, work, record
<1>9. CASE ~RequestAction(a)
  BY <1>1, <1>4, <1>5, <1>6, <1>7, <1>9 DEF Lifecycle!Approve, order, work, record
<1> QED
  BY <1>8, <1>9

\* A poll expires orders that were given.
LEMMA PollRefines ==
  ASSUME TypeOK, NEW r \in Runners, Poll(r)
  PROVE  Lifecycle!Expire
<1> DEFINE S == {a \in Actions : status[a] = "DISPATCHED" /\ Expires(a) <= now}
<1>1. /\ status' = [a \in Actions |-> IF a \in S THEN "TIMED_OUT" ELSE status[a]]
      /\ local' = local /\ effects' = effects
  BY DEF Poll, storeVars
<1>2. \A a \in S : a \in Actions /\ status[a] = "DISPATCHED"
  OBVIOUS
<1> HIDE DEF S
<1>3. \A a \in Actions : status'[a] = IF a \in S THEN "TIMED_OUT" ELSE status[a]
  BY <1>1
<1>4. S \in SUBSET {a \in Actions : order[a] = "given" /\ record[a] = "open"}
  BY <1>2, ImageFacts DEF order, record, OrderOf
<1>5. record' = [a \in Actions |-> IF a \in S THEN "expired" ELSE record[a]]
  BY <1>3, ImageFacts DEF record
<1>6. order' = order
  BY <1>2, <1>3 DEF order, OrderOf
<1>7. work' = work
  BY <1>1 DEF work
<1> QED
  BY <1>1, <1>4, <1>5, <1>6, <1>7 DEF Lifecycle!Expire, order, work, record

\* A step at the agent leaves what depends on the server's row alone.
LEMMA ServerStays ==
  ASSUME status' = status
  PROVE  order' = order /\ record' = record
  BY DEF order, record, OrderOf

LEMMA AcceptRefines ==
  ASSUME IInv, NEW r \in Runners, NEW o \in inbox[r], AcceptOrder(r, o)
  PROVE  \E a \in Actions : Lifecycle!Take(a)
<1> DEFINE a == o.action
<1>1. TypeOK /\ GivenInv /\ a \in Actions
  BY OrderedAction DEF IInv
<1>2. /\ local[a] = "NONE" /\ local' = [local EXCEPT ![a] = "ACCEPTED"]
      /\ status' = status /\ effects' = effects
  BY DEF AcceptOrder, NewOrder, serverVars
<1>3. order[a] = "given"
  BY <1>1 DEF GivenInv, order
<1> HIDE DEF a
<1>4. work[a] = "none" /\ work' = [work EXCEPT ![a] = "taken"]
  <2>1. work' = [work EXCEPT ![a] = WorkOf["ACCEPTED"]]
    BY <1>1, <1>2, WorkMoves
  <2>2. work[a] = WorkOf["NONE"]
    BY <1>1, <1>2, ImageOfOne
  <2> QED
    BY <2>1, <2>2, ImageFacts
<1>5. order' = order /\ record' = record
  BY <1>2, ServerStays
<1>6. Lifecycle!Take(a)
  BY <1>1, <1>2, <1>3, <1>4, <1>5 DEF Lifecycle!Take, Lifecycle!Moves, order, work, record
<1> QED
  BY <1>1, <1>6

LEMMA ClaimRefines ==
  ASSUME IInv, NEW r \in Runners, Claim(r)
  PROVE  (\E a \in Actions : Lifecycle!Begin(a)) \/ UNCHANGED Lifecycle!lifecycleVars
<1>0. PICK a \in Actions : a = current[r]
  BY HeldAction DEF IInv, Claim, Holding
<1>1. TypeOK /\ status' = status /\ effects' = effects
  BY DEF IInv, Claim, serverVars
<1>2. CASE local[a] = "ACCEPTED"
  <2>1. local' = [local EXCEPT ![a] = "EXECUTING"]
    BY <1>0, <1>2 DEF Claim
  <2>2. work[a] = "taken" /\ work' = [work EXCEPT ![a] = "begun"]
    <3>1. work' = [work EXCEPT ![a] = WorkOf["EXECUTING"]]
      BY <1>1, <2>1, WorkMoves
    <3>2. work[a] = WorkOf["ACCEPTED"]
      BY <1>2, ImageOfOne
    <3> QED
      BY <3>1, <3>2, ImageFacts
  <2>3. order' = order /\ record' = record
    BY <1>1, ServerStays
  <2>4. Lifecycle!Begin(a)
    BY <1>1, <2>2, <2>3 DEF Lifecycle!Begin, Lifecycle!Moves, order, work, record
  <2> QED
    BY <2>4
<1>3. CASE local[a] # "ACCEPTED"
  BY <1>0, <1>1, <1>3, InvisibleStep DEF Claim
<1> QED
  BY <1>2, <1>3

LEMMA RunRefines ==
  ASSUME IInv, NEW r \in Runners, NEW result \in {"SUCCEEDED", "FAILED"}, RunHandler(r, result)
  PROVE  \E a \in Actions : Lifecycle!Run(a)
<1>0. PICK a \in Actions : a = current[r]
  BY HeldAction DEF IInv, RunHandler, Holding
<1>1. TypeOK /\ status' = status /\ local' = local
  BY DEF IInv, RunHandler, serverVars, storeVars
<1>2. effects[a] = 0 /\ effects' = [effects EXCEPT ![a] = 1]
  <2>1. effects[a] = 0
    BY <1>0 DEF IInv, RunHandler, RunnerInv, Holding
  <2>2. effects' = [effects EXCEPT ![a] = effects[a] + 1]
    BY <1>0 DEF RunHandler
  <2> QED
    BY <2>1, <2>2
<1>3. local[a] \in {"EXECUTING", "UNKNOWN"}
  BY <1>0 DEF IInv, RunHandler, RunnerInv, Holding
<1>4. work[a] \in {"begun", "unknown"} /\ work' = work
  BY <1>1, <1>3, ImageFacts DEF work
<1>5. order' = order /\ record' = record
  BY <1>1, ServerStays
<1>6. Lifecycle!Run(a)
  BY <1>1, <1>2, <1>4, <1>5 DEF Lifecycle!Run, order, work, record
<1> QED
  BY <1>6

LEMMA FinishRefines ==
  ASSUME IInv, NEW r \in Runners, Finish(r)
  PROVE  \/ \E a \in Actions : \E result \in Lifecycle!Results : Lifecycle!Settle(a, result)
         \/ UNCHANGED Lifecycle!lifecycleVars
<1>0. PICK a \in Actions : a = current[r]
  BY HeldAction DEF IInv, Finish, Holding
<1>1. TypeOK /\ status' = status /\ effects' = effects
  BY DEF IInv, Finish, serverVars
<1>2. CASE local[a] = "EXECUTING"
  <2>1. PICK x \in {"SUCCEEDED", "FAILED"} : local' = [local EXCEPT ![a] = x]
    BY <1>0, <1>1, <1>2 DEF Finish, TypeOK
  <2>2. effects[a] = 1
    BY <1>0 DEF IInv, Finish, RunnerInv, Holding
  <2>3. work[a] = "begun" /\ work' = [work EXCEPT ![a] = WorkOf[x]]
    <3>1. work' = [work EXCEPT ![a] = WorkOf[x]]
      BY <1>1, <2>1, WorkMoves
    <3>2. work[a] = WorkOf["EXECUTING"]
      BY <1>2, ImageOfOne
    <3> QED
      BY <3>1, <3>2, ImageFacts
  <2>4. WorkOf[x] \in Lifecycle!Results
    BY <2>1, ImageFacts DEF Lifecycle!Results
  <2>5. order' = order /\ record' = record
    BY <1>1, ServerStays
  <2>6. Lifecycle!Settle(a, WorkOf[x])
    BY <1>1, <2>2, <2>3, <2>5 DEF Lifecycle!Settle, Lifecycle!Moves, order, work, record
  <2> QED
    BY <2>4, <2>6
<1>3. CASE local[a] # "EXECUTING"
  BY <1>0, <1>1, <1>3, InvisibleStep DEF Finish
<1> QED
  BY <1>2, <1>3

LEMMA RestartRefines ==
  ASSUME TypeOK, NEW r \in Runners, Restart(r)
  PROVE  Lifecycle!GiveUp
<1> DEFINE S == {a \in Actions : local[a] = "ACCEPTED" /\ nonceUntil[a] <= now + drift}
<1>1. /\ \A a \in Actions : local'[a] = IF local[a] = "EXECUTING" THEN "UNKNOWN"
                                        ELSE IF a \in S THEN "INTERRUPTED" ELSE local[a]
      /\ status' = status /\ effects' = effects
  BY DEF Restart, serverVars
<1>2. \A a \in S : a \in Actions /\ local[a] = "ACCEPTED"
  OBVIOUS
<1> HIDE DEF S
<1>3. S \in SUBSET {a \in Actions : work[a] = "taken"}
  BY <1>2, ImageFacts DEF work
<1>4. \A a \in Actions : work[a] = "begun" <=> local[a] = "EXECUTING"
  BY ImageFacts DEF work, TypeOK, LocalStatus
<1>5. work' = [a \in Actions |-> IF work[a] = "begun" THEN "unknown"
                                 ELSE IF a \in S THEN "interrupted" ELSE work[a]]
  BY <1>1, <1>4, ImageFacts DEF work
<1>6. order' = order /\ record' = record
  BY <1>1, ServerStays
<1> QED
  BY <1>1, <1>3, <1>5, <1>6 DEF Lifecycle!GiveUp, order, work, record

\* Whatever the server receives.
LEMMA DeliverRefines ==
  ASSUME IInv, NEW m \in requests, Deliver(m)
  PROVE  \/ \E a \in Actions : Lifecycle!Acknowledge(a) \/ Lifecycle!RecordResult(a)
         \/ UNCHANGED Lifecycle!lifecycleVars
<1> DEFINE a == m.action
<1>1. /\ TypeOK /\ a \in Actions /\ local' = local /\ effects' = effects
      /\ local[a] # "NONE" /\ local[a] \in LocalStatus
  BY DEF IInv, TypeOK, Request, RequestInv, Deliver, HandleAck, HandleReport, Lose, storeVars
<1>2. work' = work /\ work[a] # "none"
  BY <1>1, ImageFacts DEF work, LocalStatus
<1>3. CASE status' = status
  BY <1>1, <1>3, InvisibleStep
<1>4. CASE HandleAck(m) /\ status' # status
  <2>1. status[a] = "DISPATCHED" /\ status' = [status EXCEPT ![a] = "ACCEPTED"]
    BY <1>4 DEF HandleAck, Acknowledgeable
  <2> HIDE DEF a
  <2>2. /\ record[a] = "open" /\ record' = [record EXCEPT ![a] = "acknowledged"]
        /\ order' = [order EXCEPT ![a] = OrderOf("ACCEPTED")]
    <3>1. /\ order' = [order EXCEPT ![a] = OrderOf("ACCEPTED")]
          /\ record' = [record EXCEPT ![a] = RecordOf["ACCEPTED"]]
      BY <1>1, <2>1, StatusMoves
    <3>2. record[a] = RecordOf["DISPATCHED"]
      BY <1>1, <2>1, ImageOfOne
    <3> QED
      BY <3>1, <3>2, ImageFacts
  <2>3. order' = order
    <3>1. OrderOf("ACCEPTED") = order[a]
      BY <1>1, <2>1 DEF order, OrderOf
    <3> QED
      BY <2>2, <3>1 DEF order
  <2>4. Lifecycle!Acknowledge(a)
    BY <1>1, <1>2, <2>2, <2>3 DEF Lifecycle!Acknowledge, order, work, record
  <2> QED
    BY <1>1, <2>4
<1>5. CASE HandleReport(m) /\ status' # status
  <2> DEFINE x == ResultStatus[m.result]
  <2>1. m.result \in {"SUCCEEDED", "FAILED"} /\ m.result = local[a]
    BY <1>5 DEF HandleReport, IInv, RequestInv
  <2>2. /\ x = IF local[a] = "SUCCEEDED" THEN "COMPLETED" ELSE "FAILED"
        /\ RecordOf[x] = WorkOf[local[a]] /\ OrderOf(x) = "given"
    BY <2>1, ImageFacts DEF ResultStatus, OrderOf
  <2>3. status[a] \in {"ACCEPTED", "EXECUTING"} /\ status' = [status EXCEPT ![a] = x]
    BY <1>5, <2>2 DEF HandleReport, Sources
  <2> HIDE DEF a, x
  <2>4. /\ record[a] = "acknowledged" /\ record' = [record EXCEPT ![a] = work[a]]
        /\ order' = [order EXCEPT ![a] = "given"]
    <3>1. order' = [order EXCEPT ![a] = OrderOf(x)] /\ record' = [record EXCEPT ![a] = RecordOf[x]]
      BY <1>1, <2>3, StatusMoves
    <3>2. record[a] = RecordOf[status[a]] /\ work[a] = WorkOf[local[a]]
      BY <1>1, ImageOfOne
    <3>3. RecordOf[status[a]] = "acknowledged"
      BY <2>3, ImageFacts
    <3> QED
      BY <2>2, <3>1, <3>2, <3>3
  <2>5. order' = order
    <3>1. order[a] = "given"
      BY <1>1, <2>3 DEF order, OrderOf
    <3> QED
      BY <2>4, <3>1 DEF order
  <2>6. work[a] \in Lifecycle!Results
    BY <1>1, <2>1, ImageFacts DEF Lifecycle!Results, work, a
  <2>7. Lifecycle!RecordResult(a)
    BY <1>1, <1>2, <2>4, <2>5, <2>6 DEF Lifecycle!RecordResult, order, work, record
  <2> QED
    BY <1>1, <2>7
<1> QED
  BY <1>3, <1>4, <1>5 DEF Deliver, Lose, serverVars

\* Every other step is invisible.
LEMMA QuietStep ==
  ASSUME \/ Tick \/ UNCHANGED vars \/ \E t \in Tokens : RotateToken(t) \/ RevokeToken(t)
         \/ \E r \in Runners : \/ ReceivePoll(r) \/ LosePoll(r) \/ EndCycle(r) \/ SendAck(r)
                               \/ Report(r) \/ AbandonOrder(r)
                               \/ \E o \in inbox[r] : SkipOrder(r, o)
  PROVE  UNCHANGED Lifecycle!lifecycleVars
<1>1. UNCHANGED <<status, local, effects>>
  BY DEF Tick, vars, RotateToken, RevokeToken, ReceivePoll, LosePoll, EndCycle, SendAck,
     Report, AbandonOrder, SkipOrder, serverVars, storeVars
<1> QED
  BY <1>1, InvisibleStep

LEMMA StepRefines ==
  IInv /\ [Next]_vars => [Lifecycle!Next]_(Lifecycle!lifecycleVars)
<1> SUFFICES ASSUME IInv, [Next]_vars
             PROVE  [Lifecycle!Next]_(Lifecycle!lifecycleVars)
  OBVIOUS
<1> DEFINE Image == Lifecycle!Next \/ UNCHANGED Lifecycle!lifecycleVars
<1>0. TypeOK
  BY DEF IInv
<1>1. ASSUME NEW a \in Actions, RequestAction(a) \/ ApproveAction(a) PROVE Image
  BY <1>0, <1>1, ConsoleRefines DEF Lifecycle!Next
<1>2. ASSUME NEW m \in requests, Deliver(m) PROVE Image
  BY <1>2, DeliverRefines DEF Lifecycle!Next
<1>3. ASSUME NEW r \in Runners, Loop(r) \/ AbandonOrder(r) \/ Restart(r) PROVE Image
  <2>1. CASE Poll(r) \/ Restart(r)
    BY <1>0, <2>1, PollRefines, RestartRefines DEF Lifecycle!Next
  <2>2. ASSUME NEW o \in inbox[r], AcceptOrder(r, o) PROVE Image
    BY <2>2, AcceptRefines DEF Lifecycle!Next
  <2>3. CASE Claim(r)
    BY <2>3, ClaimRefines DEF Lifecycle!Next
  <2>4. ASSUME NEW result \in {"SUCCEEDED", "FAILED"}, RunHandler(r, result) PROVE Image
    BY <2>4, RunRefines DEF Lifecycle!Next
  <2>5. CASE Finish(r)
    BY <2>5, FinishRefines DEF Lifecycle!Next
  <2> HIDE DEF Image
  <2>6. UNCHANGED Lifecycle!lifecycleVars => Image
    BY DEF Image
  <2> QED
    BY <1>3, <2>1, <2>2, <2>3, <2>4, <2>5, <2>6, QuietStep DEF Loop
<1>4. ASSUME Tick \/ UNCHANGED vars \/ \E t \in Tokens : RotateToken(t) \/ RevokeToken(t)
      PROVE  Image
  BY <1>4, QuietStep
<1> HIDE DEF Image
<1>5. Image
  BY <1>1, <1>2, <1>3, <1>4 DEF Next, Console
<1> QED
  BY <1>5 DEF Image

\* Polls, tokens, lost and late requests, racing runners and restarts notwithstanding, an
\* action goes through its life as ActionLifecycle says (SQLiteActionStore, poll_actions,
\* acknowledge_action, record_action_result).
THEOREM Refinement == Spec => ImplementsLifecycle
<1>1. Init => Lifecycle!Init
  BY LifecycleInit
<1>2. IInv /\ [Next]_vars => [Lifecycle!Next]_(Lifecycle!lifecycleVars)
  BY StepRefines
<1> QED
  BY <1>1, <1>2, Invariance, PTL DEF Spec, ImplementsLifecycle, Lifecycle!Spec
=============================================================================
