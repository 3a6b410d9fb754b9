--------------------------- MODULE ActionLifecycle ---------------------------
(***************************************************************************)
(* What a remote action promises, without polls, nonces, tokens, runners or *)
(* requests.  The order of an action is given once it needs no approval or  *)
(* has it; then the agent takes it, begins it, runs its handler once and    *)
(* settles it, or gives it up on the way.  What the server records is how   *)
(* far the agent got, or that the order expired, and it is final.           *)
(***************************************************************************)
EXTENDS Naturals

CONSTANTS Actions, Privileged

VARIABLES
  order,   \* of the console: "none", "waiting" for an approval or "given"
  work,    \* of the agent
  runs,    \* of the handler
  record   \* of the server

lifecycleVars == <<order, work, runs, record>>

Results == {"succeeded", "failed"}
Work    == {"none", "taken", "begun", "interrupted", "unknown"} \cup Results
Record  == {"open", "acknowledged", "expired"} \cup Results

LifecycleTypeOK ==
  /\ order  \in [Actions -> {"none", "waiting", "given"}]
  /\ work   \in [Actions -> Work]
  /\ runs   \in [Actions -> 0..1]
  /\ record \in [Actions -> Record]

Init ==
  /\ order  = [a \in Actions |-> "none"]
  /\ work   = [a \in Actions |-> "none"]
  /\ runs   = [a \in Actions |-> 0]
  /\ record = [a \in Actions |-> "open"]

Ask(a) ==
  /\ order[a] = "none"
  /\ order' = [order EXCEPT ![a] = IF a \in Privileged THEN "waiting" ELSE "given"]
  /\ UNCHANGED <<work, runs, record>>

Approve(a) ==
  /\ order[a] = "waiting"
  /\ order' = [order EXCEPT ![a] = "given"]
  /\ UNCHANGED <<work, runs, record>>

Moves(a, from, to) == work[a] = from /\ work' = [work EXCEPT ![a] = to]

Take(a) ==
  /\ order[a] = "given"
  /\ Moves(a, "none", "taken")
  /\ UNCHANGED <<order, runs, record>>

Begin(a) == Moves(a, "taken", "begun") /\ UNCHANGED <<order, runs, record>>

\* The handler may run, once, also when its action has just been given up.
Run(a) ==
  /\ work[a] \in {"begun", "unknown"} /\ runs[a] = 0
  /\ runs' = [runs EXCEPT ![a] = 1]
  /\ UNCHANGED <<order, work, record>>

Settle(a, result) ==
  /\ runs[a] = 1
  /\ Moves(a, "begun", result)
  /\ UNCHANGED <<order, runs, record>>

\* All that was begun and some of what was taken is given up at once.
GiveUp ==
  /\ \E S \in SUBSET {a \in Actions : work[a] = "taken"} :
       work' = [a \in Actions |-> IF work[a] = "begun" THEN "unknown"
                                  ELSE IF a \in S THEN "interrupted" ELSE work[a]]
  /\ UNCHANGED <<order, runs, record>>

Acknowledge(a) ==
  /\ record[a] = "open" /\ work[a] # "none"
  /\ record' = [record EXCEPT ![a] = "acknowledged"]
  /\ UNCHANGED <<order, work, runs>>

RecordResult(a) ==
  /\ record[a] = "acknowledged" /\ work[a] \in Results
  /\ record' = [record EXCEPT ![a] = work[a]]
  /\ UNCHANGED <<order, work, runs>>

\* Orders that were given and not acknowledged expire.
Expire ==
  /\ \E S \in SUBSET {a \in Actions : order[a] = "given" /\ record[a] = "open"} :
       record' = [a \in Actions |-> IF a \in S THEN "expired" ELSE record[a]]
  /\ UNCHANGED <<order, work, runs>>

Next ==
  \/ \E a \in Actions :
       \/ Ask(a) \/ Approve(a) \/ Take(a) \/ Begin(a) \/ Run(a)
       \/ \E result \in Results : Settle(a, result)
       \/ Acknowledge(a) \/ RecordResult(a)
  \/ GiveUp \/ Expire

Spec == Init /\ [][Next]_lifecycleVars
=============================================================================
