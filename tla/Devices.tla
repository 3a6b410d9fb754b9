------------------------------ MODULE Devices ------------------------------
(***************************************************************************)
(* Devices of a tenant, the tokens their agents present and the inventory  *)
(* they report.                                                            *)
(*                                                                         *)
(* Every request is a call whose transaction takes PostgreSQL row locks    *)
(* one at a time: two shared locks of a row agree, anything else waits     *)
(* until the holder's transaction ends.  What a call holds and what it     *)
(* waits for are read off its stage.  A transaction writes nothing before  *)
(* its commit, and its statements see what was committed when they began.  *)
(***************************************************************************)
EXTENDS Naturals, FiniteSets, FiniteSetsExt

CONSTANTS
  Devices,    \* host names of the tenant; one row each, never reused
  Calls,      \* requests served in the life of the instance
  MaxTokens,  \* bound on the tokens issued
  MaxTime,    \* bound on the clock
  Overlap,    \* a replaced token lives this much longer (300 seconds)
  Ahead,      \* tolerated advance of an agent's clock (5 minutes)
  MaxAge,     \* oldest inventory accepted (90 days)
  None

ASSUME BoundsAssumption == {MaxTokens, MaxTime, Overlap, Ahead, MaxAge} \subseteq Nat
ASSUME NoneAssumption == None \notin Devices \cup Nat

VARIABLES
  now,        \* clock of the service
  device,     \* devices
  token,      \* device_tokens
  inventory,  \* device_inventory: when the stored snapshot was collected
  call        \* where each request is

rowVars == <<device, token, inventory>>
vars == <<now, rowVars, call>>

Tokens == 1..MaxTokens
Never  == MaxTime + Overlap + 1   \* a token without expires_at
Times  == 0..Never

AgentGoals == {"inventory", "metrics"}
Waiting == [at |-> "waiting", goal |-> "none", device |-> None, token |-> None,
            since |-> 0, value |-> 0, todo |-> {}, rows |-> {}]
Ended   == [Waiting EXCEPT !.at = "ended"]

Stages == {"waiting", "presented", "found", "activated", "admitted", "checked", "stored",
           "update", "rotate", "rotating", "cutting", "delete", "deleting", "revoking",
           "revoke", "ended"}
CallType == [at : Stages, goal : AgentGoals \cup {"none", "admin"},
             device : Devices \cup {None}, token : Tokens \cup {None},
             since : 0..MaxTime, value : 0..(Never + Ahead),
             todo : SUBSET Tokens, rows : SUBSET Tokens]

TablesOK ==
  /\ device \in [Devices -> [state : {"none", "active", "deleted"}, seen : 0..MaxTime]]
  /\ token \in [Tokens -> [state : {"none", "live", "revoked"},
                           device : Devices \cup {None}, expires : Times, used : 0..MaxTime]]
  /\ inventory \in [Devices -> (0..(MaxTime + Ahead)) \cup {None}]

OwnTokens(r) == \A t \in r.todo \cup r.rows : token[t].device = r.device

\* Every variable keeps its type: in particular the rows a call still has to
\* change and those it has locked are tokens of its device (postgres.py, rotate_token).
TypeOK ==
  /\ now \in 0..MaxTime
  /\ TablesOK
  /\ call \in [Calls -> CallType]
  /\ \A c \in Calls : OwnTokens(call[c])

At(c, stage) == call[c].at = stage
To(c, stage) == call' = [call EXCEPT ![c].at = stage]
End(c)       == call' = [call EXCEPT ![c] = Ended]
-----------------------------------------------------------------------------
(* Row locks: <<table, row, mode>>.                                         *)

\* Mutant of Holds: rotation reads the device without FOR SHARE.
HoldsOnlyTokens(c) ==
  CASE call[c].at \in {"activated", "checked"} -> {<<"token", call[c].token, "share">>}
    [] At(c, "stored") -> {<<"token", call[c].token, "share">>,
                           <<"inventory", call[c].device, "update">>}
    [] At(c, "cutting") -> {<<"token", t, "update">> : t \in call[c].rows}
    [] call[c].at \in {"deleting", "revoking"} ->
         {<<"device", call[c].device, "update">>}
           \cup {<<"token", t, "update">> : t \in call[c].rows}
    [] OTHER -> {}

Holds(c) ==
  CASE call[c].at \in {"activated", "checked"} -> {<<"token", call[c].token, "share">>}
    [] At(c, "stored") -> {<<"token", call[c].token, "share">>,
                           <<"inventory", call[c].device, "update">>}
    [] call[c].at \in {"rotating", "cutting"} ->
         {<<"device", call[c].device, "share">>}
           \cup {<<"token", t, "update">> : t \in call[c].rows}
    [] call[c].at \in {"deleting", "revoking"} ->
         {<<"device", call[c].device, "update">>}
           \cup {<<"token", t, "update">> : t \in call[c].rows}
    [] OTHER -> {}

\* An UPDATE of several tokens waits for the one it has come to.
Wants(c) ==
  CASE At(c, "found") \/ (At(c, "admitted") /\ call[c].goal = "inventory") ->
         {<<"token", call[c].token, "share">>}
    [] call[c].at \in {"activated", "revoke"} -> {<<"token", call[c].token, "update">>}
    [] At(c, "checked") -> {<<"inventory", call[c].device, "update">>}
    [] At(c, "rotate") -> {<<"device", call[c].device, "share">>}
    [] call[c].at \in {"stored", "update", "delete"}
         \/ (At(c, "admitted") /\ call[c].goal = "metrics") ->
         {<<"device", call[c].device, "update">>}
    [] call[c].at \in {"cutting", "revoking"} /\ call[c].todo # {} ->
         {<<"token", call[c].token, "update">>}
    [] OTHER -> {}

Conflict(k, l) == k[1] = l[1] /\ k[2] = l[2] /\ ~(k[3] = "share" /\ l[3] = "share")
Blockers(c) ==
  {d \in Calls \ {c} : \E wanted \in Wants(c), held \in Holds(d) : Conflict(wanted, held)}
Granted(c) == Blockers(c) = {}

\* Calls that wait for one another in a ring.
Stuck(S) == S # {} /\ \A c \in S : Blockers(c) \cap S # {}
Ring(S)  == Stuck(S) /\ \A R \in SUBSET S : Stuck(R) => R = S

\* PostgreSQL ends one transaction of a ring; the request is answered 500 or 503.
BreakDeadlock(c) ==
  /\ Blockers(c) # {}
  /\ \E S \in SUBSET Calls : c \in S /\ Ring(S)
  /\ End(c)
  /\ UNCHANGED <<now, rowVars>>

\* The request is cancelled or its connection fails: nothing was written.
Fail(c) ==
  /\ call[c].at \notin {"waiting", "ended"}
  /\ End(c)
  /\ UNCHANGED <<now, rowVars>>
-----------------------------------------------------------------------------
Active(d) == device[d].state = "active"
LiveOf(d) == {t \in Tokens : token[t].state = "live" /\ token[t].device = d}
Unissued  == {t \in Tokens : token[t].state = "none"}
NewToken(d, e) == [state |-> "live", device |-> d, expires |-> e, used |-> 0]

\* expires_at in the future, or none.
Expiries == (now + 1)..MaxTime \cup {Never}

Revoked(T) == [t \in Tokens |-> IF t \in T THEN [token[t] EXCEPT !.state = "revoked"] ELSE token[t]]
-----------------------------------------------------------------------------
(* Requests of the console; each has passed its permission check.           *)

\* The host name is unique for ever: that of a deleted device is refused too.
Enroll(c, d, e) ==
  /\ At(c, "waiting")
  /\ IF device[d].state = "none"
     THEN /\ Unissued # {}
          /\ device' = [device EXCEPT ![d].state = "active"]
          /\ token' = [token EXCEPT ![Min(Unissued)] = NewToken(d, e)]
     ELSE UNCHANGED <<device, token>>
  /\ End(c)
  /\ UNCHANGED <<now, inventory>>

\* A request on device d that will have to wait for a row.
Request(c, stage, d, t, e) ==
  /\ At(c, "waiting")
  /\ call' = [call EXCEPT ![c] = [Waiting EXCEPT !.at = stage, !.goal = "admin", !.device = d,
                                                 !.token = t, !.since = now, !.value = e]]
  /\ UNCHANGED <<now, rowVars>>

RequestUpdate(c, d)    == Request(c, "update", d, None, 0)
RequestDelete(c, d)    == Request(c, "delete", d, None, 0)
RequestRevoke(c, d, t) == Request(c, "revoke", d, t, 0)
RequestRotate(c, d, e) == Request(c, "rotate", d, None, e)

\* Disconnecting rotates the token and keeps the new one to itself.
RequestDisconnect(c, d) == RequestRotate(c, d, Never)

\* The name and the details it changes are left out.
UpdateDevice(c) ==
  /\ At(c, "update") /\ Granted(c)
  /\ End(c)
  /\ UNCHANGED <<now, rowVars>>

\* Mutant of RevokeToken: the row is written without its lock.
RevokeAtOnce(c) ==
  /\ At(c, "revoke")
  /\ token' = Revoked({call[c].token} \cap LiveOf(call[c].device))
  /\ End(c)
  /\ UNCHANGED <<now, device, inventory>>

RevokeToken(c) ==
  /\ At(c, "revoke") /\ Granted(c)
  /\ token' = Revoked({call[c].token} \cap LiveOf(call[c].device))
  /\ End(c)
  /\ UNCHANGED <<now, device, inventory>>

\* rotate_token takes the device FOR SHARE ...
LockForRotate(c) ==
  /\ At(c, "rotate") /\ Granted(c)
  /\ IF Active(call[c].device) THEN To(c, "rotating") ELSE End(c)
  /\ UNCHANGED <<now, rowVars>>

Deadline(c) == call[c].since + Overlap

\* Mutant of Outlives: every live token is set to the deadline.
OutlivesAlways(t, c) == token[t].state = "live"

Outlives(t, c) == token[t].state = "live" /\ token[t].expires > Deadline(c)

\* An UPDATE without ORDER BY comes to its rows in any order: here the next of T.
NextOf(T) == IF T = {} THEN {None} ELSE T

\* A statement that is to change the tokens of T.
Scan(c, stage, T) ==
  /\ \E t \in NextOf(T) :
       call' = [call EXCEPT ![c].at = stage, ![c].todo = T, ![c].token = t]
  /\ UNCHANGED <<now, rowVars>>

\* It has come to its token, has locked it and checked it again.
LockNext(c, holds) ==
  /\ LET rest == call[c].todo \ {call[c].token} IN
     \E t \in NextOf(rest) :
       call' = [call EXCEPT ![c].todo = rest, ![c].token = t,
                            ![c].rows = IF holds THEN @ \cup {call[c].token} ELSE @]
  /\ UNCHANGED <<now, rowVars>>

\* Mutant of SelectOlder: the tokens of every device.
SelectOlderOfAll(c) ==
  /\ At(c, "rotating")
  /\ Scan(c, "cutting", {t \in Tokens : Outlives(t, c)})

\* ... then cuts the tokens its statement sees, checking each again once locked ...
SelectOlder(c) ==
  /\ At(c, "rotating")
  /\ Scan(c, "cutting", {t \in LiveOf(call[c].device) : Outlives(t, c)})

CutToken(c) ==
  /\ At(c, "cutting") /\ call[c].todo # {} /\ Granted(c)
  /\ LockNext(c, Outlives(call[c].token, c))

\* ... and inserts the new one.
FinishRotate(c) ==
  /\ At(c, "cutting") /\ call[c].todo = {} /\ Unissued # {}
  /\ token' = [t \in Tokens |->
                 IF t \in call[c].rows THEN [token[t] EXCEPT !.expires = Deadline(c)]
                 ELSE IF t = Min(Unissued) THEN NewToken(call[c].device, call[c].value)
                 ELSE token[t]]
  /\ End(c)
  /\ UNCHANGED <<now, device, inventory>>

MarkDeleted(c) ==
  /\ At(c, "delete") /\ Granted(c)
  /\ IF Active(call[c].device) THEN To(c, "deleting") ELSE End(c)
  /\ UNCHANGED <<now, rowVars>>

SelectLive(c) ==
  /\ At(c, "deleting")
  /\ Scan(c, "revoking", LiveOf(call[c].device))

LockRevoked(c) ==
  /\ At(c, "revoking") /\ call[c].todo # {} /\ Granted(c)
  /\ LockNext(c, token[call[c].token].state = "live")

FinishDelete(c) ==
  /\ At(c, "revoking") /\ call[c].todo = {}
  /\ device' = [device EXCEPT ![call[c].device].state = "deleted"]
  /\ token' = Revoked(call[c].rows)
  /\ End(c)
  /\ UNCHANGED <<now, inventory>>

-----------------------------------------------------------------------------
(* Requests of an agent.                                                    *)

\* More requests with this token than the limiter admits: answered 429.
TurnAway(c) ==
  /\ At(c, "waiting")
  /\ End(c)
  /\ UNCHANGED <<now, rowVars>>

\* An inventory names its device in the path and was collected at v.
PresentToken(c, goal, t, d, v) ==
  /\ At(c, "waiting")
  /\ call' = [call EXCEPT ![c] = [Waiting EXCEPT !.at = "presented", !.goal = goal, !.device = d,
                                                 !.token = t, !.since = now, !.value = v]]
  /\ UNCHANGED <<now, rowVars>>

Usable(t, time) == token[t].state = "live" /\ token[t].expires > time

FindToken(c) ==
  /\ At(c, "presented")
  /\ IF Usable(call[c].token, call[c].since) THEN To(c, "found") ELSE End(c)
  /\ UNCHANGED <<now, rowVars>>

\* activate_identity checks again, FOR SHARE OF token ...
ActivateIdentity(c) ==
  /\ At(c, "found") /\ Granted(c)
  /\ IF Usable(call[c].token, call[c].since) /\ Active(token[call[c].token].device)
     THEN To(c, "activated") ELSE End(c)
  /\ UNCHANGED <<now, rowVars>>

\* write_inventory's window for collected_at.
Acceptable(v) == v <= now + Ahead /\ v + MaxAge >= now

\* ... and updates the row it shares; the handler starts when that is committed.
RecordUse(c) ==
  /\ At(c, "activated") /\ Granted(c)
  /\ LET own == token[call[c].token].device IN
     /\ token' = [token EXCEPT ![call[c].token].used = call[c].since]
     /\ call' = [call EXCEPT ![c] =
          IF @.goal = "inventory" /\ (@.device # own \/ ~Acceptable(@.value)) THEN Ended
          ELSE [@ EXCEPT !.at = "admitted", !.device = own, !.since = now]]
  /\ UNCHANGED <<now, device, inventory>>

\* The batch is stored and the device seen; the batch itself is in MetricBatches.
IngestBatch(c) ==
  /\ At(c, "admitted") /\ call[c].goal = "metrics" /\ Granted(c)
  /\ device' = IF Active(call[c].device) THEN [device EXCEPT ![call[c].device].seen = now]
               ELSE device
  /\ End(c)
  /\ UNCHANGED <<now, token, inventory>>

CheckWriter(c) ==
  /\ At(c, "admitted") /\ call[c].goal = "inventory" /\ Granted(c)
  /\ IF Usable(call[c].token, call[c].since) /\ Active(call[c].device)
     THEN To(c, "checked") ELSE End(c)
  /\ UNCHANGED <<now, rowVars>>

Newer(v, d) == inventory[d] = None \/ v >= inventory[d]

StoreInventory(c) ==
  /\ At(c, "checked") /\ Granted(c)
  /\ IF Newer(call[c].value, call[c].device) THEN To(c, "stored") ELSE End(c)
  /\ UNCHANGED <<now, rowVars>>

FinishInventory(c) ==
  /\ At(c, "stored") /\ Granted(c)
  /\ LET d == call[c].device IN
     /\ inventory' = [inventory EXCEPT ![d] = call[c].value]
     /\ device' = IF Active(d) THEN [device EXCEPT ![d].seen = call[c].since] ELSE device
  /\ End(c)
  /\ UNCHANGED <<now, token>>
-----------------------------------------------------------------------------
\* One device is enrolled; its first token may end, and overlapping rotations
\* may have left it a second one.
Init ==
  /\ now = 0
  /\ \E d \in Devices, e \in {MaxTime, Never}, second \in BOOLEAN :
       /\ device = [x \in Devices |-> [state |-> IF x = d THEN "active" ELSE "none",
                                       seen |-> 0]]
       /\ token = [t \in Tokens |-> IF t = 1 \/ (t = 2 /\ second) THEN NewToken(d, e)
                                    ELSE [state |-> "none", device |-> None,
                                          expires |-> 0, used |-> 0]]
  /\ inventory = [d \in Devices |-> None]
  /\ call = [c \in Calls |-> Waiting]

Tick ==
  /\ now < MaxTime
  /\ now' = now + 1
  /\ UNCHANGED <<rowVars, call>>

ConsoleStep(c) ==
  \/ \E d \in Devices : \/ \E e \in Expiries : Enroll(c, d, e) \/ RequestRotate(c, d, e)
                        \/ RequestUpdate(c, d) \/ RequestDelete(c, d) \/ RequestDisconnect(c, d)
                        \/ \E t \in Tokens \ Unissued : RequestRevoke(c, d, t)
  \/ UpdateDevice(c) \/ RevokeToken(c)
  \/ LockForRotate(c) \/ SelectOlder(c) \/ CutToken(c) \/ FinishRotate(c)
  \/ MarkDeleted(c) \/ SelectLive(c) \/ LockRevoked(c) \/ FinishDelete(c)

AgentStep(c) ==
  \/ TurnAway(c)
  \/ \E t \in Tokens \ Unissued :
       \/ PresentToken(c, "metrics", t, None, 0)
       \/ \E d \in Devices, v \in 0..(MaxTime + Ahead) : PresentToken(c, "inventory", t, d, v)
  \/ FindToken(c) \/ ActivateIdentity(c) \/ RecordUse(c)
  \/ IngestBatch(c) \/ CheckWriter(c) \/ StoreInventory(c) \/ FinishInventory(c)

Next ==
  \/ \E c \in Calls : ConsoleStep(c) \/ AgentStep(c) \/ BreakDeadlock(c) \/ Fail(c)
  \/ Tick

Spec == Init /\ [][Next]_vars
-----------------------------------------------------------------------------
(* Properties.                                                              *)

\* A deleted device has no token that is not revoked, whatever rotation was
\* under way: rotate_token and delete_device meet at the device's row.
DeletedHasNoToken == \A d \in Devices : device[d].state = "deleted" => LiveOf(d) = {}

Entitled(r) ==
  r.at \in {"checked", "stored"} =>
    /\ token[r.token].state = "live"
    /\ Active(r.device)
    /\ r.at = "stored" => Newer(r.value, r.device)

\* While write_inventory is between its check and its commit, its token stays
\* unrevoked, its device active and the stored snapshot no newer: nothing read
\* by the check is stale when it is used (postgres.py, write_inventory).
WriterIsEntitled == \A c \in Calls : Entitled(call[c])

\* The device whose rows a request holds or waits for.
Concerns(r) ==
  IF r.at \in {"activated", "checked", "stored"} THEN token[r.token].device ELSE r.device

\* Every deadlock is among requests for one device, and one without an agent's
\* request is among rotations: a deletion, a revocation or a change of details
\* never deadlocks with another request of the console, whatever the order in
\* which the UPDATEs of the tokens come to their rows (postgres.py, rotate_token,
\* delete_device; a request of an agent takes its token and then its device).
RingsAreOfOneDevice ==
  \A S \in SUBSET Calls : Ring(S) =>
    /\ \A c, d \in S : Concerns(call[c]) = Concerns(call[d])
    /\ (\A c \in S : At(c, "cutting")) \/ (\E c \in S : call[c].goal \in AgentGoals)

\* A token is never given a later end nor brought back (delete_device,
\* rotate_token and revoke_token, in any interleaving).
CredentialsOnlyShrink ==
  [][\A t \in Tokens : token[t].state # "none" =>
       /\ token'[t].expires <= token[t].expires
       /\ token[t].state = "revoked" => token'[t].state = "revoked"]_vars
-----------------------------------------------------------------------------
(* The inductive invariant behind the properties above.                     *)

AgentStages   == {"presented", "found", "activated", "admitted", "checked", "stored"}
SharingToken  == {"activated", "checked", "stored"}
Changing      == {"deleting", "revoking"}
LockingTokens == {"cutting", "revoking"}
HoldingDevice == {"rotating"} \cup Changing \cup LockingTokens
OfDevice      == HoldingDevice \cup {"update", "rotate", "delete", "revoke"}
Issued(t)     == t \in Tokens /\ token[t].state # "none"

IssuedHasDevice == \A t \in Tokens : Issued(t) => token[t].device \in Devices

\* What a call remembers agrees with its stage.
Remembers(r) ==
  /\ r.at \in AgentStages => r.goal \in AgentGoals
  /\ r.at \in AgentStages \cup {"revoke"} => Issued(r.token)
  /\ r.at \in OfDevice => r.goal = "admin" /\ r.device \in Devices
  /\ r.at \in {"admitted", "checked", "stored"} => r.device = token[r.token].device
  /\ r.at \in {"checked", "stored"} => r.goal = "inventory"
  /\ r.goal = "inventory" => r.value <= MaxTime + Ahead
  /\ r.goal = "admin" => r.value <= Never
  /\ r.at \notin LockingTokens => r.todo = {} /\ r.rows = {}

\* A statement has come to one of its tokens; what rotation cuts outlives its
\* deadline, and who holds a device finds it active and, deleting it, misses no live token.
Locks(r) ==
  /\ \A t \in r.todo \cup r.rows : Issued(t)
  /\ r.at \in LockingTokens => r.token \in NextOf(r.todo)
  /\ r.at = "cutting" => \A t \in r.rows : token[t].expires > r.since + Overlap
  /\ r.at \in HoldingDevice => Active(r.device)
  /\ r.at = "revoking" => LiveOf(r.device) \subseteq r.todo \cup r.rows

\* The row locks of two calls, table by table: who holds what excludes whom.
Excludes(r, q) ==
  /\ r.at \in HoldingDevice /\ q.at \in Changing => r.device # q.device
  /\ r.rows \cap q.rows = {}
  /\ q.at \in SharingToken => q.token \notin r.rows
  /\ r.at = "stored" /\ q.at = "stored" => r.device # q.device

LockInv == \A c, d \in Calls : c # d => Excludes(call[c], call[d])

IInv ==
  /\ TypeOK /\ IssuedHasDevice /\ DeletedHasNoToken /\ WriterIsEntitled /\ LockInv
  /\ \A c \in Calls : Remembers(call[c]) /\ Locks(call[c])
=============================================================================
