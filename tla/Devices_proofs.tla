--------------------------- MODULE Devices_proofs ---------------------------
(***************************************************************************)
(* Proofs about Devices: its invariant on the row locks is inductive, and  *)
(* the properties of the module follow from it for any devices, users,     *)
(* calls and bounds.                                                       *)
(*                                                                         *)
(* Every step but two is the step of one call.  It keeps the invariant if  *)
(* the call is then in order (Fits), excludes the others by its locks      *)
(* (Excludes) and changes no row that another has checked or locked        *)
(* (Spares).                                                               *)
(***************************************************************************)
EXTENDS Devices, WellFoundedInduction, TLAPS

\* What the assumptions on the constants give the arithmetic below.
LEMMA Bounds ==
  /\ MaxTokens \in Nat /\ MaxTime \in Nat /\ Overlap \in Nat /\ Ahead \in Nat
  /\ None \notin Devices /\ None \notin Nat
  BY BoundsAssumption, NoneAssumption
-----------------------------------------------------------------------------
(* A set of naturals has a least element.                                   *)

Below == {ss \in Nat \X Nat : ss[1] < ss[2]}

LEMMA BelowWellFounded == IsWellFoundedOn(Below, Nat)
<1>1. OpToRel(<, Nat) = Below
  BY DEF OpToRel, Below
<1> QED
  BY <1>1, NatLessThanWellFounded

LEMMA NotBelow == \A x, y \in Nat : <<y, x>> \notin Below => x <= y
  BY DEF Below

\* Min returns an element, and no other is less.
LEMMA MinIsLeast ==
  ASSUME NEW S \in SUBSET Nat, S # {}
  PROVE  Min(S) \in S /\ \A x \in S : Min(S) <= x
<1>1. PICK x \in S : \A y \in S : <<y, x>> \notin Below
  BY BelowWellFounded, WFMin
<1>2. \A y \in S : x <= y
  BY <1>1, NotBelow
<1> QED
  BY <1>2 DEF Min
-----------------------------------------------------------------------------
(* What one call's step has to leave to the others.                         *)

\* The tables change so that what call d has checked or locked stays.
Spared(d) ==
  /\ call[d].at \in {"checked", "stored"} => token'[call[d].token].state = "live"
  /\ call[d].at \in {"checked", "stored"} \cup HoldingDevice =>
       device'[call[d].device].state = "active"
  /\ call[d].at = "stored" => inventory'[call[d].device] = inventory[call[d].device]
  /\ call[d].at = "cutting" =>
       \A t \in call[d].rows : token'[t].expires = token[t].expires
  /\ call[d].at = "revoking" =>
       \A t \in Tokens : token'[t].state = "live" /\ token'[t].device = call[d].device =>
         token[t].state = "live" /\ token[t].device = call[d].device

\* No issued token is lost or changes its device.
KeepsTokens == \A t \in Tokens : Issued(t) => Issued(t)' /\ token'[t].device = token[t].device

Spares(c) == KeepsTokens /\ \A d \in Calls \ {c} : Spared(d)

Fits(r) == OwnTokens(r) /\ Remembers(r) /\ Locks(r) /\ Entitled(r)

\* A call that the step spares keeps what it may rely on.
LEMMA OthersFit ==
  ASSUME IInv, NEW c, Spares(c), NEW d \in Calls, d # c, call'[d] = call[d]
  PROVE  Fits(call[d])'
<1>1. call[d] \in CallType /\ Fits(call[d])
  BY DEF IInv, TypeOK, Fits, WriterIsEntitled
<1>2. OwnTokens(call[d])'
  BY <1>1, Bounds DEF OwnTokens, Spares, Spared, KeepsTokens, Fits, Locks, Issued, CallType
<1>3. Remembers(call[d])'
  BY <1>1 DEF Fits, Remembers, Spares, Spared, KeepsTokens, Issued, AgentStages
<1>4. Locks(call[d])'
  <2>1. \A t \in call[d].todo \cup call[d].rows : Issued(t)'
    BY <1>1 DEF Fits, Locks, Spares, Spared, KeepsTokens, Issued
  <2>2. call[d].at = "cutting" =>
          \A t \in call[d].rows : token'[t].expires > call[d].since + Overlap
    BY <1>1 DEF Fits, Locks, Spares, Spared, KeepsTokens, Issued
  <2>3. call[d].at \in HoldingDevice => Active(call[d].device)'
    BY DEF Spares, Spared, Active
  <2>4. call[d].at = "revoking" =>
          LiveOf(call[d].device)' \subseteq call[d].todo \cup call[d].rows
    BY <1>1 DEF Fits, Locks, Spares, Spared, LiveOf
  <2> QED
    BY <1>1, <2>1, <2>2, <2>3, <2>4 DEF Fits, Locks, Issued
<1>5. Entitled(call[d])'
  BY <1>1 DEF Fits, Entitled, Spares, Spared, KeepsTokens, Newer, Active
<1> QED
  BY <1>2, <1>3, <1>4, <1>5 DEF Fits

\* A step of one call keeps the invariant if it spares the others and leaves its
\* own call in order.
LEMMA StepOfOne ==
  ASSUME IInv, NEW c \in Calls, NEW r \in CallType,
         call' = [call EXCEPT ![c] = r], now' \in 0..MaxTime,
         TablesOK', IssuedHasDevice', DeletedHasNoToken', Spares(c), Fits(call[c])',
         \A d \in Calls \ {c} : Excludes(r, call[d]) /\ Excludes(call[d], r)
  PROVE  IInv'
<1>0. call \in [Calls -> CallType]
  BY DEF IInv, TypeOK
<1>1. call' \in [Calls -> CallType] /\ call'[c] = r /\ \A d \in Calls \ {c} : call'[d] = call[d]
  BY <1>0
<1>2. \A d \in Calls : Fits(call[d])'
  BY <1>1, OthersFit
<1>3. LockInv'
  BY <1>1 DEF IInv, LockInv, Excludes
<1> QED
  BY <1>1, <1>2, <1>3 DEF IInv, TypeOK, WriterIsEntitled, Fits

\* A step that leaves the tables alone spares everybody and keeps their invariants.
LEMMA TablesUnchanged ==
  ASSUME IInv, UNCHANGED rowVars, NEW c, NEW S, call' = [call EXCEPT ![c] = S]
  PROVE  TablesOK' /\ IssuedHasDevice' /\ DeletedHasNoToken' /\ Spares(c)
<1>1. TablesOK' /\ IssuedHasDevice' /\ DeletedHasNoToken'
  BY DEF IInv, TypeOK, TablesOK, IssuedHasDevice, DeletedHasNoToken, LiveOf, Issued, rowVars
<1>2. KeepsTokens
  BY DEF KeepsTokens, Issued, rowVars
<1>3. \A d \in Calls : Spared(d)
  BY DEF IInv, WriterIsEntitled, Entitled, Locks, Active, Spared, rowVars
<1> QED
  BY <1>1, <1>2, <1>3 DEF Spares

\* What it takes to move one call while the tables stay.
LEMMA MoveOfOne ==
  ASSUME IInv, NEW c \in Calls, NEW r \in CallType, call' = [call EXCEPT ![c] = r],
         UNCHANGED <<now, rowVars>>, Fits(r),
         \A d \in Calls \ {c} : Excludes(r, call[d]) /\ Excludes(call[d], r)
  PROVE  IInv'
<1>1. call'[c] = r
  BY DEF IInv, TypeOK
<1>2. Fits(call[c])'
  BY <1>1 DEF Fits, OwnTokens, Remembers, Locks, Entitled, Issued, Active, LiveOf, Newer, rowVars
<1>3. now' \in 0..MaxTime
  BY DEF IInv, TypeOK
<1> QED
  BY <1>2, <1>3, TablesUnchanged, StepOfOne

\* A call that holds nothing is in nobody's way.
LEMMA HoldsNothing ==
  ASSUME IInv, NEW r, r.at \notin HoldingDevice \cup SharingToken, r.rows = {}, NEW d \in Calls
  PROVE  Excludes(r, call[d]) /\ Excludes(call[d], r)
  BY DEF Excludes, HoldingDevice, SharingToken, Changing

LEMMA EndedFits ==
  /\ Ended \in CallType
  /\ Ended.at = "ended" /\ Ended.rows = {} /\ Ended.todo = {} /\ Ended.goal = "none"
  /\ Fits(Ended) /\ Fits(Ended)'
<1>1. /\ Ended.at = "ended" /\ Ended.rows = {} /\ Ended.todo = {} /\ Ended.goal = "none"
      /\ Ended \in CallType
  BY Bounds DEF Ended, Waiting, CallType, Stages, Never, AgentGoals
<1> QED
  BY <1>1 DEF Fits, OwnTokens, Remembers, Locks, Entitled, AgentStages, HoldingDevice,
    Changing, LockingTokens, OfDevice

\* The end of a call, whatever it did to the tables.
LEMMA EndOfOne ==
  ASSUME IInv, NEW c \in Calls, End(c), now' = now,
         TablesOK', IssuedHasDevice', DeletedHasNoToken', Spares(c)
  PROVE  IInv'
<1>1. call' = [call EXCEPT ![c] = Ended]
  BY DEF End
<1>2. call'[c] = Ended
  BY <1>1 DEF IInv, TypeOK
<1>3. Fits(call[c])'
  BY <1>2, EndedFits DEF Fits, OwnTokens, Remembers, Locks, Entitled, AgentStages, HoldingDevice,
    Changing, LockingTokens, OfDevice
<1>4. \A d \in Calls \ {c} : Excludes(Ended, call[d]) /\ Excludes(call[d], Ended)
  BY EndedFits, HoldsNothing DEF HoldingDevice, SharingToken, Changing, LockingTokens
<1>5. now' \in 0..MaxTime
  BY DEF IInv, TypeOK
<1> QED
  BY <1>1, <1>3, <1>4, <1>5, EndedFits, StepOfOne

LEMMA QuietEnd ==
  ASSUME IInv, NEW c \in Calls, End(c), UNCHANGED <<now, rowVars>>
  PROVE  IInv'
  BY TablesUnchanged, EndOfOne DEF End
-----------------------------------------------------------------------------
(* The locks that a granted call finds free.                                *)

LEMMA GrantedToken ==
  ASSUME IInv, NEW c \in Calls, Granted(c), NEW t \in Tokens, NEW mode \in {"share", "update"},
         <<"token", t, mode>> \in Wants(c), NEW d \in Calls, d # c
  PROVE  /\ t \notin call[d].rows
         /\ mode = "update" /\ call[d].at \in SharingToken => call[d].token # t
<1>1. \A held \in Holds(d) : ~Conflict(<<"token", t, mode>>, held)
  BY DEF Granted, Blockers
<1>2. t \in call[d].rows => <<"token", t, "update">> \in Holds(d)
  BY DEF Holds, At, IInv, Remembers, LockingTokens
<1>3. call[d].at \in SharingToken => <<"token", call[d].token, "share">> \in Holds(d)
  BY DEF Holds, At, SharingToken
<1>4. t \notin call[d].rows
  BY <1>1, <1>2 DEF Conflict
<1>5. mode = "update" /\ call[d].at \in SharingToken => call[d].token # t
  BY <1>1, <1>3 DEF Conflict
<1> QED
  BY <1>4, <1>5

LEMMA GrantedDevice ==
  ASSUME NEW c \in Calls, Granted(c), NEW x, NEW mode \in {"share", "update"},
         <<"device", x, mode>> \in Wants(c), NEW d \in Calls, d # c
  PROVE  /\ call[d].at \in Changing => call[d].device # x
         /\ mode = "update" /\ call[d].at \in HoldingDevice => call[d].device # x
<1>1. \A held \in Holds(d) : ~Conflict(<<"device", x, mode>>, held)
  BY DEF Granted, Blockers
<1>2. call[d].at \in Changing => <<"device", call[d].device, "update">> \in Holds(d)
  BY DEF Holds, At, Changing
<1>3. call[d].at \in {"rotating", "cutting"} => <<"device", call[d].device, "share">> \in Holds(d)
  BY DEF Holds, At
<1>4. call[d].at \in Changing => call[d].device # x
  BY <1>1, <1>2 DEF Conflict
<1>5. mode = "update" /\ call[d].at \in {"rotating", "cutting"} => call[d].device # x
  BY <1>1, <1>3 DEF Conflict
<1> QED
  BY <1>4, <1>5 DEF HoldingDevice, LockingTokens, Changing

LEMMA GrantedInventory ==
  ASSUME NEW c \in Calls, Granted(c), At(c, "checked"), NEW d \in Calls, d # c, At(d, "stored")
  PROVE  call[d].device # call[c].device
<1>1. \A held \in Holds(d) : ~Conflict(<<"inventory", call[c].device, "update">>, held)
  BY DEF Granted, Blockers, Wants, At
<1>2. <<"inventory", call[d].device, "update">> \in Holds(d)
  BY DEF Holds, At
<1> QED
  BY <1>1, <1>2 DEF Conflict
-----------------------------------------------------------------------------
(* Steps that move a call and leave the tables alone.                       *)

\* Every call is a record of its type, with facts that hold of it.
LEMMA CallFacts ==
  ASSUME IInv, NEW c \in Calls
  PROVE  /\ call[c] \in CallType /\ Fits(call[c])
         /\ \A d \in Calls \ {c} : Excludes(call[c], call[d]) /\ Excludes(call[d], call[c])
  BY DEF IInv, TypeOK, Fits, WriterIsEntitled, LockInv

LEMMA BreakDeadlockKeeps == ASSUME IInv, NEW c \in Calls, BreakDeadlock(c) PROVE IInv'
  BY QuietEnd DEF BreakDeadlock

LEMMA FailKeeps == ASSUME IInv, NEW c \in Calls, Fail(c) PROVE IInv'
  BY QuietEnd DEF Fail

LEMMA TurnAwayKeeps == ASSUME IInv, NEW c \in Calls, TurnAway(c) PROVE IInv'
  BY QuietEnd DEF TurnAway

\* A request of the console, before it has any lock.
LEMMA RequestKeeps ==
  ASSUME IInv, NEW c \in Calls, NEW stage \in {"update", "rotate", "delete", "revoke"},
         NEW d \in Devices, NEW t \in Tokens \cup {None}, NEW e \in Times,
         stage = "revoke" => Issued(t), Request(c, stage, d, t, e)
  PROVE  IInv'
<1> DEFINE r == [Waiting EXCEPT !.at = stage, !.goal = "admin", !.device = d,
                                !.token = t, !.since = now, !.value = e]
<1>1. /\ r.at = stage /\ r.goal = "admin" /\ r.device = d /\ r.token = t /\ r.since = now
      /\ r.value = e /\ r.todo = {} /\ r.rows = {}
  BY DEF Waiting
<1>2. e \in 0..(Never + Ahead) /\ e <= Never /\ now \in 0..MaxTime
  BY Bounds DEF Times, Never, IInv, TypeOK
<1>3. r \in CallType
  BY <1>2 DEF CallType, Stages, Waiting
<1>4. Fits(r)
  BY <1>1, <1>2 DEF Fits, OwnTokens, Remembers, Locks, Entitled, AgentStages, HoldingDevice,
    Changing, LockingTokens, OfDevice
<1>5. \A x \in Calls \ {c} : Excludes(r, call[x]) /\ Excludes(call[x], r)
  <2>1. r.at \notin HoldingDevice \cup SharingToken /\ r.rows = {}
    BY <1>1 DEF HoldingDevice, SharingToken, Changing, LockingTokens
  <2> QED
    BY <2>1, HoldsNothing
<1>6. call' = [call EXCEPT ![c] = r] /\ UNCHANGED <<now, rowVars>>
  BY DEF Request
<1> QED
  BY <1>3, <1>4, <1>5, <1>6, MoveOfOne

LEMMA PresentTokenKeeps ==
  ASSUME IInv, NEW c \in Calls, NEW goal \in AgentGoals, NEW t \in Tokens \ Unissued,
         NEW d \in Devices \cup {None}, NEW v \in 0..(MaxTime + Ahead),
         PresentToken(c, goal, t, d, v)
  PROVE  IInv'
<1> DEFINE r == [Waiting EXCEPT !.at = "presented", !.goal = goal, !.device = d,
                                !.token = t, !.since = now, !.value = v]
<1>1. /\ r.at = "presented" /\ r.goal = goal /\ r.device = d /\ r.token = t /\ r.since = now
      /\ r.value = v /\ r.todo = {} /\ r.rows = {}
  BY DEF Waiting
<1>2. v \in 0..(Never + Ahead) /\ v <= MaxTime + Ahead /\ now \in 0..MaxTime
  BY Bounds DEF Never, IInv, TypeOK
<1>3. r \in CallType
  BY <1>2 DEF CallType, Stages, Waiting
<1>4. Fits(r)
  BY <1>1, <1>2 DEF Fits, OwnTokens, Remembers, Locks, Entitled, AgentStages, HoldingDevice,
    Changing, LockingTokens, OfDevice, Issued, Unissued, AgentGoals
<1>5. \A x \in Calls \ {c} : Excludes(r, call[x]) /\ Excludes(call[x], r)
  <2>1. r.at \notin HoldingDevice \cup SharingToken /\ r.rows = {}
    BY <1>1 DEF HoldingDevice, SharingToken, Changing, LockingTokens
  <2> QED
    BY <2>1, HoldsNothing
<1>6. call' = [call EXCEPT ![c] = r] /\ UNCHANGED <<now, rowVars>>
  BY DEF PresentToken
<1> QED
  BY <1>3, <1>4, <1>5, <1>6, MoveOfOne

\* A call that goes on to a stage, remembering what it did.
LEMMA StageOfOne ==
  ASSUME IInv, NEW c \in Calls, NEW stage \in Stages, To(c, stage), UNCHANGED <<now, rowVars>>,
         Remembers([call[c] EXCEPT !.at = stage]), Locks([call[c] EXCEPT !.at = stage]),
         Entitled([call[c] EXCEPT !.at = stage]),
         \A d \in Calls \ {c} : /\ Excludes([call[c] EXCEPT !.at = stage], call[d])
                                /\ Excludes(call[d], [call[c] EXCEPT !.at = stage])
  PROVE  IInv'
<1> DEFINE r == [call[c] EXCEPT !.at = stage]
<1>1. call[c] \in CallType /\ Fits(call[c])
  BY CallFacts
<1>2. r \in CallType
  BY <1>1 DEF CallType
<1>3. OwnTokens(r)
  BY <1>1 DEF Fits, OwnTokens, CallType
<1>4. call' = [call EXCEPT ![c] = r]
  BY DEF To
<1> QED
  BY <1>2, <1>3, <1>4, MoveOfOne DEF Fits

LEMMA Advanced ==
  ASSUME IInv, NEW c \in Calls, NEW stage
  PROVE  LET r == [call[c] EXCEPT !.at = stage] IN
           /\ r.at = stage /\ r.goal = call[c].goal /\ r.device = call[c].device
           /\ r.token = call[c].token /\ r.value = call[c].value /\ r.since = call[c].since
           /\ r.todo = call[c].todo /\ r.rows = call[c].rows
  BY DEF IInv, TypeOK, CallType

LEMMA FindTokenKeeps == ASSUME IInv, NEW c \in Calls, FindToken(c) PROVE IInv'
<1>1. CASE End(c)
  BY <1>1, QuietEnd DEF FindToken
<1>2. CASE To(c, "found")
  <2> DEFINE r == [call[c] EXCEPT !.at = "found"]
  <2>1. Fits(call[c]) /\ call[c].at = "presented"
    BY CallFacts DEF FindToken, At
  <2>2. Remembers(r) /\ Locks(r) /\ Entitled(r)
    BY <2>1, Advanced DEF Fits, Remembers, Locks, Entitled, AgentStages, HoldingDevice,
      Changing, LockingTokens, OfDevice
  <2>3. r.at \notin HoldingDevice \cup SharingToken /\ r.rows = {}
    BY <2>2, Advanced DEF Remembers, HoldingDevice, SharingToken, Changing, LockingTokens
  <2> QED
    BY <1>2, <2>2, <2>3, HoldsNothing, StageOfOne DEF Stages, FindToken
<1> QED
  BY <1>1, <1>2 DEF FindToken

\* Whoever shares its token finds it locked by nobody.
LEMMA ActivateIdentityKeeps == ASSUME IInv, NEW c \in Calls, ActivateIdentity(c) PROVE IInv'
<1>1. CASE End(c)
  BY <1>1, QuietEnd DEF ActivateIdentity
<1>2. CASE To(c, "activated")
  <2> DEFINE r == [call[c] EXCEPT !.at = "activated"]
  <2>1. Fits(call[c]) /\ call[c].at = "found" /\ Granted(c)
    BY CallFacts DEF ActivateIdentity, At
  <2>2. Remembers(r) /\ Locks(r) /\ Entitled(r)
    BY <2>1, Advanced DEF Fits, Remembers, Locks, Entitled, AgentStages, HoldingDevice,
      Changing, LockingTokens, OfDevice
  <2>3. <<"token", call[c].token, "share">> \in Wants(c) /\ call[c].token \in Tokens
    BY <2>1 DEF Wants, At, Fits, Remembers, Issued, AgentStages
  <2>4. \A d \in Calls \ {c} : call[c].token \notin call[d].rows
    BY <2>1, <2>3, GrantedToken
  <2>5. \A d \in Calls \ {c} : Excludes(r, call[d]) /\ Excludes(call[d], r)
    BY <2>1, <2>4, Advanced DEF Excludes, HoldingDevice, SharingToken, Changing, LockingTokens,
      Fits, Remembers
  <2> QED
    BY <1>2, <2>2, <2>5, StageOfOne DEF Stages, ActivateIdentity
<1> QED
  BY <1>1, <1>2 DEF ActivateIdentity

LEMMA CheckWriterKeeps == ASSUME IInv, NEW c \in Calls, CheckWriter(c) PROVE IInv'
<1>1. CASE End(c)
  BY <1>1, QuietEnd DEF CheckWriter
<1>2. CASE To(c, "checked") /\ Usable(call[c].token, call[c].since) /\ Active(call[c].device)
  <2> DEFINE r == [call[c] EXCEPT !.at = "checked"]
  <2>1. Fits(call[c]) /\ call[c].at = "admitted" /\ call[c].goal = "inventory" /\ Granted(c)
    BY CallFacts DEF CheckWriter, At
  <2>2. Remembers(r) /\ Locks(r) /\ Entitled(r)
    BY <1>2, <2>1, Advanced DEF Fits, Remembers, Locks, Entitled, AgentStages, HoldingDevice,
      Changing, LockingTokens, OfDevice, Usable
  <2>3. <<"token", call[c].token, "share">> \in Wants(c) /\ call[c].token \in Tokens
    BY <2>1 DEF Wants, At, Fits, Remembers, Issued, AgentStages
  <2>4. \A d \in Calls \ {c} : call[c].token \notin call[d].rows
    BY <2>1, <2>3, GrantedToken
  <2>5. \A d \in Calls \ {c} : Excludes(r, call[d]) /\ Excludes(call[d], r)
    BY <2>1, <2>4, Advanced DEF Excludes, HoldingDevice, SharingToken, Changing, LockingTokens,
      Fits, Remembers
  <2> QED
    BY <1>2, <2>2, <2>5, StageOfOne DEF Stages, CheckWriter
<1> QED
  BY <1>1, <1>2 DEF CheckWriter

LEMMA StoreInventoryKeeps == ASSUME IInv, NEW c \in Calls, StoreInventory(c) PROVE IInv'
<1>1. CASE End(c)
  BY <1>1, QuietEnd DEF StoreInventory
<1>2. CASE To(c, "stored") /\ Newer(call[c].value, call[c].device)
  <2> DEFINE r == [call[c] EXCEPT !.at = "stored"]
  <2>1. /\ Fits(call[c]) /\ call[c].at = "checked" /\ Granted(c)
        /\ \A d \in Calls \ {c} : Excludes(call[c], call[d]) /\ Excludes(call[d], call[c])
    BY CallFacts DEF StoreInventory, At
  <2>2. Remembers(r) /\ Locks(r) /\ Entitled(r)
    BY <1>2, <2>1, Advanced DEF Fits, Remembers, Locks, Entitled, AgentStages, HoldingDevice,
      Changing, LockingTokens, OfDevice
  <2>3. \A d \in Calls \ {c} : call[d].at = "stored" => call[d].device # call[c].device
    BY <2>1, GrantedInventory DEF At
  <2>4. \A d \in Calls \ {c} : Excludes(r, call[d]) /\ Excludes(call[d], r)
    BY <2>1, <2>3, Advanced DEF Excludes, HoldingDevice, SharingToken, Changing, LockingTokens
  <2> QED
    BY <1>2, <2>2, <2>4, StageOfOne DEF Stages, StoreInventory
<1> QED
  BY <1>1, <1>2 DEF StoreInventory

\* Rotation shares the device, so that nobody is deleting it.
LEMMA LockForRotateKeeps == ASSUME IInv, NEW c \in Calls, LockForRotate(c) PROVE IInv'
<1>1. CASE End(c)
  BY <1>1, QuietEnd DEF LockForRotate
<1>2. CASE To(c, "rotating") /\ Active(call[c].device)
  <2> DEFINE r == [call[c] EXCEPT !.at = "rotating"]
  <2>1. Fits(call[c]) /\ call[c].at = "rotate" /\ Granted(c)
    BY CallFacts DEF LockForRotate, At
  <2>2. Remembers(r) /\ Locks(r) /\ Entitled(r)
    BY <1>2, <2>1, Advanced DEF Fits, Remembers, Locks, Entitled, AgentStages, HoldingDevice,
      Changing, LockingTokens, OfDevice
  <2>3. <<"device", call[c].device, "share">> \in Wants(c)
    BY <2>1 DEF Wants, At
  <2>4. \A d \in Calls \ {c} : call[d].at \in Changing => call[d].device # call[c].device
    BY <2>1, <2>3, GrantedDevice
  <2>5. \A d \in Calls \ {c} : Excludes(r, call[d]) /\ Excludes(call[d], r)
    BY <2>1, <2>4, Advanced DEF Excludes, HoldingDevice, SharingToken, Changing, LockingTokens,
      Fits, Remembers
  <2> QED
    BY <1>2, <2>2, <2>5, StageOfOne DEF Stages, LockForRotate
<1> QED
  BY <1>1, <1>2 DEF LockForRotate

\* Deletion locks the device, so that nobody rotates or deletes it.
LEMMA MarkDeletedKeeps == ASSUME IInv, NEW c \in Calls, MarkDeleted(c) PROVE IInv'
<1>1. CASE End(c)
  BY <1>1, QuietEnd DEF MarkDeleted
<1>2. CASE To(c, "deleting") /\ Active(call[c].device)
  <2> DEFINE r == [call[c] EXCEPT !.at = "deleting"]
  <2>1. Fits(call[c]) /\ call[c].at = "delete" /\ Granted(c)
    BY CallFacts DEF MarkDeleted, At
  <2>2. Remembers(r) /\ Locks(r) /\ Entitled(r)
    BY <1>2, <2>1, Advanced DEF Fits, Remembers, Locks, Entitled, AgentStages, HoldingDevice,
      Changing, LockingTokens, OfDevice
  <2>3. <<"device", call[c].device, "update">> \in Wants(c)
    BY <2>1 DEF Wants, At
  <2>4. \A d \in Calls \ {c} : call[d].at \in HoldingDevice => call[d].device # call[c].device
    BY <2>1, <2>3, GrantedDevice
  <2>5. \A d \in Calls \ {c} : Excludes(r, call[d]) /\ Excludes(call[d], r)
    BY <2>1, <2>4, Advanced DEF Excludes, HoldingDevice, SharingToken, Changing, LockingTokens,
      Fits, Remembers
  <2> QED
    BY <1>2, <2>2, <2>5, StageOfOne DEF Stages, MarkDeleted
<1> QED
  BY <1>1, <1>2 DEF MarkDeleted

\* The tokens a statement selects are not locked yet.
LEMMA Selected ==
  ASSUME IInv, NEW c \in Calls, NEW stage \in LockingTokens,
         call[c].at \in HoldingDevice \ LockingTokens, stage = "revoking" => call[c].at = "deleting",
         NEW T \in SUBSET LiveOf(call[c].device),
         stage = "revoking" => T = LiveOf(call[c].device),
         Scan(c, stage, T)
  PROVE  IInv'
<1>0. PICK t \in NextOf(T) : call' = [call EXCEPT ![c].at = stage, ![c].todo = T, ![c].token = t]
  BY DEF Scan
<1> DEFINE r == [call[c] EXCEPT !.at = stage, !.todo = T, !.token = t]
<1>1. /\ call[c] \in CallType /\ Fits(call[c])
      /\ \A d \in Calls \ {c} : Excludes(call[c], call[d]) /\ Excludes(call[d], call[c])
  BY CallFacts
<1>2. /\ r.at = stage /\ r.goal = call[c].goal /\ r.device = call[c].device
      /\ r.token = t /\ r.value = call[c].value /\ r.since = call[c].since
      /\ r.todo = T /\ r.rows = call[c].rows
  BY <1>1 DEF CallType
<1>3. r \in CallType
  BY <1>0, <1>1 DEF CallType, LockingTokens, Stages, LiveOf, NextOf
<1>4. /\ call[c].rows = {} /\ Active(call[c].device) /\ call[c].device \in Devices
      /\ call[c].goal = "admin" /\ call[c].value <= Never
  BY <1>1 DEF Fits, Remembers, Locks, OfDevice
<1>5. OwnTokens(r) /\ Remembers(r) /\ Locks(r) /\ Entitled(r)
  BY <1>0, <1>2, <1>4 DEF OwnTokens, Remembers, Locks, Entitled, LiveOf, Issued, AgentStages,
    HoldingDevice, Changing, LockingTokens, OfDevice
<1>6. \A d \in Calls \ {c} : Excludes(r, call[d]) /\ Excludes(call[d], r)
  BY <1>1, <1>2, <1>4 DEF Excludes, HoldingDevice, SharingToken, Changing, LockingTokens
<1>7. call' = [call EXCEPT ![c] = r] /\ UNCHANGED <<now, rowVars>>
  BY <1>0 DEF Scan
<1> HIDE DEF r
<1> QED
  BY <1>3, <1>5, <1>6, <1>7, MoveOfOne DEF Fits

LEMMA SelectOlderKeeps == ASSUME IInv, NEW c \in Calls, SelectOlder(c) PROVE IInv'
<1> DEFINE T == {t \in LiveOf(call[c].device) : Outlives(t, c)}
<1>1. Scan(c, "cutting", T)
  BY DEF SelectOlder
<1>2. T \in SUBSET LiveOf(call[c].device)
  OBVIOUS
<1> QED
  BY <1>1, <1>2, Selected DEF SelectOlder, At, HoldingDevice, Changing, LockingTokens

LEMMA SelectLiveKeeps == ASSUME IInv, NEW c \in Calls, SelectLive(c) PROVE IInv'
<1>1. LiveOf(call[c].device) \in SUBSET LiveOf(call[c].device)
  OBVIOUS
<1> QED
  BY <1>1, Selected DEF SelectLive, At, HoldingDevice, Changing, LockingTokens

\* The token the statement has come to is locked, and kept if it still qualifies.
LEMMA Locked ==
  ASSUME IInv, NEW c \in Calls, call[c].at \in LockingTokens, call[c].todo # {}, Granted(c),
         NEW keep \in BOOLEAN,
         keep /\ call[c].at = "cutting" =>
           token[call[c].token].expires > call[c].since + Overlap,
         ~keep /\ call[c].at = "revoking" => token[call[c].token].state # "live",
         LockNext(c, keep)
  PROVE  IInv'
<1> DEFINE t == call[c].token
           rest == call[c].todo \ {t}
<1>0. PICK u \in NextOf(rest) :
        call' = [call EXCEPT ![c].todo = rest, ![c].token = u,
                             ![c].rows = IF keep THEN @ \cup {t} ELSE @]
  BY DEF LockNext
<1> DEFINE r == [call[c] EXCEPT !.todo = rest, !.token = u,
                                !.rows = IF keep THEN @ \cup {t} ELSE @]
<1>1. /\ call[c] \in CallType /\ Fits(call[c])
      /\ \A d \in Calls \ {c} : Excludes(call[c], call[d]) /\ Excludes(call[d], call[c])
  BY CallFacts
<1>2. t \in call[c].todo /\ t \in Tokens
  BY <1>1 DEF Fits, Locks, NextOf, CallType
<1>3. /\ r.at = call[c].at /\ r.goal = call[c].goal /\ r.device = call[c].device
      /\ r.token = u /\ r.value = call[c].value /\ r.since = call[c].since
      /\ r.todo = rest
      /\ r.rows = IF keep THEN call[c].rows \cup {t} ELSE call[c].rows
  BY <1>1 DEF CallType
<1>4. r \in CallType
  BY <1>0, <1>1, <1>2 DEF CallType, NextOf
<1>5. /\ keep /\ call[c].at = "cutting" => token[t].expires > call[c].since + Overlap
      /\ ~keep /\ call[c].at = "revoking" => token[t].state # "live"
  OBVIOUS
<1>6. OwnTokens(r) /\ Remembers(r) /\ Entitled(r)
  BY <1>1, <1>2, <1>3 DEF Fits, OwnTokens, Remembers, Entitled, LockingTokens, AgentStages
<1>7. Locks(r)
  <2>1. \A x \in r.todo \cup r.rows : Issued(x)
    BY <1>1, <1>2, <1>3 DEF Fits, Locks
  <2>2. r.token \in NextOf(r.todo)
    BY <1>0, <1>3
  <2>3. r.at = "cutting" => \A x \in r.rows : token[x].expires > r.since + Overlap
    BY <1>1, <1>3, <1>5 DEF Fits, Locks
  <2>4. r.at \in HoldingDevice => Active(r.device)
    BY <1>1, <1>3 DEF Fits, Locks
  <2>5. r.at = "revoking" => LiveOf(r.device) \subseteq r.todo \cup r.rows
    BY <1>1, <1>3, <1>5 DEF Fits, Locks, LiveOf
  <2> QED
    BY <2>1, <2>2, <2>3, <2>4, <2>5 DEF Locks
<1>8. <<"token", t, "update">> \in Wants(c)
  BY DEF Wants, At, LockingTokens
<1>9. \A d \in Calls \ {c} : /\ t \notin call[d].rows
                             /\ call[d].at \in SharingToken => call[d].token # t
  BY <1>2, <1>8, GrantedToken
<1>10. \A d \in Calls \ {c} : Excludes(r, call[d]) /\ Excludes(call[d], r)
  BY <1>1, <1>3, <1>9 DEF Excludes, LockingTokens, SharingToken
<1>11. call' = [call EXCEPT ![c] = r] /\ UNCHANGED <<now, rowVars>>
  BY <1>0 DEF LockNext
<1> HIDE DEF r
<1> QED
  BY <1>4, <1>6, <1>7, <1>10, <1>11, MoveOfOne DEF Fits

LEMMA CutTokenKeeps == ASSUME IInv, NEW c \in Calls, CutToken(c) PROVE IInv'
<1> DEFINE keep == Outlives(call[c].token, c)
<1>1. keep \in BOOLEAN
  BY DEF Outlives
<1>2. keep => token[call[c].token].expires > call[c].since + Overlap
  BY DEF Outlives, Deadline
<1>3. LockNext(c, keep)
  BY DEF CutToken
<1> HIDE DEF keep
<1> QED
  BY <1>1, <1>2, <1>3, Locked DEF CutToken, At, LockingTokens

LEMMA LockRevokedKeeps == ASSUME IInv, NEW c \in Calls, LockRevoked(c) PROVE IInv'
<1> DEFINE keep == token[call[c].token].state = "live"
<1>1. keep \in BOOLEAN /\ (~keep => token[call[c].token].state # "live")
  OBVIOUS
<1>2. LockNext(c, keep)
  BY DEF LockRevoked
<1> HIDE DEF keep
<1> QED
  BY <1>1, <1>2, Locked DEF LockRevoked, At, LockingTokens
-----------------------------------------------------------------------------
(* Steps that change the tables.                                            *)

\* What TypeOK says of the rows, for steps that change some.
LEMMA RowFacts ==
  ASSUME IInv
  PROVE  /\ now \in 0..MaxTime
         /\ device \in [Devices -> [state : {"none", "active", "deleted"}, seen : 0..MaxTime]]
         /\ token \in [Tokens -> [state : {"none", "live", "revoked"},
                                  device : Devices \cup {None}, expires : Times, used : 0..MaxTime]]
         /\ inventory \in [Devices -> (0..(MaxTime + Ahead)) \cup {None}]
         /\ IssuedHasDevice /\ DeletedHasNoToken
  BY DEF IInv, TypeOK, TablesOK

\* What the other calls rely on.
LEMMA OthersRely ==
  ASSUME IInv, NEW d \in Calls
  PROVE  /\ call[d].at \in {"checked", "stored"} =>
              /\ call[d].token \in Tokens /\ token[call[d].token].state = "live"
              /\ call[d].device \in Devices /\ Active(call[d].device)
              /\ call[d].device = token[call[d].token].device
              /\ call[d].value \in 0..(MaxTime + Ahead)
         /\ call[d].at \in HoldingDevice => call[d].device \in Devices /\ Active(call[d].device)
         /\ call[d].rows \subseteq Tokens /\ call[d].todo \subseteq Tokens
         /\ \A t \in call[d].rows : Issued(t) /\ token[t].device = call[d].device
<1>1. call[d] \in CallType /\ Fits(call[d])
  BY CallFacts
<1>2. call[d].at \in {"checked", "stored"} => call[d].value \in 0..(MaxTime + Ahead)
  BY <1>1, Bounds DEF CallType, Fits, Remembers
<1> QED
  BY <1>1, <1>2 DEF CallType, Fits, Remembers, Locks, Entitled, OwnTokens, IInv, IssuedHasDevice,
    Issued, AgentStages, OfDevice

\* A token that has not been issued is nobody's.
LEMMA UnissuedToken ==
  ASSUME IInv, Unissued # {}
  PROVE  /\ Min(Unissued) \in Tokens /\ token[Min(Unissued)].state = "none"
<1>1. Unissued \in SUBSET Tokens /\ Tokens \in SUBSET Nat
  BY Bounds DEF Unissued, Tokens
<1> QED
  BY <1>1, MinIsLeast DEF Unissued

LEMMA EnrollKeeps ==
  ASSUME IInv, NEW c \in Calls, NEW d \in Devices, NEW e \in Expiries, Enroll(c, d, e)
  PROVE  IInv'
<1>1. CASE device[d].state # "none"
  BY <1>1, QuietEnd DEF Enroll, rowVars
<1>2. CASE device[d].state = "none"
  <2> DEFINE m == Min(Unissued)
  <2>1. m \in Tokens /\ token[m].state = "none"
    BY <1>2, UnissuedToken DEF Enroll
  <2>2. /\ device' = [device EXCEPT ![d].state = "active"]
        /\ token' = [token EXCEPT ![m] = NewToken(d, e)]
        /\ inventory' = inventory
        /\ now' = now /\ End(c)
    BY <1>2 DEF Enroll
  <2> HIDE DEF m
  <2>3. NewToken(d, e) = [state |-> "live", device |-> d, expires |-> e, used |-> 0] /\ e \in Times
    BY RowFacts, Bounds DEF NewToken, Expiries, Times, Never
  <2>4. TablesOK'
    BY <2>1, <2>2, <2>3, RowFacts, Bounds DEF TablesOK
  <2>5. IssuedHasDevice'
    BY <2>1, <2>2, <2>3, RowFacts DEF IssuedHasDevice, Issued
  <2>6. DeletedHasNoToken'
    BY <2>1, <2>2, <2>3, RowFacts DEF DeletedHasNoToken, LiveOf
  <2>7. \A t \in Tokens : t # m => token'[t] = token[t]
    BY <2>1, <2>2, RowFacts
  <2>8. token'[m].device = d /\ \A x \in Devices : x # d => device'[x] = device[x]
    BY <2>1, <2>2, <2>3, RowFacts
  <2>9. ASSUME NEW x \in Calls \ {c}
        PROVE  Spared(x)
    <3>1. call[x].at \in {"checked", "stored"} =>
            call[x].token # m /\ call[x].token \in Tokens /\ token[call[x].token].state = "live"
      BY <2>1, OthersRely
    <3>2. call[x].at \in {"checked", "stored"} \cup HoldingDevice =>
            call[x].device # d /\ call[x].device \in Devices /\ device[call[x].device].state = "active"
      BY <1>2, OthersRely DEF Active
    <3>3. \A t \in call[x].rows : t # m /\ t \in Tokens
      BY <2>1, OthersRely DEF Issued
    <3>4. call[x].at = "revoking" => call[x].device # d
      BY <3>2 DEF HoldingDevice, Changing
    <3> QED
      BY <2>2, <2>7, <2>8, <3>1, <3>2, <3>3, <3>4 DEF Spared
  <2>10. KeepsTokens
    BY <2>1, <2>7 DEF KeepsTokens, Issued
  <2> QED
    BY <2>2, <2>4, <2>5, <2>6, <2>9, <2>10, EndOfOne DEF Spares
<1> QED
  BY <1>1, <1>2

\* Changes of a device that leave its state alone.
LEMMA DeviceDetailKeeps ==
  ASSUME IInv, NEW c \in Calls, End(c), now' = now, TablesOK', token' = token,
         \A x \in Devices : device'[x].state = device[x].state, inventory' = inventory
  PROVE  IInv'
<1>1. IssuedHasDevice' /\ DeletedHasNoToken'
  BY RowFacts DEF IssuedHasDevice, DeletedHasNoToken, Issued, LiveOf
<1>2. ASSUME NEW x \in Calls \ {c}
      PROVE  Spared(x)
  <2>1. call[x].at \in {"checked", "stored"} \cup HoldingDevice =>
          device'[call[x].device].state = "active"
    BY OthersRely DEF Active
  <2> QED
    BY <2>1, OthersRely DEF Spared
<1>3. KeepsTokens
  BY DEF KeepsTokens, Issued
<1> QED
  BY <1>1, <1>2, <1>3, EndOfOne DEF Spares

LEMMA UpdateDeviceKeeps == ASSUME IInv, NEW c \in Calls, UpdateDevice(c) PROVE IInv'
  BY QuietEnd DEF UpdateDevice

LEMMA IngestBatchKeeps == ASSUME IInv, NEW c \in Calls, IngestBatch(c) PROVE IInv'
<1>1. now \in 0..MaxTime
  BY RowFacts
<1>2. \/ device' = device
      \/ device' = [device EXCEPT ![call[c].device].seen = now]
  BY DEF IngestBatch
<1>3. device' \in [Devices -> [state : {"none", "active", "deleted"}, seen : 0..MaxTime]]
  BY <1>1, <1>2, RowFacts
<1>4. \A x \in Devices : device'[x].state = device[x].state
  BY <1>2, RowFacts
<1>5. TablesOK'
  BY <1>3, RowFacts DEF IngestBatch, TablesOK
<1> QED
  BY <1>4, <1>5, DeviceDetailKeeps DEF IngestBatch

\* What revoking the tokens of T does to each.
LEMMA RevokedRows ==
  ASSUME IInv, NEW T \in SUBSET Tokens, token' = Revoked(T), \A t \in T : token[t].state # "none"
  PROVE  /\ token' \in [Tokens -> [state : {"none", "live", "revoked"},
                                   device : Devices \cup {None}, expires : Times, used : 0..MaxTime]]
         /\ \A t \in T : token'[t].state = "revoked"
         /\ \A t \in Tokens \ T : token'[t] = token[t]
         /\ \A t \in Tokens : /\ token'[t].device = token[t].device
                              /\ token'[t].expires = token[t].expires
                              /\ token'[t].state = "live" => token[t].state = "live"
                              /\ (token'[t].state = "none") <=> (token[t].state = "none")
<1>1. /\ token' = [t \in Tokens |-> IF t \in T THEN [token[t] EXCEPT !.state = "revoked"] ELSE token[t]]
      /\ token \in [Tokens -> [state : {"none", "live", "revoked"},
                               device : Devices \cup {None}, expires : Times, used : 0..MaxTime]]
  BY RowFacts DEF Revoked
<1>2. ASSUME NEW t \in Tokens
      PROVE  /\ token'[t] \in [state : {"none", "live", "revoked"},
                               device : Devices \cup {None}, expires : Times, used : 0..MaxTime]
             /\ t \in T => token'[t].state = "revoked"
             /\ t \notin T => token'[t] = token[t]
             /\ token'[t].device = token[t].device
             /\ token'[t].expires = token[t].expires
             /\ token'[t].state = "live" => token[t].state = "live"
             /\ (token'[t].state = "none") <=> (token[t].state = "none")
  <2>1. token[t] \in [state : {"none", "live", "revoked"},
                      device : Devices \cup {None}, expires : Times, used : 0..MaxTime]
    BY <1>1
  <2>2. CASE t \in T
    BY <1>1, <2>1, <2>2
  <2>3. CASE t \notin T
    BY <1>1, <2>1, <2>3
  <2> QED
    BY <2>2, <2>3
<1> QED
  BY <1>1, <1>2

\* A token that another call has checked is shared, and not revoked.
LEMMA RevokeTokenKeeps == ASSUME IInv, NEW c \in Calls, RevokeToken(c) PROVE IInv'
<1> DEFINE T == {call[c].token} \cap LiveOf(call[c].device)
<1>1. /\ token' = Revoked(T)
      /\ device' = device /\ inventory' = inventory
      /\ now' = now /\ End(c) /\ At(c, "revoke") /\ Granted(c)
  BY DEF RevokeToken
<1>2. call[c].token \in Tokens
  BY <1>1, CallFacts DEF Fits, Remembers, Issued, At
<1>3. \A d \in Calls \ {c} : call[d].at \in SharingToken => call[d].token \notin T
  <2>1. <<"token", call[c].token, "update">> \in Wants(c)
    BY <1>1 DEF Wants, At
  <2> QED
    BY <1>1, <1>2, <2>1, GrantedToken
<1>4. T \in SUBSET Tokens /\ \A t \in T : token[t].state # "none"
  BY DEF LiveOf
<1> HIDE DEF T
<1>5. TablesOK'
  BY <1>1, <1>4, RevokedRows, RowFacts DEF TablesOK
<1>6. IssuedHasDevice' /\ DeletedHasNoToken'
  BY <1>1, <1>4, RevokedRows, RowFacts DEF IssuedHasDevice, DeletedHasNoToken, Issued, LiveOf
<1>7. ASSUME NEW d \in Calls \ {c}
      PROVE  Spared(d)
  <2>1. call[d].at \in {"checked", "stored"} => token'[call[d].token].state = "live"
    BY <1>1, <1>3, <1>4, RevokedRows, OthersRely DEF SharingToken
  <2>2. call[d].at \in {"checked", "stored"} \cup HoldingDevice =>
          device'[call[d].device].state = "active"
    BY <1>1, OthersRely DEF Active
  <2>3. \A t \in call[d].rows : token'[t].expires = token[t].expires
    BY <1>1, <1>4, RevokedRows, OthersRely
  <2>4. \A t \in Tokens : token'[t].state = "live" /\ token'[t].device = call[d].device =>
             token[t].state = "live" /\ token[t].device = call[d].device
    BY <1>1, <1>4, RevokedRows
  <2> QED
    BY <1>1, <2>1, <2>2, <2>3, <2>4 DEF Spared
<1>8. KeepsTokens
  BY <1>1, <1>4, RevokedRows DEF KeepsTokens, Issued
<1> QED
  BY <1>1, <1>5, <1>6, <1>7, <1>8, EndOfOne DEF Spares

\* The rows of a deletion are all the live tokens of its device, which nobody
\* else holds and no agent has checked.
LEMMA FinishDeleteKeeps == ASSUME IInv, NEW c \in Calls, FinishDelete(c) PROVE IInv'
<1> DEFINE x == call[c].device
           T == call[c].rows
<1>1. /\ token' = Revoked(T) /\ device' = [device EXCEPT ![x].state = "deleted"]
      /\ inventory' = inventory
      /\ now' = now /\ End(c) /\ call[c].at = "revoking" /\ call[c].todo = {}
  BY DEF FinishDelete, At
<1>2. /\ T \in SUBSET Tokens /\ \A t \in T : token[t].state # "none"
      /\ x \in Devices /\ LiveOf(x) \subseteq T
  BY <1>1, CallFacts, OthersRely DEF Fits, Locks, Issued, HoldingDevice, Changing
<1>3. \A d \in Calls \ {c} : /\ call[d].at \in HoldingDevice => call[d].device # x
                             /\ call[d].at \in SharingToken => call[d].token \notin T
  BY <1>1, CallFacts DEF Excludes, Changing
<1> HIDE DEF x, T
<1>4. device' \in [Devices -> [state : {"none", "active", "deleted"}, seen : 0..MaxTime]]
      /\ \A y \in Devices : y # x => device'[y] = device[y]
  BY <1>1, <1>2, RowFacts
<1>5. TablesOK'
  BY <1>1, <1>2, <1>4, RevokedRows, RowFacts DEF TablesOK
<1>6. IssuedHasDevice'
  BY <1>1, <1>2, RevokedRows, RowFacts DEF IssuedHasDevice, Issued
<1>7. DeletedHasNoToken'
  <2>1. ASSUME NEW y \in Devices, device'[y].state = "deleted",
               NEW t \in Tokens, token'[t].state = "live", token'[t].device = y
        PROVE  FALSE
    <3>1. t \notin T /\ token[t].state = "live" /\ token[t].device = y
      BY <1>1, <1>2, <2>1, RevokedRows
    <3>2. y # x
      BY <1>2, <3>1 DEF LiveOf
    <3>3. device[y].state = "deleted"
      BY <1>4, <2>1, <3>2
    <3> QED
      BY <3>1, <3>3, RowFacts DEF DeletedHasNoToken, LiveOf
  <2> QED
    BY <2>1 DEF DeletedHasNoToken, LiveOf
<1>8. ASSUME NEW d \in Calls \ {c}
      PROVE  Spared(d)
  <2>1. call[d].at \in {"checked", "stored"} => token'[call[d].token].state = "live"
    BY <1>1, <1>2, <1>3, RevokedRows, OthersRely DEF SharingToken
  <2>2. call[d].at \in {"checked", "stored"} => call[d].device # x
    BY <1>2, <1>3, OthersRely DEF SharingToken, LiveOf
  <2>3. call[d].at \in {"checked", "stored"} \cup HoldingDevice =>
          device'[call[d].device].state = "active"
    BY <1>3, <1>4, <2>2, OthersRely DEF Active
  <2>4. \A t \in call[d].rows : token'[t].expires = token[t].expires
    BY <1>1, <1>2, RevokedRows, OthersRely
  <2>5. \A t \in Tokens : token'[t].state = "live" /\ token'[t].device = call[d].device =>
             token[t].state = "live" /\ token[t].device = call[d].device
    BY <1>1, <1>2, RevokedRows
  <2> QED
    BY <1>1, <2>1, <2>3, <2>4, <2>5 DEF Spared
<1>9. KeepsTokens
  BY <1>1, <1>2, RevokedRows DEF KeepsTokens, Issued
<1> QED
  BY <1>1, <1>5, <1>6, <1>7, <1>8, <1>9, EndOfOne DEF Spares

\* What rotation does to each token: those it cut, the new one and the rest.
LEMMA RotatedRows ==
  ASSUME IInv, NEW c \in Calls, call[c].at = "cutting", FinishRotate(c)
  PROVE  LET m == Min(Unissued) IN
         /\ token' \in [Tokens -> [state : {"none", "live", "revoked"},
                                   device : Devices \cup {None}, expires : Times, used : 0..MaxTime]]
         /\ m \in Tokens /\ token[m].state = "none" /\ m \notin call[c].rows
         /\ token'[m].state = "live" /\ token'[m].device = call[c].device
         /\ \A t \in Tokens \ {m} :
              /\ token'[t].state = token[t].state /\ token'[t].device = token[t].device
              /\ t \in call[c].rows => token'[t].expires < token[t].expires
              /\ t \notin call[c].rows => token'[t] = token[t]
<1> DEFINE m == Min(Unissued)
           R == call[c].rows
           deadline == call[c].since + Overlap
           NewRow == [state |-> "live", device |-> call[c].device, expires |-> call[c].value, used |-> 0]
<1>1. /\ token' = [t \in Tokens |-> IF t \in R THEN [token[t] EXCEPT !.expires = deadline]
                                    ELSE IF t = m THEN NewRow ELSE token[t]]
      /\ token \in [Tokens -> [state : {"none", "live", "revoked"},
                               device : Devices \cup {None}, expires : Times, used : 0..MaxTime]]
  BY RowFacts DEF FinishRotate, Deadline, NewToken
<1>2. m \in Tokens /\ token[m].state = "none"
  BY UnissuedToken DEF FinishRotate
<1>3. m \notin R
  BY <1>2, OthersRely DEF Issued
<1>4. deadline \in Times /\ \A t \in R : deadline < token[t].expires
  BY CallFacts, Bounds DEF CallType, Fits, Locks, Times, Never
<1>5. /\ call[c].device \in Devices /\ call[c].value \in Times
  BY CallFacts, Bounds DEF CallType, Fits, Remembers, OfDevice, HoldingDevice, LockingTokens,
    Times, Never
<1>6. NewRow \in [state : {"none", "live", "revoked"},
                  device : Devices \cup {None}, expires : Times, used : 0..MaxTime]
  BY <1>5, Bounds
<1> HIDE DEF m, R, deadline
<1>7. ASSUME NEW t \in Tokens
      PROVE  /\ token'[t] \in [state : {"none", "live", "revoked"},
                               device : Devices \cup {None}, expires : Times, used : 0..MaxTime]
             /\ t # m => token'[t].state = token[t].state /\ token'[t].device = token[t].device
             /\ t \in R => token'[t].expires < token[t].expires
             /\ t \notin R /\ t # m => token'[t] = token[t]
  <2>1. token[t] \in [state : {"none", "live", "revoked"},
                      device : Devices \cup {None}, expires : Times, used : 0..MaxTime]
    BY <1>1
  <2>2. CASE t \in R
    <3>1. token'[t] = [token[t] EXCEPT !.expires = deadline]
      BY <1>1, <2>2
    <3> QED
      BY <1>4, <2>1, <2>2, <3>1
  <2>3. CASE t \notin R /\ t = m
    BY <1>1, <1>6, <2>3
  <2>4. CASE t \notin R /\ t # m
    BY <1>1, <2>1, <2>4
  <2> QED
    BY <2>2, <2>3, <2>4
<1>8. token'[m].state = "live" /\ token'[m].device = call[c].device
  BY <1>1, <1>2, <1>3
<1>9. token' \in [Tokens -> [state : {"none", "live", "revoked"},
                             device : Devices \cup {None}, expires : Times, used : 0..MaxTime]]
  BY <1>1, <1>7
<1> QED
  BY <1>2, <1>3, <1>7, <1>8, <1>9 DEF m, R

\* Rotation shares its device, so that nobody deletes it, and locks what it cuts.
LEMMA FinishRotateKeeps == ASSUME IInv, NEW c \in Calls, FinishRotate(c) PROVE IInv'
<1> DEFINE m == Min(Unissued)
           R == call[c].rows
           x == call[c].device
<1>1. /\ device' = device /\ inventory' = inventory
      /\ now' = now /\ End(c) /\ call[c].at = "cutting"
  BY DEF FinishRotate, At
<1>2. /\ token' \in [Tokens -> [state : {"none", "live", "revoked"},
                                device : Devices \cup {None}, expires : Times, used : 0..MaxTime]]
      /\ m \in Tokens /\ token[m].state = "none" /\ m \notin R
      /\ token'[m].state = "live" /\ token'[m].device = x
      /\ \A t \in Tokens \ {m} :
           /\ token'[t].state = token[t].state /\ token'[t].device = token[t].device
           /\ t \in R => token'[t].expires < token[t].expires
           /\ t \notin R => token'[t] = token[t]
  BY <1>1, RotatedRows
<1>3. x \in Devices /\ device[x].state = "active"
  BY <1>1, OthersRely DEF HoldingDevice, LockingTokens, Active
<1>4. \A d \in Calls \ {c} : /\ call[d].at \in Changing => call[d].device # x
                             /\ call[d].rows \cap R = {}
  BY <1>1, CallFacts DEF Excludes, HoldingDevice, LockingTokens
<1> HIDE DEF m, R, x
<1>5. TablesOK'
  BY <1>1, <1>2, RowFacts DEF TablesOK
<1>6. IssuedHasDevice'
  BY <1>2, <1>3, RowFacts DEF IssuedHasDevice, Issued
<1>7. DeletedHasNoToken'
  BY <1>1, <1>2, <1>3, RowFacts DEF DeletedHasNoToken, LiveOf
<1>8. ASSUME NEW d \in Calls \ {c}
      PROVE  Spared(d)
  <2>1. call[d].at \in {"checked", "stored"} => token'[call[d].token].state = "live"
    BY <1>2, OthersRely
  <2>2. call[d].at \in {"checked", "stored"} \cup HoldingDevice =>
          device'[call[d].device].state = "active"
    BY <1>1, OthersRely DEF Active
  <2>3. \A t \in call[d].rows : token'[t].expires = token[t].expires
    BY <1>2, <1>4, OthersRely DEF Issued
  <2>4. call[d].at = "revoking" =>
          \A t \in Tokens : token'[t].state = "live" /\ token'[t].device = call[d].device =>
             token[t].state = "live" /\ token[t].device = call[d].device
    BY <1>2, <1>4 DEF Changing
  <2> QED
    BY <1>1, <2>1, <2>2, <2>3, <2>4 DEF Spared
<1>9. KeepsTokens
  BY <1>2 DEF KeepsTokens, Issued
<1> QED
  BY <1>1, <1>5, <1>6, <1>7, <1>8, <1>9, EndOfOne DEF Spares

\* A snapshot is stored under the lock of its inventory row.
LEMMA FinishInventoryKeeps == ASSUME IInv, NEW c \in Calls, FinishInventory(c) PROVE IInv'
<1> DEFINE x == call[c].device
<1>1. /\ inventory' = [inventory EXCEPT ![x] = call[c].value]
      /\ token' = token
      /\ now' = now /\ End(c) /\ call[c].at = "stored"
      /\ \/ device' = device
         \/ device' = [device EXCEPT ![x].seen = call[c].since]
  BY DEF FinishInventory, At
<1>2. x \in Devices /\ call[c].value \in 0..(MaxTime + Ahead) /\ call[c].since \in 0..MaxTime
  BY <1>1, OthersRely, CallFacts DEF CallType
<1>3. \A d \in Calls \ {c} : call[d].at = "stored" => call[d].device # x
  BY <1>1, CallFacts DEF Excludes
<1> HIDE DEF x
<1>4. device' \in [Devices -> [state : {"none", "active", "deleted"}, seen : 0..MaxTime]]
      /\ \A y \in Devices : device'[y].state = device[y].state
  <2>1. CASE device' = device
    BY <2>1, RowFacts
  <2>2. CASE device' = [device EXCEPT ![x].seen = call[c].since]
    BY <2>2, <1>2, RowFacts
  <2> QED
    BY <1>1, <2>1, <2>2
<1>5. /\ inventory' \in [Devices -> (0..(MaxTime + Ahead)) \cup {None}]
      /\ \A y \in Devices : y # x => inventory'[y] = inventory[y]
  BY <1>1, <1>2, RowFacts
<1>6. TablesOK'
  BY <1>1, <1>4, <1>5, RowFacts DEF TablesOK
<1>7. IssuedHasDevice' /\ DeletedHasNoToken'
  BY <1>1, <1>4, RowFacts DEF IssuedHasDevice, DeletedHasNoToken, Issued, LiveOf
<1>8. ASSUME NEW d \in Calls \ {c}
      PROVE  Spared(d)
  BY <1>1, <1>3, <1>4, <1>5, OthersRely DEF Spared, Active
<1>9. KeepsTokens
  BY <1>1 DEF KeepsTokens, Issued
<1> QED
  BY <1>1, <1>6, <1>7, <1>8, <1>9, EndOfOne DEF Spares

\* The stamp on a token changes nothing that any call has checked.
LEMMA RecordUseKeeps == ASSUME IInv, NEW c \in Calls, RecordUse(c) PROVE IInv'
<1> DEFINE own == token[call[c].token].device
           r == [call[c] EXCEPT !.at = "admitted", !.device = own, !.since = now]
<1>1. /\ token' = [token EXCEPT ![call[c].token].used = call[c].since]
      /\ device' = device /\ inventory' = inventory
      /\ now' = now /\ call[c].at = "activated"
  BY DEF RecordUse, At
<1>2. call' = [call EXCEPT ![c] = Ended] \/ call' = [call EXCEPT ![c] = r]
  BY DEF RecordUse
<1>3. /\ call[c] \in CallType /\ Fits(call[c]) /\ Issued(call[c].token)
      /\ call[c].todo = {} /\ call[c].rows = {}
  BY <1>1, CallFacts DEF Fits, Remembers, AgentStages, LockingTokens
<1>4. /\ token' \in [Tokens -> [state : {"none", "live", "revoked"},
                                device : Devices \cup {None}, expires : Times, used : 0..MaxTime]]
      /\ \A t \in Tokens : /\ token'[t].state = token[t].state
                           /\ token'[t].device = token[t].device
                           /\ token'[t].expires = token[t].expires
  BY <1>1, <1>3, RowFacts DEF CallType, Issued
<1>5. TablesOK'
  BY <1>1, <1>4, RowFacts DEF TablesOK
<1>6. IssuedHasDevice' /\ DeletedHasNoToken'
  BY <1>1, <1>4, RowFacts DEF IssuedHasDevice, DeletedHasNoToken, Issued, LiveOf
<1>7. KeepsTokens
  BY <1>4 DEF KeepsTokens, Issued
<1>8. ASSUME NEW d \in Calls \ {c}
      PROVE  Spared(d)
  BY <1>1, <1>4, OthersRely DEF Spared, Active
<1>9. CASE call' = [call EXCEPT ![c] = Ended]
  BY <1>1, <1>5, <1>6, <1>7, <1>8, <1>9, EndOfOne DEF Spares, End
<1>10. CASE call' = [call EXCEPT ![c] = r]
  <2>1. own \in Devices /\ now \in 0..MaxTime
    BY <1>3, RowFacts DEF IssuedHasDevice, Issued
  <2>2. /\ r.at = "admitted" /\ r.goal = call[c].goal /\ r.device = own
        /\ r.token = call[c].token /\ r.value = call[c].value
        /\ r.todo = {} /\ r.rows = {}
    BY <1>3 DEF CallType
  <2>3. r \in CallType
    BY <1>3, <2>1 DEF CallType, Stages
  <2>4. own = token'[call[c].token].device /\ Issued(call[c].token)'
    <3>1. call'[c].token = call[c].token
      BY <1>10, <1>3, <2>2 DEF IInv, TypeOK
    <3> QED
      BY <1>3, <1>4, <3>1 DEF Issued
  <2> HIDE DEF own, r
  <2>5. call'[c] = r
    BY <1>10 DEF IInv, TypeOK
  <2>6. Fits(call[c])'
    BY <1>1, <1>3, <2>2, <2>4, <2>5 DEF Fits, OwnTokens, Remembers, Locks, Entitled, AgentStages,
      HoldingDevice, Changing, LockingTokens, OfDevice, Issued
  <2>7. \A d \in Calls \ {c} : Excludes(r, call[d]) /\ Excludes(call[d], r)
    BY <2>2, HoldsNothing DEF HoldingDevice, SharingToken, Changing, LockingTokens
  <2> QED
    BY <1>1, <1>5, <1>6, <1>7, <1>8, <1>10, <2>1, <2>3, <2>6, <2>7, StepOfOne DEF Spares
<1> QED
  BY <1>2, <1>9, <1>10
-----------------------------------------------------------------------------
(* Steps of nobody's call.                                                  *)

\* A step that leaves the calls and what they rely on.
LEMMA AwayFromCalls ==
  ASSUME IInv, UNCHANGED <<device, token, inventory, call>>, now' \in 0..MaxTime
  PROVE  IInv'
<1>1. TypeOK'
  BY DEF IInv, TypeOK, TablesOK, OwnTokens
<1>2. IssuedHasDevice' /\ DeletedHasNoToken' /\ LockInv'
  BY DEF IInv, IssuedHasDevice, Issued, DeletedHasNoToken, LiveOf, LockInv, Excludes
<1>3. WriterIsEntitled'
  BY DEF IInv, WriterIsEntitled, Entitled, Active, Newer
<1>4. \A c \in Calls : Remembers(call[c])' /\ Locks(call[c])'
  BY DEF IInv, Remembers, Locks, Issued, Active, LiveOf
<1> QED
  BY <1>1, <1>2, <1>3, <1>4 DEF IInv

LEMMA TickKeeps == ASSUME IInv, Tick PROVE IInv'
<1>1. now' \in 0..MaxTime
  BY RowFacts, Bounds DEF Tick
<1> QED
  BY <1>1, RowFacts, AwayFromCalls DEF Tick, rowVars
-----------------------------------------------------------------------------
(* The theorems.                                                            *)

LEMMA InitInv == Init => IInv
<1> SUFFICES ASSUME Init PROVE IInv
  OBVIOUS
<1>1. PICK d \in Devices, e \in {MaxTime, Never}, second \in BOOLEAN :
        /\ device = [x \in Devices |-> [state |-> IF x = d THEN "active" ELSE "none",
                                        seen |-> 0]]
        /\ token = [t \in Tokens |-> IF t = 1 \/ (t = 2 /\ second) THEN NewToken(d, e)
                                     ELSE [state |-> "none", device |-> None,
                                           expires |-> 0, used |-> 0]]
  BY DEF Init
<1>2. /\ now = 0 /\ inventory = [x \in Devices |-> None]
      /\ call = [c \in Calls |-> Waiting]
  BY DEF Init
<1>3. /\ Waiting.at = "waiting" /\ Waiting.goal = "none" /\ Waiting.todo = {} /\ Waiting.rows = {}
      /\ Waiting \in CallType
  BY Bounds DEF Waiting, CallType, Stages, Never, AgentGoals
<1>4. e \in Times /\ 0 \in Times /\ 0 \in 0..MaxTime
  BY Bounds DEF Times, Never
<1>5. \A t \in Tokens :
        /\ token[t] \in [state : {"none", "live", "revoked"}, device : Devices \cup {None},
                         expires : Times, used : 0..MaxTime]
        /\ token[t].state # "none" => token[t].device = d
  BY <1>1, <1>4 DEF NewToken
<1>6. TablesOK
  BY <1>1, <1>2, <1>4, <1>5 DEF TablesOK
<1>7. \A c \in Calls : call[c] = Waiting
  BY <1>2
<1>8. TypeOK
  BY <1>2, <1>3, <1>4, <1>6, <1>7 DEF TypeOK, OwnTokens
<1>9. IssuedHasDevice /\ DeletedHasNoToken
  BY <1>1, <1>5 DEF IssuedHasDevice, DeletedHasNoToken, Issued
<1>10. WriterIsEntitled /\ LockInv
  BY <1>3, <1>7 DEF WriterIsEntitled, Entitled, LockInv, Excludes, HoldingDevice, Changing,
    LockingTokens, SharingToken
<1>11. \A c \in Calls : Remembers(call[c]) /\ Locks(call[c])
  BY <1>3, <1>7 DEF Remembers, Locks, AgentStages, OfDevice, HoldingDevice, Changing, LockingTokens
<1> QED
  BY <1>8, <1>9, <1>10, <1>11 DEF IInv

LEMMA ConsoleKeeps == ASSUME IInv, NEW c \in Calls, ConsoleStep(c) PROVE IInv'
<1>1. CASE \E d \in Devices, e \in Expiries : Enroll(c, d, e)
  BY <1>1, EnrollKeeps
<1>2. CASE \E d \in Devices, e \in Expiries : RequestRotate(c, d, e)
  <2>1. Expiries \subseteq Times
    BY RowFacts, Bounds DEF Expiries, Times, Never
  <2> QED
    BY <1>2, <2>1, RequestKeeps DEF RequestRotate
<1>3. CASE \E d \in Devices : RequestUpdate(c, d) \/ RequestDelete(c, d) \/ RequestDisconnect(c, d)
  <2>1. 0 \in Times /\ Never \in Times
    BY Bounds DEF Times, Never
  <2> QED
    BY <1>3, <2>1, RequestKeeps DEF RequestUpdate, RequestDelete, RequestDisconnect, RequestRotate
<1>4. CASE \E d \in Devices, t \in Tokens \ Unissued : RequestRevoke(c, d, t)
  <2>1. 0 \in Times /\ \A t \in Tokens \ Unissued : Issued(t)
    BY Bounds DEF Times, Never, Issued, Unissued
  <2> QED
    BY <1>4, <2>1, RequestKeeps DEF RequestRevoke
<1>5. CASE UpdateDevice(c) \/ RevokeToken(c)
  BY <1>5, UpdateDeviceKeeps, RevokeTokenKeeps
<1>6. CASE LockForRotate(c) \/ SelectOlder(c) \/ CutToken(c) \/ FinishRotate(c)
  BY <1>6, LockForRotateKeeps, SelectOlderKeeps, CutTokenKeeps, FinishRotateKeeps
<1>7. CASE MarkDeleted(c) \/ SelectLive(c) \/ LockRevoked(c) \/ FinishDelete(c)
  BY <1>7, MarkDeletedKeeps, SelectLiveKeeps, LockRevokedKeeps, FinishDeleteKeeps
<1> QED
  BY <1>1, <1>2, <1>3, <1>4, <1>5, <1>6, <1>7 DEF ConsoleStep

LEMMA AgentKeeps == ASSUME IInv, NEW c \in Calls, AgentStep(c) PROVE IInv'
<1>1. CASE TurnAway(c)
  BY <1>1, TurnAwayKeeps
<1>2. CASE \E t \in Tokens \ Unissued :
             \/ PresentToken(c, "metrics", t, None, 0)
             \/ \E d \in Devices, v \in 0..(MaxTime + Ahead) : PresentToken(c, "inventory", t, d, v)
  <2>1. 0 \in 0..(MaxTime + Ahead)
    BY Bounds
  <2> QED
    BY <1>2, <2>1, PresentTokenKeeps DEF AgentGoals
<1>3. CASE FindToken(c) \/ ActivateIdentity(c) \/ RecordUse(c)
  BY <1>3, FindTokenKeeps, ActivateIdentityKeeps, RecordUseKeeps
<1>4. CASE IngestBatch(c) \/ CheckWriter(c) \/ StoreInventory(c) \/ FinishInventory(c)
  BY <1>4, IngestBatchKeeps, CheckWriterKeeps, StoreInventoryKeeps, FinishInventoryKeeps
<1> QED
  BY <1>1, <1>2, <1>3, <1>4 DEF AgentStep

LEMMA StepInv == IInv /\ [Next]_vars => IInv'
<1> SUFFICES ASSUME IInv, [Next]_vars PROVE IInv'
  OBVIOUS
<1>1. CASE UNCHANGED vars
  BY <1>1, RowFacts, AwayFromCalls DEF vars, rowVars
<1>2. CASE \E c \in Calls : ConsoleStep(c) \/ AgentStep(c) \/ BreakDeadlock(c) \/ Fail(c)
  BY <1>2, ConsoleKeeps, AgentKeeps, BreakDeadlockKeeps, FailKeeps
<1>3. CASE Tick
  BY <1>3, TickKeeps
<1> QED
  BY <1>1, <1>2, <1>3 DEF Next

\* The inductive invariant holds in every reachable state: row locks are held as
\* the transactions of devices/postgres.py take them, whatever calls interleave.
THEOREM Invariance == Spec => []IInv
  BY InitInv, StepInv, PTL DEF Spec

\* Every variable keeps its type, and the rows a call has still to change or has
\* locked are tokens of the device it changes (rotate_token, delete_device).
THEOREM TypeCorrect == Spec => []TypeOK
<1>1. IInv => TypeOK
  BY DEF IInv
<1> QED
  BY <1>1, Invariance, PTL

\* A deleted device has no live token, however rotations, revocations and
\* deletions of it overlap (rotate_token and delete_device).
THEOREM DeletionRevokesAll == Spec => []DeletedHasNoToken
<1>1. IInv => DeletedHasNoToken
  BY DEF IInv
<1> QED
  BY <1>1, Invariance, PTL

\* What write_inventory read under its locks is true when it commits.
THEOREM WritersEntitled == Spec => []WriterIsEntitled
<1>1. IInv => WriterIsEntitled
  BY DEF IInv
<1> QED
  BY <1>1, Invariance, PTL
-----------------------------------------------------------------------------
(* Credentials only shrink.                                                 *)

Shrinks == \A t \in Tokens : token[t].state # "none" =>
             /\ token'[t].expires <= token[t].expires
             /\ token[t].state = "revoked" => token'[t].state = "revoked"

LEMMA TokenKept == ASSUME IInv, token' = token PROVE Shrinks
  BY RowFacts, Bounds DEF Shrinks, Times, Never

\* Each of the steps that write tokens lets every issued one only shrink.
LEMMA TokenWritesShrink ==
  ASSUME IInv, NEW c \in Calls,
         \/ \E d \in Devices, e \in Expiries : Enroll(c, d, e)
         \/ RevokeToken(c) \/ FinishRotate(c) \/ FinishDelete(c) \/ RecordUse(c)
  PROVE  Shrinks
<1>0. \A t \in Tokens : token[t].expires \in Nat /\ token[t].expires <= token[t].expires
  BY RowFacts, Bounds DEF Times, Never
<1>1. CASE \E d \in Devices, e \in Expiries : Enroll(c, d, e)
  <2>1. PICK d \in Devices, e \in Expiries : Enroll(c, d, e)
    BY <1>1
  <2>2. CASE device[d].state # "none"
    BY <2>1, <2>2, TokenKept DEF Enroll
  <2>3. CASE device[d].state = "none"
    <3>1. Unissued # {} /\ token' = [token EXCEPT ![Min(Unissued)] = NewToken(d, e)]
      BY <2>1, <2>3 DEF Enroll
    <3>2. Min(Unissued) \in Tokens /\ token[Min(Unissued)].state = "none"
      BY <3>1, UnissuedToken
    <3>3. \A t \in Tokens : token[t].state # "none" => token'[t] = token[t]
      BY <3>1, <3>2, RowFacts
    <3> QED
      BY <1>0, <3>3 DEF Shrinks
  <2> QED
    BY <2>2, <2>3
<1>2. CASE RevokeToken(c) \/ FinishDelete(c)
  <2> DEFINE T == IF RevokeToken(c) THEN {call[c].token} \cap LiveOf(call[c].device)
                                    ELSE call[c].rows
  <2>1. token' = Revoked(T)
    BY <1>2 DEF RevokeToken, FinishDelete
  <2>2. T \in SUBSET Tokens /\ \A t \in T : token[t].state # "none"
    BY OthersRely DEF LiveOf, Issued
  <2>3. \A t \in Tokens : token[t].state = "revoked" =>
          token'[t].state \in {"none", "live", "revoked"} /\ token'[t].state # "none" /\ token'[t].state # "live"
    BY <2>1, <2>2, RevokedRows
  <2> QED
    BY <1>0, <2>1, <2>2, <2>3, RevokedRows DEF Shrinks
<1>3. CASE FinishRotate(c)
  <2>1. call[c].at = "cutting"
    BY <1>3 DEF FinishRotate, At
  <2>2. \A t \in Tokens : token[t].state # "none" =>
          /\ token'[t].state = token[t].state
          /\ token'[t].expires < token[t].expires \/ token'[t].expires = token[t].expires
    BY <1>3, <2>1, RotatedRows
  <2>3. \A t \in Tokens : token'[t].expires \in Nat
    BY <1>3, <2>1, RotatedRows, Bounds DEF Times, Never
  <2> QED
    BY <1>0, <2>2, <2>3 DEF Shrinks
<1>4. CASE RecordUse(c)
  <2>1. token' = [token EXCEPT ![call[c].token].used = call[c].since]
    BY <1>4 DEF RecordUse
  <2>2. \A t \in Tokens : token'[t].state = token[t].state /\ token'[t].expires = token[t].expires
    BY <2>1, RowFacts
  <2> QED
    BY <1>0, <2>2 DEF Shrinks
<1> QED
  BY <1>1, <1>2, <1>3, <1>4

LEMMA StepShrinks == IInv /\ [Next]_vars => Shrinks
<1> SUFFICES ASSUME IInv, [Next]_vars PROVE Shrinks
  OBVIOUS
<1>1. CASE UNCHANGED vars
  BY <1>1, TokenKept DEF vars, rowVars
<1>2. ASSUME NEW c \in Calls, ConsoleStep(c)
      PROVE  Shrinks
  <2>1. token' = token \/ (\E d \in Devices, e \in Expiries : Enroll(c, d, e))
          \/ RevokeToken(c) \/ FinishRotate(c) \/ FinishDelete(c)
    BY <1>2 DEF ConsoleStep, RequestRotate, RequestUpdate, RequestDelete, RequestDisconnect,
      RequestRevoke, Request, UpdateDevice, LockForRotate, SelectOlder, CutToken,
      MarkDeleted, SelectLive, LockRevoked, Scan, LockNext, rowVars
  <2> QED
    BY <2>1, TokenKept, TokenWritesShrink
<1>3. ASSUME NEW c \in Calls, AgentStep(c)
      PROVE  Shrinks
  <2>1. token' = token \/ RecordUse(c)
    BY <1>3 DEF AgentStep, TurnAway, PresentToken, FindToken, ActivateIdentity, IngestBatch,
      CheckWriter, StoreInventory, FinishInventory, rowVars
  <2> QED
    BY <2>1, TokenKept, TokenWritesShrink
<1>4. ASSUME NEW c \in Calls, BreakDeadlock(c) \/ Fail(c)
      PROVE  Shrinks
  BY <1>4, TokenKept DEF BreakDeadlock, Fail, rowVars
<1>5. CASE Tick
  BY <1>5, TokenKept DEF Tick, rowVars
<1> QED
  BY <1>1, <1>2, <1>3, <1>4, <1>5 DEF Next

\* No step gives an issued token a later end or brings a revoked one back
\* (rotate_token, revoke_token, delete_device and their interleavings).
THEOREM TokensShrink == Spec => CredentialsOnlyShrink
<1>1. IInv /\ [Next]_vars =>
        [\A t \in Tokens : token[t].state # "none" =>
           /\ token'[t].expires <= token[t].expires
           /\ token[t].state = "revoked" => token'[t].state = "revoked"]_vars
  BY StepShrinks DEF Shrinks
<1> QED
  BY <1>1, Invariance, PTL DEF Spec, CredentialsOnlyShrink
-----------------------------------------------------------------------------
(* Deadlocks are among requests for one device.                             *)

\* Who waits for another is about the same device: both name a row of it.
LEMMA BlockedConcernsSame ==
  ASSUME IInv, NEW c \in Calls, NEW d \in Blockers(c), Holds(c) # {}
  PROVE  Concerns(call[c]) = Concerns(call[d])
<1> DEFINE k == call[c]
           q == call[d]
<1>1. PICK wanted \in Wants(c), held \in Holds(d) : Conflict(wanted, held)
  BY DEF Blockers
<1>2. d \in Calls /\ Fits(k) /\ Fits(q) /\ k \in CallType /\ q \in CallType
  BY CallFacts DEF Blockers
<1>3. k.at \in {"activated", "checked", "stored", "cutting", "revoking"}
  BY <1>1 DEF Holds, Wants, At
<1>4. ASSUME NEW t, held[1] = "token", held[2] = t
      PROVE  Concerns(q) = token[t].device
  BY <1>2, <1>4 DEF Holds, At, Concerns, Fits, OwnTokens
<1>5. ASSUME held[1] \in {"device", "inventory"}
      PROVE  held[2] = q.device /\ Concerns(q) = q.device
  BY <1>2, <1>5 DEF Holds, At, Concerns, Fits, Remembers
<1>6. CASE k.at = "activated"
  <2>1. wanted[1] = "token" /\ wanted[2] = k.token
    BY <1>1, <1>6 DEF Wants, At
  <2> QED
    BY <1>1, <1>4, <1>6, <2>1 DEF Conflict, Concerns
<1>7. CASE k.at \in {"cutting", "revoking"}
  <2>1. wanted[1] = "token" /\ wanted[2] = k.token /\ k.todo # {}
    BY <1>1, <1>7 DEF Wants, At
  <2>2. token[k.token].device = k.device
    BY <1>2, <1>7, <2>1 DEF Fits, Locks, LockingTokens, NextOf, OwnTokens
  <2> QED
    BY <1>1, <1>4, <1>7, <2>1, <2>2 DEF Conflict, Concerns
<1>8. CASE k.at \in {"checked", "stored"}
  <2>1. wanted[1] \in {"device", "inventory"} /\ wanted[2] = k.device
    BY <1>1, <1>8 DEF Wants, At
  <2>2. token[k.token].device = k.device
    BY <1>2, <1>8 DEF Fits, Remembers
  <2> QED
    BY <1>1, <1>5, <1>8, <2>1, <2>2 DEF Conflict, Concerns
<1> QED
  BY <1>3, <1>6, <1>7, <1>8

\* Every member of a ring blocks another one of it, so it holds a lock: without
\* those who block nobody the others would still wait for one another.
LEMMA MembersBlock ==
  ASSUME NEW S \in SUBSET Calls, Ring(S), NEW c \in S
  PROVE  /\ Wants(c) # {} /\ Holds(c) # {}
         /\ \E d \in S : c \in Blockers(d)
<1>1. Stuck(S) /\ \A R \in SUBSET S : Stuck(R) => R = S
  BY DEF Ring
<1>2. PICK e \in Blockers(c) \cap S : TRUE
  BY <1>1 DEF Stuck
<1>3. Wants(c) # {}
  BY <1>2 DEF Blockers
<1>4. \E d \in S : c \in Blockers(d)
  <2>1. SUFFICES ASSUME \A d \in S : c \notin Blockers(d) PROVE FALSE
    OBVIOUS
  <2>2. e # c
    BY <1>2 DEF Blockers
  <2>3. \A d \in S \ {c} : Blockers(d) \cap (S \ {c}) # {}
    BY <1>1, <2>1 DEF Stuck
  <2>4. Stuck(S \ {c})
    BY <1>2, <2>2, <2>3 DEF Stuck
  <2> QED
    BY <1>1, <2>4
<1>5. Holds(c) # {}
  BY <1>4 DEF Blockers
<1> QED
  BY <1>3, <1>4, <1>5

\* The members of a ring that concern one device are a ring by themselves.
LEMMA RingConcernsOne ==
  ASSUME IInv, NEW S \in SUBSET Calls, Ring(S), NEW c \in S, NEW d \in S
  PROVE  Concerns(call[c]) = Concerns(call[d])
<1> DEFINE R == {x \in S : Concerns(call[x]) = Concerns(call[c])}
<1>1. \A x \in R : Blockers(x) \cap S # {} /\ Holds(x) # {}
  BY MembersBlock DEF Ring, Stuck
<1>2. ASSUME NEW x \in R
      PROVE  Blockers(x) \cap R # {}
  <2>1. PICK y \in Blockers(x) \cap S : TRUE
    BY <1>1
  <2>2. Concerns(call[x]) = Concerns(call[y])
    BY <1>1, <2>1, BlockedConcernsSame
  <2> QED
    BY <2>1, <2>2
<1>3. Stuck(R)
  BY <1>2 DEF Stuck
<1> QED
  BY <1>3 DEF Ring

\* Who waits in a ring without agents is cutting or revoking tokens.
LEMMA ConsoleMember ==
  ASSUME IInv, NEW S \in SUBSET Calls, Ring(S), NEW c \in S, call[c].goal \notin AgentGoals
  PROVE  call[c].at \in LockingTokens /\ call[c].todo # {}
<1>1. call[c].at \notin AgentStages
  BY CallFacts DEF Fits, Remembers
<1>2. Wants(c) # {} /\ Holds(c) # {}
  BY MembersBlock
<1> QED
  BY <1>1, <1>2 DEF Wants, Holds, At, AgentStages, LockingTokens

\* A deletion has its device to itself: no rotation and no other deletion waits
\* with it.
LEMMA NoDeletionInRing ==
  ASSUME IInv, NEW S \in SUBSET Calls, Ring(S), \A c \in S : call[c].goal \notin AgentGoals,
         NEW c \in S
  PROVE  call[c].at = "cutting"
<1>1. \A d \in S : call[d].at \in LockingTokens /\ d \in Calls
  BY ConsoleMember
<1>2. SUFFICES ASSUME call[c].at = "revoking" PROVE FALSE
  BY <1>1 DEF LockingTokens
<1>3. PICK d \in S : c \in Blockers(d)
  BY MembersBlock
<1>4. d # c /\ call[d].at \in HoldingDevice
  BY <1>1, <1>3 DEF Blockers, HoldingDevice
<1>5. call[c].device = call[d].device
  BY <1>1, RingConcernsOne DEF Concerns, LockingTokens
<1> QED
  BY <1>1, <1>2, <1>4, <1>5 DEF IInv, LockInv, Excludes, Changing

\* Every deadlock is among requests for one device, and without an agent's request
\* among rotations, in whatever order an UPDATE comes to its tokens
\* (devices/postgres.py, rotate_token and delete_device).
THEOREM DeadlocksAreLocal == Spec => []RingsAreOfOneDevice
<1>1. IInv => RingsAreOfOneDevice
  BY RingConcernsOne, NoDeletionInRing DEF RingsAreOfOneDevice, At
<1> QED
  BY <1>1, Invariance, PTL
=============================================================================
