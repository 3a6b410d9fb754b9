--------------------------- MODULE Accounts_proofs ---------------------------
(***************************************************************************)
(* Proofs about Accounts: what calls hold and what the tables say of        *)
(* sessions, memberships and reset tokens is inductive, for any users,      *)
(* tenants, passwords, calls, sessions and tokens, and any times.           *)
(*                                                                          *)
(* Every step but the clock's is the step of one call.  It keeps the        *)
(* invariant if the call is then in order (Fits), excludes the others       *)
(* (Excludes), leaves the tables in order (Tables), and changes no row that *)
(* another call relies on (Spares).                                         *)
(***************************************************************************)
EXTENDS Accounts, FiniteSetTheorems, TLAPS

\* What the assumptions on the constants give the arithmetic below.
LEMMA Bounds ==
  /\ IdleTime \in Nat /\ AbsoluteTime \in Nat /\ TokenTime \in Nat /\ LockTime \in Nat
  /\ MaxTime \in Nat /\ MaxFailures \in Nat \ {0}
  /\ None \notin Users /\ None \notin Orgs /\ None \notin Passwords
  /\ None \notin Sessions /\ None \notin Tokens
  BY TimesAssumption, NoneAssumption

\* The lesser of two numbers.
LEMMA MinOfTwo == ASSUME NEW a \in Nat, NEW b \in Nat PROVE Min({a, b}) \in {a, b} /\ Min({a, b}) <= a
<1>1. \E x \in {a, b} : \A y \in {a, b} : x <= y
  BY a <= b \/ b <= a
<1>2. Min({a, b}) = CHOOSE x \in {a, b} : \A y \in {a, b} : x <= y
  BY DEF Min
<1>3. Min({a, b}) \in {a, b} /\ \A y \in {a, b} : Min({a, b}) <= y
  BY <1>1, <1>2
<1> QED
  BY <1>3

\* The tables a call's step may change, and what is true of them.
tableVars == <<account, limit, tenantVars, session, token, mailed, historyVars>>
Tables    == TablesOK /\ AccessNeedsMembership /\ HeirInv /\ UnusedInv /\ MailedInv /\ RedeemedOnce

LEMMA CallFacts ==
  ASSUME IInv, NEW c \in Calls
  PROVE  /\ call[c] \in CallType /\ Fits(call[c])
         /\ \A d \in Calls \ {c} : Excludes(call[c], call[d]) /\ Excludes(call[d], call[c])
  BY DEF IInv, TypeOK
-----------------------------------------------------------------------------
(* What one call's step has to leave to the others.                         *)

\* The tables change so that what call d relies on stays.
Spared(d) ==
  /\ call[d].at \in Admitted =>
       /\ session'[call[d].session].state = session[call[d].session].state
       /\ session'[call[d].session].user = session[call[d].session].user
  /\ call[d].at \in Inserting =>
       /\ session'[call[d].fresh].state = "unused"
       /\ \A s \in call[d].rows : session'[s].state = "live"
       /\ call[d].org \in Orgs /\ call[d].user \in Users =>
            member'[call[d].org][call[d].user] # "none"
  /\ call[d].at = "issuing" => /\ token'[call[d].token].state = "unused"
                               /\ \A t \in call[d].rows : token'[t].state = "pending"
  /\ call[d].at = "delivering" => token'[call[d].token].state # "unused"

Spares(c) == \A d \in Calls \ {c} : Spared(d)

LEMMA OthersFit ==
  ASSUME IInv, NEW d \in Calls, Spared(d), call'[d] = call[d]
  PROVE  Fits(call[d])'
<1>1. Fits(call[d])
  BY CallFacts
<1>2. OnSession(call[d])'
  BY <1>1 DEF Fits, OnSession, Spared
<1>3. OnFresh(call[d])'
  BY <1>1 DEF Fits, OnFresh, Spared
<1>4. OnToken(call[d])'
  BY <1>1 DEF Fits, OnToken, Spared, Pending
<1>5. OnTenant(call[d])'
  BY <1>1 DEF Fits, OnTenant
<1> QED
  BY <1>2, <1>3, <1>4, <1>5 DEF Fits

LEMMA StepOfOne ==
  ASSUME IInv, NEW c \in Calls, NEW r \in CallType, call' = [call EXCEPT ![c] = r],
         Tables', Spares(c), Fits(call[c])',
         \A d \in Calls \ {c} : Excludes(r, call[d]) /\ Excludes(call[d], r)
  PROVE  IInv'
<1>0. call \in [Calls -> CallType]
  BY DEF IInv, TypeOK
<1>1. call' \in [Calls -> CallType] /\ call'[c] = r /\ \A d \in Calls \ {c} : call'[d] = call[d]
  BY <1>0
<1>2. \A d \in Calls : Fits(call[d])'
  BY <1>1, OthersFit DEF Spares
<1>3. \A d, e \in Calls : d # e => Excludes(call'[d], call'[e])
  <2> SUFFICES ASSUME NEW d \in Calls, NEW e \in Calls, d # e
               PROVE  Excludes(call'[d], call'[e])
    OBVIOUS
  <2>1. CASE d = c
    BY <1>1, <2>1
  <2>2. CASE e = c
    BY <1>1, <2>2
  <2>3. CASE d # c /\ e # c
    BY <1>1, <2>3 DEF IInv
  <2> QED
    BY <2>1, <2>2, <2>3
<1>4. (\A d, e \in Calls : d # e => Excludes(call[d], call[e]))'
  BY <1>3 DEF Excludes, TokensOf
<1> QED
  BY <1>1, <1>2, <1>4 DEF IInv, TypeOK, Tables

\* A step that leaves the tables alone.
LEMMA TablesUnchanged ==
  ASSUME IInv, UNCHANGED tableVars, now' \in 0..MaxTime
  PROVE  Tables' /\ \A d \in Calls : Spared(d)
<1>1. UNCHANGED <<account, limit, member, role, custom, session, token, mailed, heirs, redeemed>>
  BY DEF tableVars, tenantVars, historyVars
<1>2. Tables'
  BY <1>1 DEF IInv, TypeOK, Tables, TablesOK, AccessNeedsMembership, HeirInv, UnusedInv, MailedInv,
              RedeemedOnce, Times
<1>3. \A d \in Calls : Spared(d)
  <2> SUFFICES ASSUME NEW d \in Calls PROVE Spared(d)
    OBVIOUS
  <2>1. Fits(call[d])
    BY CallFacts
  <2> QED
    BY <1>1, <2>1 DEF Fits, OnSession, OnFresh, OnToken, Spared, Pending
<1> QED
  BY <1>2, <1>3

\* What it takes to move one call while the tables stay.
LEMMA MoveOfOne ==
  ASSUME IInv, NEW c \in Calls, NEW r \in CallType, call' = [call EXCEPT ![c] = r],
         UNCHANGED <<now, tableVars>>, Fits(r),
         \A d \in Calls \ {c} : Excludes(r, call[d]) /\ Excludes(call[d], r)
  PROVE  IInv'
<1>1. call'[c] = r
  BY DEF IInv, TypeOK
<1>2. Fits(call[c])'
  BY <1>1 DEF Fits, OnSession, OnFresh, OnToken, OnTenant, Pending, tableVars, tenantVars
<1>3. now' \in 0..MaxTime
  BY DEF IInv, TypeOK, TablesOK
<1> QED
  BY <1>2, <1>3, TablesUnchanged, StepOfOne DEF Spares

\* Stages in which a call holds no row, and stages in which nothing is asked of it.
Holding == Inserting \cup Admitted \cup {"issuing", "consuming"}
Quiet   == {"waiting", "credentials", "verified", "member", "counting", "refused", "counted",
            "ended"}

LEMMA HoldsNothing ==
  ASSUME NEW r, r.at \notin Holding, NEW q
  PROVE  Excludes(r, q) /\ Excludes(q, r)
  BY DEF Excludes, Holding, TokensOf

LEMMA QuietFits ==
  ASSUME NEW r, r.at \in Quiet
  PROVE  Fits(r) /\ r.at \notin Holding
  BY DEF Fits, OnSession, OnFresh, OnToken, OnTenant, Quiet, Admitted, Inserting, Holding

\* A call that goes on to a stage in which nothing is asked of it, whatever it did to the tables.
LEMMA QuietStep ==
  ASSUME IInv, NEW c \in Calls, NEW r \in CallType, r.at \in Quiet,
         call' = [call EXCEPT ![c] = r], Tables', Spares(c)
  PROVE  IInv'
<1>1. call'[c] = r
  BY DEF IInv, TypeOK
<1>2. Fits(call[c])'
  BY <1>1 DEF Fits, OnSession, OnFresh, OnToken, OnTenant, Quiet, Admitted, Inserting
<1> QED
  BY <1>2, QuietFits, HoldsNothing, StepOfOne

\* ... while the tables stay.
LEMMA QuietMove ==
  ASSUME IInv, NEW c \in Calls, NEW r \in CallType, r.at \in Quiet,
         call' = [call EXCEPT ![c] = r], UNCHANGED <<now, tableVars>>
  PROVE  IInv'
<1>1. now' \in 0..MaxTime
  BY DEF IInv, TypeOK, TablesOK
<1> QED
  BY <1>1, TablesUnchanged, QuietStep DEF Spares

LEMMA WaitingFacts ==
  /\ Waiting \in CallType /\ Waiting.at = "waiting"
  /\ Ended \in CallType /\ Ended.at = "ended"
<1>1. Waiting \in CallType /\ Waiting.at = "waiting"
  <2>1. 0 \in 0..MaxTime
    BY Bounds
  <2> QED
    BY <2>1 DEF Waiting, CallType, Stages, Goals, Maybe
<1>2. Ended \in CallType /\ Ended.at = "ended"
  BY <1>1 DEF Ended, CallType, Stages
<1> QED
  BY <1>1, <1>2

\* The end of a call, whatever it did to the tables.
LEMMA EndOfOne ==
  ASSUME IInv, NEW c \in Calls, End(c), Tables', Spares(c)
  PROVE  IInv'
  BY WaitingFacts, QuietStep DEF End, Quiet

LEMMA QuietEnd ==
  ASSUME IInv, NEW c \in Calls, End(c), UNCHANGED <<now, tableVars>>
  PROVE  IInv'
  BY WaitingFacts, QuietMove DEF End, Quiet

\* The clock and the tables as types.
LEMMA NowFacts == ASSUME IInv PROVE now \in 0..MaxTime /\ now \in Nat /\ 0 \in 0..MaxTime
  BY Bounds DEF IInv, TypeOK, TablesOK
-----------------------------------------------------------------------------
(* Steps that move a call and leave the tables alone.                       *)

LEMMA StartLoginKeeps ==
  ASSUME IInv, NEW c \in Calls, NEW u \in Users, NEW p \in Passwords, NEW s \in Maybe(Sessions),
         StartLogin(c, u, p, s)
  PROVE  IInv'
<1> DEFINE r == [Waiting EXCEPT !.at = "credentials", !.goal = "login", !.user = u,
                                !.password = p, !.session = s, !.since = now,
                                !.manages = limit[u].blocked > now]
<1>1. (limit[u].blocked > now) \in BOOLEAN
  OBVIOUS
<1>2. r \in CallType /\ r.at = "credentials"
  BY <1>1, NowFacts DEF Waiting, CallType, Stages, Goals, Maybe
<1>3. call' = [call EXCEPT ![c] = r] /\ UNCHANGED <<now, tableVars>>
  BY DEF StartLogin, Start, tableVars
<1> HIDE DEF r
<1> QED
  BY <1>2, <1>3, QuietMove DEF Quiet

LEMMA LimitedKeeps == ASSUME IInv, NEW c \in Calls, Limited(c) PROVE IInv'
  BY QuietEnd DEF Limited, Start, End, tableVars

LEMMA ToQuiet ==
  ASSUME IInv, NEW c \in Calls, NEW stage \in Quiet, To(c, stage), UNCHANGED <<now, tableVars>>
  PROVE  IInv'
<1> DEFINE r == [call[c] EXCEPT !.at = stage]
<1>1. r \in CallType /\ r.at = stage /\ call' = [call EXCEPT ![c] = r]
  BY CallFacts DEF CallType, Stages, Quiet, To, IInv, TypeOK
<1> HIDE DEF r
<1> QED
  BY <1>1, QuietMove

LEMMA ReadCredentialKeeps == ASSUME IInv, NEW c \in Calls, ReadCredential(c) PROVE IInv'
<1>1. UNCHANGED <<now, tableVars>>
  BY DEF ReadCredential, tableVars
<1>2. CASE To(c, "verified")
  BY <1>1, <1>2, ToQuiet DEF Quiet
<1>3. CASE To(c, "refused")
  BY <1>1, <1>3, ToQuiet DEF Quiet
<1> QED
  BY <1>2, <1>3 DEF ReadCredential

LEMMA ListMembershipsKeeps == ASSUME IInv, NEW c \in Calls, ListMemberships(c) PROVE IInv'
<1> DEFINE orgs  == ActiveOrgs(call[c].user)
           org   == IF Cardinality(orgs) = 1 THEN CHOOSE o \in orgs : TRUE ELSE None
           stage == IF orgs = {} THEN "refused" ELSE "member"
           r     == [call[c] EXCEPT !.at = stage, !.org = org]
<1>0. /\ call' = [call EXCEPT ![c].at = stage, ![c].org = org]
      /\ UNCHANGED <<now, tableVars>>
  BY DEF ListMemberships, tableVars
<1>2. orgs \subseteq Orgs
  BY DEF ActiveOrgs
<1>3. org \in Maybe(Orgs)
  <2>1. CASE Cardinality(orgs) = 1
    <3>1. orgs # {}
      BY <2>1, FS_EmptySet
    <3> QED
      BY <1>2, <2>1, <3>1 DEF Maybe
  <2> QED
    BY <2>1 DEF Maybe
<1>4. stage \in Quiet /\ stage \in Stages
  BY DEF Quiet, Stages
<1> HIDE DEF orgs, org, stage
<1>1. call' = [call EXCEPT ![c] = r]
  BY <1>0, CallFacts DEF CallType
<1>5. r \in CallType /\ r.at \in Quiet
  BY <1>3, <1>4, CallFacts DEF CallType
<1> HIDE DEF r
<1> QED
  BY <1>0, <1>1, <1>5, QuietMove

LEMMA OpenSessionKeeps ==
  ASSUME IInv, NEW c \in Calls, NEW s \in Sessions, OpenSession(c, s)
  PROVE  IInv'
<1> DEFINE rows == Revocable(call[c].user, call[c].session)
           r    == [call[c] EXCEPT !.at = "opened", !.fresh = s, !.rows = rows]
<1>1. /\ call' = [call EXCEPT ![c] = r] /\ UNCHANGED <<now, tableVars>>
      /\ Unused(s) /\ (call[c].session # None => FreeSession(c, call[c].session))
      /\ (call[c].org # None => member[call[c].org][call[c].user] = "active")
  BY CallFacts DEF OpenSession, tableVars, CallType
<1>2. rows \subseteq {call[c].session} \cap Sessions /\ \A x \in rows : session[x].state = "live"
  BY DEF Revocable, Visible
<1> HIDE DEF rows
<1>3. r \in CallType
  <2>1. rows \in SUBSET (Sessions \cup Tokens) /\ s \in Maybe(Sessions)
    BY <1>2 DEF Maybe
  <2> QED
    BY <2>1, CallFacts, ZenonT(60) DEF CallType, Stages
<1>4. /\ r.at = "opened" /\ r.fresh = s /\ r.session = call[c].session
      /\ r.org = call[c].org /\ r.user = call[c].user /\ r.rows \subseteq {r.session}
      /\ \A x \in r.rows : x \in Sessions /\ session[x].state = "live"
  BY <1>2, CallFacts DEF CallType
<1> HIDE DEF r
<1>5. Fits(r)
  BY <1>1, <1>4, Bounds
     DEF Fits, OnSession, OnFresh, OnToken, OnTenant, Admitted, Inserting, Unused
<1>6. \A d \in Calls \ {c} : Excludes(r, call[d]) /\ Excludes(call[d], r)
  <2> SUFFICES ASSUME NEW d \in Calls \ {c} PROVE Excludes(r, call[d]) /\ Excludes(call[d], r)
    OBVIOUS
  <2>1. call[d].at \in Inserting \cup Admitted /\ r.session # None => call[d].session # r.session
    BY <1>1, <1>4 DEF FreeSession, HeldSessions, Inserting, Admitted
  <2>2. call[d].fresh # s
    BY <1>1 DEF Unused
  <2> QED
    BY <1>4, <2>1, <2>2 DEF Excludes, TokensOf, Inserting
<1> QED
  BY <1>1, <1>3, <1>5, <1>6, MoveOfOne

LEMMA OpenRefusedKeeps == ASSUME IInv, NEW c \in Calls, OpenRefused(c) PROVE IInv'
  BY QuietEnd DEF OpenRefused, tableVars

\* A session that is presented belongs to a tenant if the request needs one.
LEMMA PresentKeeps ==
  ASSUME IInv, NEW c \in Calls, NEW s \in Sessions,
         NEW goal \in {"context", "logout", "me", "request"}, NEW o \in Maybe(Orgs),
         Present(c, s, goal, o)
  PROVE  IInv'
<1> DEFINE r == [Waiting EXCEPT !.at = "found", !.goal = goal, !.session = s, !.since = now,
                                !.user = session[s].user,
                                !.org = IF goal = "context" THEN o ELSE session[s].org]
<1>0. UNCHANGED <<now, tableVars>>
  BY DEF Present, tableVars
<1>1. CASE call' = [call EXCEPT ![c] = Ended]
  BY <1>0, <1>1, QuietEnd DEF End
<1>2. CASE Valid(s, now, goal = "request") /\ call' = [call EXCEPT ![c] = r]
  <2>1. session[s].user \in Maybe(Users) /\ session[s].org \in Maybe(Orgs)
    BY DEF IInv, TypeOK, TablesOK
  <2>2. r \in CallType
    BY <2>1, NowFacts, ZenonT(60) DEF Waiting, CallType, Stages, Goals, Maybe
  <2>3. r.at = "found" /\ (r.goal = "request" => r.org \in Orgs)
    BY <1>2, <2>1 DEF Valid, Waiting, Maybe
  <2> HIDE DEF r
  <2>4. Fits(r)
    BY <2>3 DEF Fits, OnSession, OnFresh, OnToken, OnTenant, Admitted, Inserting
  <2>5. r.at \notin Holding
    BY <2>3 DEF Holding, Inserting, Admitted
  <2> QED
    BY <1>0, <1>2, <2>2, <2>4, <2>5, HoldsNothing, MoveOfOne
<1> QED
  BY <1>1, <1>2 DEF Present, Start

LEMMA TouchKeeps == ASSUME IInv, NEW c \in Calls, Touch(c) PROVE IInv'
<1> DEFINE r == [call[c] EXCEPT !.at = "touched"]
<1>0. UNCHANGED <<now, tableVars>> /\ FreeSession(c, call[c].session) /\ At(c, "found")
  BY DEF Touch, tableVars
<1>1. CASE End(c)
  BY <1>0, <1>1, QuietEnd
<1>2. CASE call[c].session \in Revocable(call[c].user, call[c].session) /\ To(c, "touched")
  <2>1. /\ r \in CallType /\ r.at = "touched" /\ r.session = call[c].session
        /\ r.user = call[c].user /\ r.org = call[c].org /\ r.goal = call[c].goal
        /\ call' = [call EXCEPT ![c] = r]
    BY <1>2, CallFacts DEF CallType, Stages, To, IInv, TypeOK
  <2> HIDE DEF r
  <2>2. Fits(r)
    BY <1>0, <1>2, <2>1, CallFacts DEF Fits, OnSession, OnFresh, OnToken, OnTenant, Admitted,
       Inserting, Revocable, Visible, At
  <2>3. \A d \in Calls \ {c} : Excludes(r, call[d]) /\ Excludes(call[d], r)
    BY <1>0, <2>1 DEF Excludes, TokensOf, Inserting, Admitted, FreeSession, HeldSessions
  <2> QED
    BY <1>0, <2>1, <2>2, <2>3, MoveOfOne
<1> QED
  BY <1>1, <1>2 DEF Touch

LEMMA SelectContextKeeps ==
  ASSUME IInv, NEW c \in Calls, NEW s \in Sessions, SelectContext(c, s)
  PROVE  IInv'
<1> DEFINE rows == Revocable(call[c].user, call[c].session)
           r    == [call[c] EXCEPT !.at = "switching", !.fresh = s, !.rows = rows]
<1>1. /\ call' = [call EXCEPT ![c] = r] /\ UNCHANGED <<now, tableVars>> /\ At(c, "touched")
      /\ call[c].org \in ActiveOrgs(call[c].user) /\ Unused(s)
  BY CallFacts DEF SelectContext, tableVars, CallType
<1>2. /\ call[c].session \in Sessions /\ session[call[c].session].state = "live"
      /\ session[call[c].session].user = call[c].user
  BY <1>1, CallFacts DEF Fits, OnSession, At, Admitted
<1>3. rows = {call[c].session}
  BY <1>2 DEF Revocable, Visible
<1> HIDE DEF rows
<1>4. r \in CallType
  <2>1. rows \in SUBSET (Sessions \cup Tokens) /\ s \in Maybe(Sessions)
    BY <1>2, <1>3 DEF Maybe
  <2> QED
    BY <2>1, CallFacts, ZenonT(60) DEF CallType, Stages
<1>5. /\ r.at = "switching" /\ r.fresh = s /\ r.session = call[c].session
      /\ r.org = call[c].org /\ r.user = call[c].user /\ r.rows = {r.session}
  BY <1>3, CallFacts DEF CallType
<1> HIDE DEF r
<1>6. Fits(r)
  BY <1>1, <1>2, <1>5
     DEF Fits, OnSession, OnFresh, OnToken, OnTenant, Admitted, Inserting, Unused, ActiveOrgs
<1>7. \A d \in Calls \ {c} : Excludes(r, call[d]) /\ Excludes(call[d], r)
  <2> SUFFICES ASSUME NEW d \in Calls \ {c} PROVE Excludes(r, call[d]) /\ Excludes(call[d], r)
    OBVIOUS
  <2>1. Excludes(call[c], call[d]) /\ Excludes(call[d], call[c])
    BY CallFacts
  <2>2. call[d].fresh # s
    BY <1>1 DEF Unused
  <2> QED
    BY <1>1, <1>5, <2>1, <2>2 DEF Excludes, TokensOf, Inserting, Admitted, At
<1> QED
  BY <1>1, <1>4, <1>6, <1>7, MoveOfOne

\* A handler goes on to a step that administers, with the rows it will change.
LEMMA HandlerMoves ==
  ASSUME IInv, NEW c \in Calls, At(c, "inside"), NEW r \in CallType,
         r.at \in {"revoking", "assigning"}, r.org = call[c].org,
         r.at = "assigning" => r.role \in Roles,
         call' = [call EXCEPT ![c] = r], UNCHANGED <<now, tableVars>>
  PROVE  IInv'
<1>1. Fits(r)
  BY CallFacts DEF Fits, OnSession, OnFresh, OnToken, OnTenant, Admitted, Inserting, At
<1>2. r.at \notin Holding
  BY DEF Holding, Inserting, Admitted
<1> QED
  BY <1>1, <1>2, HoldsNothing, MoveOfOne

LEMMA StartRevokeKeeps ==
  ASSUME IInv, NEW c \in Calls, NEW u \in Users, StartRevoke(c, u)
  PROVE  IInv'
<1> DEFINE rows == {s \in OfMember(call[c].org, u) : session[s].state = "live"}
           r    == [call[c] EXCEPT !.at = "revoking", !.rows = rows]
<1>1. /\ call' = [call EXCEPT ![c] = r] /\ UNCHANGED <<now, tableVars>> /\ At(c, "inside")
  BY CallFacts DEF StartRevoke, StillAllowed, Allowed, tableVars, CallType
<1>2. rows \subseteq Sessions
  BY DEF OfMember
<1> HIDE DEF rows
<1>3. r \in CallType /\ r.at = "revoking" /\ r.org = call[c].org
  BY <1>2, CallFacts, ZenonT(60) DEF CallType, Stages
<1> HIDE DEF r
<1> QED
  BY <1>1, <1>3, HandlerMoves

LEMMA StartAssignKeeps ==
  ASSUME IInv, NEW c \in Calls, NEW u \in Users, NEW x \in Roles, StartAssign(c, u, x)
  PROVE  IInv'
<1> DEFINE r == [call[c] EXCEPT !.at = "assigning", !.user = u, !.role = x]
<1>1. /\ call' = [call EXCEPT ![c] = r] /\ UNCHANGED <<now, tableVars>> /\ At(c, "inside")
  BY CallFacts DEF StartAssign, Allowed, tableVars, CallType
<1>2. r \in CallType /\ r.at = "assigning" /\ r.org = call[c].org /\ r.role = x
  BY CallFacts, ZenonT(60) DEF CallType, Stages, Maybe
<1> HIDE DEF r
<1> QED
  BY <1>1, <1>2, HandlerMoves

LEMMA LeaveKeeps == ASSUME IInv, NEW c \in Calls, Leave(c) PROVE IInv'
  BY QuietEnd DEF Leave, tableVars

LEMMA AbortKeeps == ASSUME IInv, NEW c \in Calls, Abort(c) PROVE IInv'
  BY QuietEnd DEF Abort, tableVars

LEMMA RequestResetKeeps ==
  ASSUME IInv, NEW c \in Calls, NEW u \in Users, NEW t \in Tokens, RequestReset(c, u, t)
  PROVE  IInv'
<1> DEFINE rows == PendingOf(u)
           r    == [Waiting EXCEPT !.at = "issuing", !.goal = "issue", !.user = u, !.token = t,
                                   !.since = now, !.rows = rows]
<1>1. /\ call' = [call EXCEPT ![c] = r] /\ UNCHANGED <<now, tableVars>>
      /\ token[t].state = "unused" /\ \A d \in Calls : call[d].token # t
      /\ \A other \in rows : FreeToken(c, other)
  BY DEF RequestReset, Start, tableVars
<1>2. \A x \in rows : x \in Tokens /\ Pending(x)
  BY DEF PendingOf
<1> HIDE DEF rows
<1>3. r \in CallType
  BY <1>2, NowFacts DEF Waiting, CallType, Stages, Goals, Maybe
<1>4. r.at = "issuing" /\ r.token = t /\ r.rows = rows
  BY DEF Waiting
<1> HIDE DEF r
<1>5. Fits(r)
  BY <1>1, <1>2, <1>4 DEF Fits, OnSession, OnFresh, OnToken, OnTenant, Admitted, Inserting
<1>6. \A d \in Calls \ {c} : Excludes(r, call[d]) /\ Excludes(call[d], r)
  <2> SUFFICES ASSUME NEW d \in Calls \ {c} PROVE Excludes(r, call[d]) /\ Excludes(call[d], r)
    OBVIOUS
  <2>1. TokensOf(call[d]) = HeldTokens(d)
    BY DEF TokensOf, HeldTokens, At
  <2>2. rows \cap TokensOf(call[d]) = {}
    BY <1>1, <2>1 DEF FreeToken
  <2>3. TokensOf(r) = rows
    BY <1>4 DEF TokensOf
  <2> QED
    BY <1>1, <1>4, <2>2, <2>3 DEF Excludes, Inserting, Admitted
<1> QED
  BY <1>1, <1>3, <1>5, <1>6, MoveOfOne

LEMMA StartConfirmKeeps ==
  ASSUME IInv, NEW c \in Calls, NEW t \in Tokens, NEW p \in Passwords, StartConfirm(c, t, p)
  PROVE  IInv'
<1> DEFINE r == [Waiting EXCEPT !.at = "confirming", !.goal = "confirm", !.token = t,
                                !.password = p, !.since = now]
<1>1. call' = [call EXCEPT ![c] = r] /\ UNCHANGED <<now, tableVars>>
  BY DEF StartConfirm, Start, tableVars
<1>2. r \in CallType /\ r.at = "confirming"
  BY NowFacts DEF Waiting, CallType, Stages, Goals, Maybe
<1>3. r.token = t
  BY DEF Waiting
<1> HIDE DEF r
<1>4. Fits(r) /\ r.at \notin Holding
  BY <1>2, <1>3 DEF Fits, OnSession, OnFresh, OnToken, OnTenant, Admitted, Inserting, Holding
<1> QED
  BY <1>1, <1>2, <1>4, HoldsNothing, MoveOfOne

LEMMA LockTokenKeeps == ASSUME IInv, NEW c \in Calls, LockToken(c) PROVE IInv'
<1> DEFINE t == call[c].token
           r == [call[c] EXCEPT !.at = "consuming", !.user = token[t].user]
<1>0. UNCHANGED <<now, tableVars>> /\ FreeToken(c, t) /\ At(c, "confirming")
  BY DEF LockToken, tableVars
<1>1. CASE End(c)
  BY <1>0, <1>1, QuietEnd
<1>2. CASE Pending(t) /\ call' = [call EXCEPT ![c].at = "consuming", ![c].user = token[t].user]
  <2>0. call' = [call EXCEPT ![c] = r]
    BY <1>2, CallFacts DEF CallType
  <2>1. t \in Tokens
    BY <1>0, CallFacts DEF Fits, OnToken, At
  <2>2. token[t].user \in Maybe(Users)
    BY <2>1 DEF IInv, TypeOK, TablesOK
  <2>3. r \in CallType /\ r.at = "consuming" /\ r.token = t
    BY <2>2, CallFacts, ZenonT(60) DEF CallType, Stages
  <2> HIDE DEF r
  <2>4. Fits(r)
    BY <2>1, <2>3 DEF Fits, OnSession, OnFresh, OnToken, OnTenant, Admitted, Inserting
  <2>5. \A d \in Calls \ {c} : Excludes(r, call[d]) /\ Excludes(call[d], r)
    <3> SUFFICES ASSUME NEW d \in Calls \ {c} PROVE Excludes(r, call[d]) /\ Excludes(call[d], r)
      OBVIOUS
    <3>1. TokensOf(call[d]) = HeldTokens(d) /\ TokensOf(r) = {t}
      BY <2>3 DEF TokensOf, HeldTokens, At
    <3>2. t \notin TokensOf(call[d])
      BY <1>0, <3>1 DEF FreeToken
    <3> QED
      BY <2>3, <3>1, <3>2 DEF Excludes, Inserting, Admitted
  <2> QED
    BY <1>0, <2>0, <2>3, <2>4, <2>5, MoveOfOne
<1> QED
  BY <1>1, <1>2 DEF LockToken
-----------------------------------------------------------------------------
(* Steps that change the counters of failures.                              *)

\* A step that changes no table but those of accounts and counters.
LEMMA CountersChange ==
  ASSUME IInv, UNCHANGED <<now, tenantVars, session, token, mailed, historyVars>>,
         TablesOK'
  PROVE  Tables' /\ \A d \in Calls : Spared(d)
<1>1. UNCHANGED <<member, role, session, token, mailed, heirs, redeemed>>
  BY DEF tenantVars, historyVars
<1>2. Tables'
  BY <1>1 DEF IInv, Tables, AccessNeedsMembership, HeirInv, UnusedInv, MailedInv, RedeemedOnce
<1>3. \A d \in Calls : Spared(d)
  <2> SUFFICES ASSUME NEW d \in Calls PROVE Spared(d)
    OBVIOUS
  <2>1. Fits(call[d])
    BY CallFacts
  <2> QED
    BY <1>1, <2>1 DEF Fits, OnSession, OnFresh, OnToken, Spared, Pending
<1> QED
  BY <1>2, <1>3

Limit == [failures : 0..(MaxFailures - 1), until : Times, blocked : Times]

LEMMA CountSuccessKeeps == ASSUME IInv, NEW c \in Calls, CountSuccess(c) PROVE IInv'
<1>1. /\ limit' = [limit EXCEPT ![call[c].user].failures = 0] \/ UNCHANGED limit
      /\ End(c)
      /\ UNCHANGED <<now, account, tenantVars, session, token, mailed, historyVars>>
  BY DEF CountSuccess
<1>2. 0 \in 0..(MaxFailures - 1)
  BY Bounds
<1>3. limit' \in [Users -> Limit]
  <2>1. limit \in [Users -> Limit]
    BY DEF IInv, TypeOK, TablesOK, Limit
  <2>2. \A x \in Limit : [x EXCEPT !.failures = 0] \in Limit
    BY <1>2 DEF Limit
  <2>3. limit' = [limit EXCEPT ![call[c].user] = [limit[call[c].user] EXCEPT !.failures = 0]]
          \/ UNCHANGED limit
    BY <1>1
  <2> QED
    BY <2>1, <2>2, <2>3
<1>4. TablesOK'
  BY <1>1, <1>3 DEF IInv, TypeOK, TablesOK, tenantVars, historyVars, Times, Limit
<1> QED
  BY <1>1, <1>4, CountersChange, EndOfOne DEF Spares

Account == [exists : BOOLEAN, password : Maybe(Passwords),
            failures : 0..MaxFailures, locked : Times]

LEMMA AfterFailureType ==
  ASSUME NEW a \in Account, NEW t \in 0..MaxTime
  PROVE  AfterFailure(a, t) \in Account
<1>1. /\ 0 \in Times /\ t + LockTime \in Times /\ 1 \in 0..MaxFailures
  BY Bounds DEF Times
<1>2. Min({a.failures + 1, MaxFailures}) \in 0..MaxFailures
  <2>1. a.failures + 1 \in Nat /\ MaxFailures \in Nat
    BY Bounds DEF Account
  <2>2. Min({MaxFailures, a.failures + 1}) \in Nat /\ Min({MaxFailures, a.failures + 1}) <= MaxFailures
    BY <2>1, MinOfTwo
  <2>3. {MaxFailures, a.failures + 1} = {a.failures + 1, MaxFailures}
    OBVIOUS
  <2> QED
    BY <2>1, <2>2, <2>3
<1> QED
  BY <1>1, <1>2 DEF AfterFailure, Account

LEMMA RecordFailureKeeps == ASSUME IInv, NEW c \in Calls, RecordFailure(c) PROVE IInv'
<1> DEFINE u == call[c].user
           r == [call[c] EXCEPT !.at = "counted"]
<1>1. /\ account' = [account EXCEPT ![u] = IF @.exists THEN AfterFailure(@, call[c].since) ELSE @]
      /\ To(c, "counted")
      /\ UNCHANGED <<now, limit, tenantVars, session, token, mailed, historyVars>>
  BY DEF RecordFailure
<1>2. account \in [Users -> Account] /\ call[c].since \in 0..MaxTime
  BY CallFacts DEF IInv, TypeOK, TablesOK, Account, CallType
<1>3. account' \in [Users -> Account]
  BY <1>1, <1>2, AfterFailureType
<1>4. TablesOK'
  BY <1>1, <1>3 DEF IInv, TypeOK, TablesOK, tenantVars, historyVars, Times, Account
<1>5. r \in CallType /\ r.at \in Quiet /\ call' = [call EXCEPT ![c] = r]
  BY <1>1, CallFacts DEF CallType, Stages, Quiet, To, IInv, TypeOK
<1> HIDE DEF r
<1> QED
  BY <1>1, <1>4, <1>5, CountersChange, QuietStep DEF Spares

LEMMA CountFailureKeeps == ASSUME IInv, NEW c \in Calls, CountFailure(c) PROVE IInv'
<1> DEFINE u == call[c].user
           n == 1 + (IF limit[u].until > now THEN limit[u].failures ELSE 0)
           next == IF n >= MaxFailures
                   THEN [failures |-> 0, until |-> 0, blocked |-> now + LockTime]
                   ELSE [failures |-> n, blocked |-> limit[u].blocked,
                         until |-> IF n = 1 THEN now + LockTime ELSE limit[u].until]
<1>1. /\ limit' = [limit EXCEPT ![u] = next]
      /\ End(c)
      /\ UNCHANGED <<now, account, tenantVars, session, token, mailed, historyVars>>
  BY DEF CountFailure
<1>2. limit \in [Users -> Limit]
  BY DEF IInv, TypeOK, TablesOK, Limit
<1>3. /\ 0 \in Times /\ now + LockTime \in Times /\ 0 \in 0..(MaxFailures - 1)
  BY Bounds, NowFacts DEF Times
<1>4. u \in Users => next \in Limit
  <2> SUFFICES ASSUME u \in Users PROVE next \in Limit
    OBVIOUS
  <2>1. limit[u] \in Limit
    BY <1>2
  <2>2. CASE n >= MaxFailures
    BY <1>3, <2>2 DEF Limit
  <2>3. CASE ~(n >= MaxFailures)
    <3>1. n \in 0..(MaxFailures - 1)
      BY <2>1, <2>3, Bounds DEF Limit
    <3> HIDE DEF n
    <3> QED
      BY <1>3, <2>1, <2>3, <3>1 DEF Limit
  <2> QED
    BY <2>2, <2>3
<1> HIDE DEF n, next
<1>5. limit' \in [Users -> Limit]
  BY <1>1, <1>2, <1>4
<1>6. TablesOK'
  BY <1>1, <1>5 DEF IInv, TypeOK, TablesOK, tenantVars, historyVars, Times, Limit
<1> QED
  BY <1>1, <1>6, CountersChange, EndOfOne DEF Spares
-----------------------------------------------------------------------------
(* Steps that change sessions.                                              *)

\* What a step of c does to the sessions: it changes rows that no other call
\* holds, uses only the identifier c has taken, and keeps what is over so.
SessionStep(c) ==
  \A s \in Sessions :
    /\ session'[s] # session[s] =>
         \/ session[s].state # "unused" /\ FreeSession(c, s)
         \/ s = call[c].fresh /\ call[c].at \in Inserting
    /\ session'[s].state = "unused" => session'[s] = session[s]
    /\ session'[s].state = "deleted" => session'[s].user = None
    /\ session[s].state \in {"revoked", "deleted"} => session'[s].state \in {"revoked", "deleted"}

LEMMA SessionsSpared ==
  ASSUME IInv, NEW c \in Calls, SessionStep(c), UNCHANGED token, NEW d \in Calls \ {c},
         call[d].at \in Inserting /\ call[d].org \in Orgs /\ call[d].user \in Users =>
           member'[call[d].org][call[d].user] = member[call[d].org][call[d].user]
  PROVE  Spared(d)
<1>1. Fits(call[d]) /\ Fits(call[c]) /\ Excludes(call[c], call[d]) /\ call[d] \in CallType
  BY CallFacts
<1>2. ASSUME call[d].at \in Admitted \cup Inserting, NEW s \in Sessions, s = call[d].session,
             session[s].state = "live"
      PROVE  session'[s] = session[s]
  <2>1. s \in HeldSessions(d)
    BY <1>2 DEF HeldSessions, Admitted, Inserting
  <2>2. ~FreeSession(c, s)
    BY <2>1 DEF FreeSession
  <2>3. s = call[c].fresh /\ call[c].at \in Inserting => session[s].state = "unused"
    BY <1>1 DEF Fits, OnFresh
  <2> QED
    BY <1>2, <2>2, <2>3 DEF SessionStep
<1>3. call[d].at \in Inserting => session'[call[d].fresh] = session[call[d].fresh]
  <2> SUFFICES ASSUME call[d].at \in Inserting
               PROVE  session'[call[d].fresh] = session[call[d].fresh]
    OBVIOUS
  <2>1. call[d].fresh \in Sessions /\ session[call[d].fresh].state = "unused"
    BY <1>1 DEF Fits, OnFresh
  <2>2. call[c].at \in Inserting => call[d].fresh # call[c].fresh
    BY <1>1 DEF Excludes
  <2> QED
    BY <2>1, <2>2 DEF SessionStep
<1>4. call[d].at \in Admitted => session'[call[d].session] = session[call[d].session]
  BY <1>1, <1>2 DEF Fits, OnSession
<1>5. call[d].at \in Inserting => \A s \in call[d].rows : session'[s] = session[s]
  BY <1>1, <1>2 DEF Fits, OnFresh
<1>6. call[d].at \in Inserting =>
        /\ session'[call[d].fresh].state = "unused"
        /\ \A s \in call[d].rows : session'[s].state = "live"
        /\ call[d].org \in Orgs /\ call[d].user \in Users =>
             member'[call[d].org][call[d].user] # "none"
  BY <1>1, <1>3, <1>5 DEF Fits, OnFresh
<1>7. call[d].at = "issuing" => /\ token'[call[d].token].state = "unused"
                                /\ \A t \in call[d].rows : token'[t].state = "pending"
  BY <1>1 DEF Fits, OnToken, Pending
<1>8. call[d].at = "delivering" => token'[call[d].token].state # "unused"
  BY <1>1 DEF Fits, OnToken
<1> QED
  BY <1>4, <1>6, <1>7, <1>8 DEF Spared

LEMMA SessionsChange ==
  ASSUME IInv, NEW c \in Calls, SessionStep(c), TablesOK', HeirInv',
         UNCHANGED <<member, role, token, mailed, redeemed>>,
         \A s \in Sessions :
           \/ session'[s].user = session[s].user /\ session'[s].org = session[s].org
           \/ session'[s].org \in Orgs /\ session'[s].user \in Users =>
                member[session'[s].org][session'[s].user] # "none"
  PROVE  Tables' /\ Spares(c)
<1>1. Spares(c)
  BY SessionsSpared DEF Spares
<1>2. AccessNeedsMembership'
  <2> SUFFICES ASSUME NEW o \in Orgs, NEW u \in Users, member[o][u] = "none"
               PROVE  /\ role[o][u] = {}
                      /\ \A s \in Sessions : session'[s].user = u /\ session'[s].org = o =>
                           session'[s].state = "deleted"
    BY DEF AccessNeedsMembership
  <2>1. role[o][u] = {}
    BY DEF IInv, AccessNeedsMembership
  <2>2. ASSUME NEW s \in Sessions, session'[s].user = u, session'[s].org = o
        PROVE  session'[s].state = "deleted"
    <3>1. session[s].user = u /\ session[s].org = o
      BY <2>2
    <3>2. session[s].state = "deleted" /\ session[s].user = u
      BY <3>1 DEF IInv, AccessNeedsMembership
    <3>3. session[s].state = "deleted" => session[s].user = None
      BY DEF IInv, UnusedInv
    <3> QED
      BY <3>2, <3>3, Bounds
  <2> QED
    BY <2>1, <2>2
<1>3. UnusedInv'
  BY DEF IInv, UnusedInv, SessionStep
<1>4. MailedInv' /\ RedeemedOnce'
  BY DEF IInv, MailedInv, RedeemedOnce
<1> QED
  BY <1>1, <1>2, <1>3, <1>4 DEF Tables

SessionType == [state : {"unused", "live", "revoked", "deleted"},
                user : Maybe(Users), org : Maybe(Orgs),
                created : 0..MaxTime, seen : 0..MaxTime, expires : Times]

LEMMA SessionFacts == ASSUME IInv PROVE session \in [Sessions -> SessionType]
  BY DEF IInv, TypeOK, TablesOK, SessionType

\* What revoking does to a row, and to the rows of a set.
RevokedRow(x) == [x EXCEPT !.state = "revoked"]

LEMMA RevokedRowFacts ==
  ASSUME NEW x \in SessionType
  PROVE  /\ RevokedRow(x) \in SessionType /\ RevokedRow(x).state = "revoked"
         /\ RevokedRow(x).user = x.user /\ RevokedRow(x).org = x.org
  BY DEF SessionType, RevokedRow

LEMMA RevokedFacts ==
  ASSUME NEW S
  PROVE  /\ Revoked(S) = [s \in Sessions |-> Revoked(S)[s]]
         /\ \A s \in Sessions : Revoked(S)[s] = IF s \in S THEN RevokedRow(session[s]) ELSE session[s]
  BY DEF Revoked, RevokedRow

\* The new session of a call, and what it replaces, row by row, and what follows from it.
Opened(c) ==
  /\ session' = [s \in Sessions |-> session'[s]]
  /\ \A s \in Sessions :
       session'[s] = IF s = call[c].fresh
                       THEN NewSession(call[c].user, call[c].org, call[c].since)
                       ELSE IF s \in call[c].rows THEN RevokedRow(session[s]) ELSE session[s]

Replaced(c) ==
  /\ session' \in [Sessions -> SessionType]
  /\ SessionStep(c)
  /\ \A s \in Sessions :
       \/ session'[s].user = session[s].user /\ session'[s].org = session[s].org
       \/ session'[s].org \in Orgs /\ session'[s].user \in Users =>
            member[session'[s].org][session'[s].user] # "none"
  /\ \A s \in call[c].rows : session'[s].state = "revoked"

LEMMA SessionOpened ==
  ASSUME IInv, NEW c \in Calls, call[c].at \in Inserting,
         session' = [Revoked(call[c].rows) EXCEPT
                       ![call[c].fresh] = NewSession(call[c].user, call[c].org, call[c].since)]
  PROVE  Opened(c)
<1> DEFINE new == NewSession(call[c].user, call[c].org, call[c].since)
<1>1. call[c].fresh \in Sessions
  BY CallFacts DEF Fits, OnFresh
<1> HIDE DEF new
<1> QED
  BY <1>1, RevokedFacts DEF Opened, new

LEMMA SessionReplaced ==
  ASSUME IInv, NEW c \in Calls, call[c].at \in Inserting, Opened(c)
  PROVE  Replaced(c)
<1> DEFINE r == call[c]
           new == NewSession(r.user, r.org, r.since)
<1>1. /\ r \in CallType /\ Fits(r)
      /\ \A d \in Calls \ {c} : Excludes(r, call[d]) /\ Excludes(call[d], r)
  BY CallFacts
<1>2. session \in [Sessions -> SessionType]
  BY SessionFacts
<1>3. new \in SessionType /\ new.state = "live" /\ new.user = r.user /\ new.org = r.org
  <2>1. r.since \in 0..MaxTime /\ r.since + IdleTime \in Times
    BY <1>1, Bounds DEF CallType, Times
  <2> QED
    BY <1>1, <2>1 DEF NewSession, CallType, SessionType
<1>4. /\ r.fresh \in Sessions /\ session[r.fresh].state = "unused"
      /\ r.org \in Orgs /\ r.user \in Users => member[r.org][r.user] # "none"
      /\ r.rows \subseteq {r.session}
      /\ \A s \in r.rows : s \in Sessions /\ session[s].state = "live"
  BY <1>1 DEF Fits, OnFresh
<1> HIDE DEF new
<1>5. \A s \in Sessions :
        session'[s] = IF s = r.fresh THEN new
                      ELSE IF s \in r.rows THEN RevokedRow(session[s]) ELSE session[s]
  BY DEF Opened, new
<1>6. \A s \in Sessions :
        /\ session[s] \in SessionType
        /\ RevokedRow(session[s]) \in SessionType /\ RevokedRow(session[s]).state = "revoked"
        /\ RevokedRow(session[s]).user = session[s].user /\ RevokedRow(session[s]).org = session[s].org
  BY <1>2, RevokedRowFacts
<1>7. session' \in [Sessions -> SessionType]
  <2>1. \A s \in Sessions : session'[s] \in SessionType
    BY <1>3, <1>5, <1>6
  <2>2. session' = [s \in Sessions |-> session'[s]]
    BY DEF Opened
  <2> QED
    BY <2>1, <2>2
<1>8. \A s \in r.rows : FreeSession(c, s)
  <2> SUFFICES ASSUME NEW s \in r.rows, NEW d \in Calls \ {c} PROVE s \notin HeldSessions(d)
    BY DEF FreeSession
  <2>1. s = r.session /\ s # None
    BY <1>4, Bounds
  <2>2. call[d].at \in Admitted \cup Inserting => call[d].session # s
    BY <1>1, <2>1 DEF Excludes
  <2> QED
    BY <2>2 DEF HeldSessions, Admitted, Inserting
<1>9. \A s \in Sessions : s \in r.rows => s # r.fresh /\ session'[s] = RevokedRow(session[s])
  BY <1>4, <1>5
<1>10. \A s \in r.rows : /\ session'[s].state = "revoked"
                         /\ session'[s].user = session[s].user /\ session'[s].org = session[s].org
  BY <1>4, <1>6, <1>9
<1>11. SessionStep(c)
  <2> SUFFICES ASSUME NEW s \in Sessions
      PROVE /\ session'[s] # session[s] =>
                 \/ session[s].state # "unused" /\ FreeSession(c, s)
                 \/ s = call[c].fresh /\ call[c].at \in Inserting
            /\ session'[s].state = "unused" => session'[s] = session[s]
            /\ session'[s].state = "deleted" => session'[s].user = None
            /\ session[s].state \in {"revoked", "deleted"} => session'[s].state \in {"revoked", "deleted"}
    BY DEF SessionStep
  <2>1. CASE s = r.fresh
    BY <1>3, <1>4, <1>5, <2>1
  <2>2. CASE s \in r.rows
    BY <1>4, <1>8, <1>10, <2>2
  <2>3. CASE s # r.fresh /\ s \notin r.rows
    BY <1>5, <2>3 DEF IInv, UnusedInv
  <2> QED
    BY <2>1, <2>2, <2>3
<1>12. \A s \in Sessions :
         \/ session'[s].user = session[s].user /\ session'[s].org = session[s].org
         \/ session'[s].org \in Orgs /\ session'[s].user \in Users =>
              member[session'[s].org][session'[s].user] # "none"
  <2> SUFFICES ASSUME NEW s \in Sessions
      PROVE \/ session'[s].user = session[s].user /\ session'[s].org = session[s].org
            \/ session'[s].org \in Orgs /\ session'[s].user \in Users =>
                 member[session'[s].org][session'[s].user] # "none"
    OBVIOUS
  <2>1. CASE s = r.fresh
    BY <1>3, <1>4, <1>5, <2>1
  <2>2. CASE s \in r.rows
    BY <1>10, <2>2
  <2>3. CASE s # r.fresh /\ s \notin r.rows
    BY <1>5, <2>3
  <2> QED
    BY <2>1, <2>2, <2>3
<1> QED
  BY <1>7, <1>10, <1>11, <1>12 DEF Replaced

LEMMA CommitLoginKeeps == ASSUME IInv, NEW c \in Calls, CommitLogin(c) PROVE IInv'
<1> DEFINE u == call[c].user
           r == [Waiting EXCEPT !.at = "counting", !.user = u]
<1>1. /\ call[c].at \in Inserting
      /\ session' = [Revoked(call[c].rows) EXCEPT
                       ![call[c].fresh] = NewSession(call[c].user, call[c].org, call[c].since)]
  BY DEF CommitLogin, At, Inserting
<1>2. account' = [account EXCEPT ![u].failures = 0, ![u].locked = 0]
  BY DEF CommitLogin
<1>3. call' = [call EXCEPT ![c] = r]
  BY DEF CommitLogin
<1>4. UNCHANGED <<now, limit, member, role, custom, token, mailed, heirs, redeemed>>
  BY DEF CommitLogin, tenantVars, historyVars
<1>5. Replaced(c)
  BY <1>1, SessionOpened, SessionReplaced
<1>6. r \in CallType /\ r.at \in Quiet
  BY WaitingFacts, CallFacts DEF Waiting, CallType, Stages, Quiet
<1>7. account' \in [Users -> Account]
  <2>1. account \in [Users -> Account]
    BY DEF IInv, TypeOK, TablesOK, Account
  <2>2. 0 \in 0..MaxFailures /\ 0 \in Times
    BY Bounds DEF Times
  <2>3. account' = [account EXCEPT ![u] = [@ EXCEPT !.failures = 0, !.locked = 0]]
    BY <1>2, <2>1
  <2>4. \A a \in Account : [a EXCEPT !.failures = 0, !.locked = 0] \in Account
    BY <2>2 DEF Account
  <2> QED
    BY <2>1, <2>3, <2>4
<1> HIDE DEF r
<1>8. TablesOK'
  BY <1>4, <1>5, <1>7 DEF IInv, TypeOK, TablesOK, Times, Account, SessionType, Replaced
<1>9. HeirInv'
  BY <1>4, <1>5 DEF IInv, HeirInv, SessionStep, Replaced
<1>10. Tables' /\ Spares(c)
  BY <1>4, <1>5, <1>8, <1>9, SessionsChange DEF Replaced
<1> QED
  BY <1>3, <1>6, <1>10, QuietStep

LEMMA CommitContextKeeps == ASSUME IInv, NEW c \in Calls, CommitContext(c) PROVE IInv'
<1> DEFINE old == call[c].session
<1>1. /\ call[c].at \in Inserting
      /\ session' = [Revoked(call[c].rows) EXCEPT
                       ![call[c].fresh] = NewSession(call[c].user, call[c].org, call[c].since)]
  BY DEF CommitContext, At, Inserting
<1>2. heirs' = [heirs EXCEPT ![old] = @ \cup {call[c].fresh}]
  BY DEF CommitContext
<1>3. call[c].at = "switching" /\ End(c)
  BY DEF CommitContext, At
<1>4. UNCHANGED <<now, account, limit, member, role, custom, token, mailed, redeemed>>
  BY DEF CommitContext, tenantVars
<1>5. Replaced(c)
  BY <1>1, SessionOpened, SessionReplaced
<1>6. /\ old \in Sessions /\ session[old].state = "live" /\ old \in call[c].rows
      /\ call[c].fresh \in Sessions
  BY <1>3, CallFacts DEF Fits, OnSession, OnFresh, Admitted, Inserting
<1>7. heirs \in [Sessions -> SUBSET Sessions]
  BY DEF IInv, TypeOK, TablesOK
<1>8. heirs' \in [Sessions -> SUBSET Sessions]
  BY <1>2, <1>6, <1>7
<1>9. TablesOK'
  BY <1>4, <1>5, <1>8 DEF IInv, TypeOK, TablesOK, Times, SessionType, Replaced
<1>10. HeirInv'
  <2>1. heirs[old] = {}
    BY <1>6 DEF IInv, HeirInv
  <2>2. heirs'[old] = {call[c].fresh} /\ session'[old].state = "revoked"
    BY <1>2, <1>5, <1>6, <1>7, <2>1 DEF Replaced
  <2>3. \A s \in Sessions : s # old => heirs'[s] = heirs[s]
    BY <1>2, <1>7
  <2> QED
    BY <1>5, <1>6, <2>2, <2>3 DEF IInv, HeirInv, SessionStep, Replaced
<1>11. Tables' /\ Spares(c)
  BY <1>4, <1>5, <1>9, <1>10, SessionsChange DEF Replaced
<1> QED
  BY <1>3, <1>11, EndOfOne

\* A call that was admitted with a session, or has inserted one, holds it alone.
LEMMA HeldAlone ==
  ASSUME IInv, NEW c \in Calls, At(c, "touched")
  PROVE  /\ call[c].session \in Sessions /\ session[call[c].session].state = "live"
         /\ FreeSession(c, call[c].session)
<1>1. call[c].session \in Sessions /\ session[call[c].session].state = "live"
  BY CallFacts DEF At, Fits, OnSession, Admitted
<1>2. ASSUME NEW d \in Calls \ {c} PROVE call[c].session \notin HeldSessions(d)
  <2>1. Excludes(call[c], call[d]) /\ call[c].session # None
    BY <1>1, CallFacts, Bounds
  <2>2. call[d].at \in Admitted \cup Inserting => call[d].session # call[c].session
    BY <2>1 DEF Excludes, At, Admitted
  <2> QED
    BY <2>2 DEF HeldSessions, Admitted, Inserting
<1> QED
  BY <1>1, <1>2 DEF FreeSession

\* A call changes committed rows it holds alone, and nothing else.
LEMMA RowsChange ==
  ASSUME IInv, NEW c \in Calls, session' \in [Sessions -> SessionType],
         UNCHANGED <<now, account, limit, tenantVars, token, mailed, historyVars>>,
         \A s \in Sessions :
           \/ session'[s] = session[s]
           \/ /\ session[s].state = "live" /\ session'[s].state \in {"live", "revoked"}
              /\ FreeSession(c, s)
              /\ session'[s].user = session[s].user /\ session'[s].org = session[s].org
  PROVE  Tables' /\ Spares(c)
<1>1. UNCHANGED <<now, account, limit, member, role, custom, token, mailed, heirs, redeemed>>
  BY DEF tenantVars, historyVars
<1>2. SessionStep(c)
  BY DEF SessionStep, IInv, UnusedInv
<1>3. TablesOK'
  BY <1>1 DEF IInv, TypeOK, TablesOK, Times, SessionType
<1>4. HeirInv'
  BY <1>1, <1>2 DEF IInv, HeirInv, SessionStep
<1> QED
  BY <1>1, <1>2, <1>3, <1>4, SessionsChange

LEMMA RowsRevoked ==
  ASSUME IInv, NEW c \in Calls, NEW S, session' = Revoked(S),
         UNCHANGED <<now, account, limit, tenantVars, token, mailed, historyVars>>,
         \A s \in Sessions \cap S : session[s].state = "live" /\ FreeSession(c, s)
  PROVE  Tables' /\ Spares(c)
<1>1. \A s \in Sessions :
        /\ session[s] \in SessionType
        /\ RevokedRow(session[s]) \in SessionType /\ RevokedRow(session[s]).state = "revoked"
        /\ RevokedRow(session[s]).user = session[s].user /\ RevokedRow(session[s]).org = session[s].org
  BY SessionFacts, RevokedRowFacts
<1>2. \A s \in Sessions : session'[s] = IF s \in S THEN RevokedRow(session[s]) ELSE session[s]
  BY RevokedFacts
<1>3. session' \in [Sessions -> SessionType]
  <2>1. \A s \in Sessions : session'[s] \in SessionType
    BY <1>1, <1>2
  <2>2. session' = [s \in Sessions |-> session'[s]]
    BY RevokedFacts
  <2> QED
    BY <2>1, <2>2
<1>4. \A s \in Sessions :
        \/ session'[s] = session[s]
        \/ /\ session[s].state = "live" /\ session'[s].state \in {"live", "revoked"}
           /\ FreeSession(c, s)
           /\ session'[s].user = session[s].user /\ session'[s].org = session[s].org
  BY <1>1, <1>2
<1> QED
  BY <1>3, <1>4, RowsChange

LEMMA LogoutKeeps == ASSUME IInv, NEW c \in Calls, Logout(c) PROVE IInv'
<1>1. /\ session' = Revoked({call[c].session}) /\ At(c, "touched") /\ End(c)
      /\ UNCHANGED <<now, account, limit, tenantVars, token, mailed, historyVars>>
  BY DEF Logout
<1>2. \A s \in Sessions \cap {call[c].session} : session[s].state = "live" /\ FreeSession(c, s)
  BY <1>1, HeldAlone
<1> QED
  BY <1>1, <1>2, RowsRevoked, EndOfOne

LEMMA FinishRevokeKeeps == ASSUME IInv, NEW c \in Calls, FinishRevoke(c) PROVE IInv'
<1> DEFINE S == {s \in call[c].rows : session[s].state = "live"}
<1>1. /\ session' = Revoked(S) /\ End(c) /\ \A s \in call[c].rows : FreeSession(c, s)
      /\ UNCHANGED <<now, account, limit, tenantVars, token, mailed, historyVars>>
  BY DEF FinishRevoke
<1>2. \A s \in Sessions \cap S : session[s].state = "live" /\ FreeSession(c, s)
  BY <1>1
<1> HIDE DEF S
<1> QED
  BY <1>1, <1>2, RowsRevoked, EndOfOne

\* Renewing a session moves its times and nothing else.
LEMMA RenewedFacts ==
  ASSUME IInv, NEW c \in Calls, call[c].session \in Sessions
  PROVE  LET x == session[call[c].session] IN
         /\ Renewed(c) \in SessionType /\ Renewed(c).state = x.state
         /\ Renewed(c).user = x.user /\ Renewed(c).org = x.org
<1> DEFINE x == session[call[c].session]
           a == call[c].since + IdleTime
           b == x.created + AbsoluteTime
<1>1. x \in SessionType /\ call[c].since \in 0..MaxTime
  BY SessionFacts, CallFacts DEF CallType
<1>2. a \in Times /\ b \in Times
  BY <1>1, Bounds DEF SessionType, Times
<1>3. Min({a, b}) \in Times
  BY <1>2, MinOfTwo DEF Times
<1>4. Renewed(c) = [x EXCEPT !.seen = call[c].since, !.expires = Min({a, b})]
  BY DEF Renewed
<1> HIDE DEF x, a, b
<1>5. /\ Renewed(c) \in SessionType /\ Renewed(c).state = x.state
      /\ Renewed(c).user = x.user /\ Renewed(c).org = x.org
  BY <1>1, <1>3, <1>4 DEF SessionType
<1> QED
  BY <1>5 DEF x

LEMMA SessionRenewed ==
  ASSUME IInv, NEW c \in Calls, At(c, "touched"),
         session' = [session EXCEPT ![call[c].session] = Renewed(c)],
         UNCHANGED <<now, account, limit, tenantVars, token, mailed, historyVars>>
  PROVE  Tables' /\ Spares(c)
<1> DEFINE s0 == call[c].session
<1>1. s0 \in Sessions /\ session[s0].state = "live" /\ FreeSession(c, s0)
  BY HeldAlone
<1>2. /\ Renewed(c) \in SessionType /\ Renewed(c).state = session[s0].state
      /\ Renewed(c).user = session[s0].user /\ Renewed(c).org = session[s0].org
  BY <1>1, RenewedFacts
<1>3. session \in [Sessions -> SessionType]
  BY SessionFacts
<1>4. session' \in [Sessions -> SessionType]
  BY <1>2, <1>3
<1>5. session'[s0] = Renewed(c) /\ \A s \in Sessions : s # s0 => session'[s] = session[s]
  BY <1>1, <1>3
<1>6. \A s \in Sessions :
        \/ session'[s] = session[s]
        \/ /\ session[s].state = "live" /\ session'[s].state \in {"live", "revoked"}
           /\ FreeSession(c, s)
           /\ session'[s].user = session[s].user /\ session'[s].org = session[s].org
  BY <1>1, <1>2, <1>5
<1> QED
  BY <1>4, <1>6, RowsChange

LEMMA EnterKeeps == ASSUME IInv, NEW c \in Calls, Enter(c) PROVE IInv'
<1> DEFINE may == Manages(call[c].org, call[c].user)
           r   == [call[c] EXCEPT !.at = "inside", !.session = None, !.manages = may]
<1>1. /\ At(c, "touched") /\ call[c].goal = "request"
      /\ session' = [session EXCEPT ![call[c].session] = Renewed(c)]
      /\ call' = [call EXCEPT ![c] = r]
      /\ UNCHANGED <<now, account, limit, tenantVars, token, mailed, historyVars>>
  BY CallFacts DEF Enter, CallType
<1>2. may \in BOOLEAN
  BY DEF Manages
<1> HIDE DEF may
<1>3. r \in CallType /\ r.at = "inside" /\ r.org = call[c].org
  BY <1>2, CallFacts, ZenonT(60) DEF CallType, Stages, Maybe
<1>4. call'[c] = r
  BY <1>1 DEF IInv, TypeOK
<1> HIDE DEF r
<1>5. Fits(call[c])'
  BY <1>1, <1>3, <1>4, CallFacts
     DEF Fits, OnSession, OnFresh, OnToken, OnTenant, Admitted, Inserting, At
<1>6. r.at \notin Holding
  BY <1>3 DEF Holding, Inserting, Admitted
<1> QED
  BY <1>1, <1>3, <1>5, <1>6, SessionRenewed, HoldsNothing, StepOfOne

LEMMA EnterLimitedKeeps == ASSUME IInv, NEW c \in Calls, EnterLimited(c) PROVE IInv'
  BY SessionRenewed, EndOfOne DEF EnterLimited

LEMMA GetMeKeeps == ASSUME IInv, NEW c \in Calls, GetMe(c) PROVE IInv'
  BY SessionRenewed, EndOfOne DEF GetMe
-----------------------------------------------------------------------------
(* Steps that change the members of a tenant.                               *)

\* A handler acts in a tenant, and assigns one of its roles.
LEMMA ActsIn ==
  ASSUME IInv, NEW c \in Calls, call[c].at \in {"inside", "revoking", "assigning"}
  PROVE  call[c].org \in Orgs /\ (call[c].at = "assigning" => call[c].role \in Roles)
  BY CallFacts DEF Fits, OnTenant

\* A step that leaves sessions and tokens alone, and under which who is out of a
\* tenant was out before and has no role there.
LEMMA MembersChange ==
  ASSUME IInv, NEW c \in Calls, TablesOK', UNCHANGED <<session, token, mailed, heirs, redeemed>>,
         \A o \in Orgs, u \in Users :
           member'[o][u] = "none" => member[o][u] = "none" /\ role'[o][u] = {}
  PROVE  Tables' /\ Spares(c)
<1>1. AccessNeedsMembership'
  BY DEF IInv, AccessNeedsMembership
<1>2. HeirInv' /\ UnusedInv' /\ MailedInv' /\ RedeemedOnce'
  BY DEF IInv, HeirInv, UnusedInv, MailedInv, RedeemedOnce
<1>3. Spares(c)
  <2> SUFFICES ASSUME NEW d \in Calls \ {c} PROVE Spared(d)
    BY DEF Spares
  <2>1. Fits(call[d])
    BY CallFacts
  <2> QED
    BY <2>1 DEF Fits, OnSession, OnFresh, OnToken, Spared, Pending
<1> QED
  BY <1>1, <1>2, <1>3 DEF Tables

LEMMA MemberTypes ==
  ASSUME IInv
  PROVE  /\ member \in [Orgs -> [Users -> {"none", "active", "inactive"}]]
         /\ role \in [Orgs -> [Users -> SUBSET Roles]]
         /\ account \in [Users -> Account]
  BY DEF IInv, TypeOK, TablesOK, Account

LEMMA CreateMemberKeeps ==
  ASSUME IInv, NEW c \in Calls, NEW u \in Users, NEW r \in {"ADMIN", "READER"},
         NEW p \in Passwords, CreateMember(c, u, r, p)
  PROVE  IInv'
<1> DEFINE o == call[c].org
<1>1. /\ call[c].at = "inside" /\ End(c)
      /\ account' = [account EXCEPT ![u] =
            IF @.exists THEN @ ELSE [@ EXCEPT !.exists = TRUE, !.password = p]]
      /\ member' = [member EXCEPT ![o][u] = "active"]
      /\ role' = [role EXCEPT ![o][u] = (@ \cap {"CUSTOM"}) \cup {r}]
      /\ UNCHANGED <<now, limit, custom, session, token, mailed, heirs, redeemed>>
  BY DEF CreateMember, CreateMembership, StillAllowed, Allowed, At, historyVars
<1>2. o \in Orgs
  BY <1>1, ActsIn
<1> HIDE DEF o
<1>3. account' \in [Users -> Account]
  <2>1. \A a \in Account : [a EXCEPT !.exists = TRUE, !.password = p] \in Account
    BY DEF Account, Maybe
  <2> QED
    BY <1>1, <2>1, MemberTypes
<1>4. member' \in [Orgs -> [Users -> {"none", "active", "inactive"}]]
  BY <1>1, <1>2, MemberTypes
<1>5. role' \in [Orgs -> [Users -> SUBSET Roles]]
  <2>1. (role[o][u] \cap {"CUSTOM"}) \cup {r} \in SUBSET Roles
    BY DEF Roles
  <2> QED
    BY <1>1, <1>2, <2>1, MemberTypes
<1>6. TablesOK'
  BY <1>1, <1>3, <1>4, <1>5 DEF IInv, TypeOK, TablesOK, Times, Account
<1>7. \A q \in Orgs, v \in Users :
        member'[q][v] = "none" => member[q][v] = "none" /\ role'[q][v] = {}
  <2> SUFFICES ASSUME NEW q \in Orgs, NEW v \in Users, member'[q][v] = "none"
               PROVE  member[q][v] = "none" /\ role'[q][v] = {}
    OBVIOUS
  <2>1. ~(q = o /\ v = u)
    BY <1>1, MemberTypes
  <2>2. member'[q][v] = member[q][v] /\ role'[q][v] = role[q][v]
    BY <1>1, <2>1, MemberTypes
  <2> QED
    BY <2>2 DEF IInv, AccessNeedsMembership
<1> QED
  BY <1>1, <1>6, <1>7, MembersChange, EndOfOne

LEMMA SetMemberActiveKeeps ==
  ASSUME IInv, NEW c \in Calls, NEW u \in Users, NEW active \in BOOLEAN,
         SetMemberActive(c, u, active)
  PROVE  IInv'
<1> DEFINE o == call[c].org
           next == IF active THEN "active" ELSE "inactive"
<1>1. /\ call[c].at = "inside" /\ End(c)
      /\ member[o][u] # "none" /\ member' = [member EXCEPT ![o][u] = next]
      /\ UNCHANGED <<now, account, limit, role, custom, session, token, mailed, heirs, redeemed>>
  BY DEF SetMemberActive, SetMembershipActive, StillAllowed, Allowed, At, historyVars
<1>2. o \in Orgs /\ next \in {"active", "inactive"}
  BY <1>1, ActsIn
<1> HIDE DEF o, next
<1>3. member' \in [Orgs -> [Users -> {"none", "active", "inactive"}]]
  BY <1>1, <1>2, MemberTypes
<1>4. TablesOK'
  BY <1>1, <1>3 DEF IInv, TypeOK, TablesOK, Times
<1>5. \A q \in Orgs, v \in Users :
        member'[q][v] = "none" => member[q][v] = "none" /\ role'[q][v] = {}
  <2> SUFFICES ASSUME NEW q \in Orgs, NEW v \in Users, member'[q][v] = "none"
               PROVE  member[q][v] = "none" /\ role'[q][v] = {}
    OBVIOUS
  <2>1. member[q][v] = "none"
    BY <1>1, <1>2, MemberTypes
  <2> QED
    BY <1>1, <2>1 DEF IInv, AccessNeedsMembership
<1> QED
  BY <1>1, <1>4, <1>5, MembersChange, EndOfOne

LEMMA AssignRoleKeeps == ASSUME IInv, NEW c \in Calls, AssignRole(c) PROVE IInv'
<1> DEFINE o == call[c].org
           u == call[c].user
           x == call[c].role
<1>1. /\ call[c].at = "assigning" /\ End(c)
      /\ role' = IF member[o][u] = "none" THEN role ELSE [role EXCEPT ![o][u] = @ \cup {x}]
      /\ UNCHANGED <<now, account, limit, member, custom, session, token, mailed, heirs, redeemed>>
  BY DEF AssignRole, At, historyVars
<1>2. o \in Orgs /\ x \in Roles
  BY <1>1, ActsIn
<1> HIDE DEF o, u, x
<1>3. role' \in [Orgs -> [Users -> SUBSET Roles]]
  BY <1>1, <1>2, MemberTypes
<1>4. TablesOK'
  BY <1>1, <1>3 DEF IInv, TypeOK, TablesOK, Times
<1>5. \A q \in Orgs, v \in Users :
        member'[q][v] = "none" => member[q][v] = "none" /\ role'[q][v] = {}
  <2> SUFFICES ASSUME NEW q \in Orgs, NEW v \in Users, member[q][v] = "none"
               PROVE  role'[q][v] = {}
    BY <1>1
  <2>1. role'[q][v] = role[q][v]
    BY <1>1, <1>2, MemberTypes
  <2> QED
    BY <2>1 DEF IInv, AccessNeedsMembership
<1> QED
  BY <1>1, <1>4, <1>5, MembersChange, EndOfOne

LEMMA CreateRoleKeeps == ASSUME IInv, NEW c \in Calls, CreateRole(c) PROVE IInv'
<1>1. /\ call[c].at = "inside" /\ End(c) /\ custom' = custom \cup {call[c].org}
      /\ UNCHANGED <<now, account, limit, member, role, session, token, mailed, heirs, redeemed>>
  BY DEF CreateRole, Allowed, At, historyVars
<1>2. custom' \subseteq Orgs
  BY <1>1, ActsIn DEF IInv, TypeOK, TablesOK
<1>3. TablesOK'
  BY <1>1, <1>2 DEF IInv, TypeOK, TablesOK, Times
<1>4. \A q \in Orgs, v \in Users :
        member'[q][v] = "none" => member[q][v] = "none" /\ role'[q][v] = {}
  BY <1>1 DEF IInv, AccessNeedsMembership
<1> QED
  BY <1>1, <1>3, <1>4, MembersChange, EndOfOne

\* Deleting a membership takes its sessions and roles along; no call that opens
\* a session refers to it.
LEMMA DeleteMemberKeeps ==
  ASSUME IInv, NEW c \in Calls, NEW u \in Users, DeleteMember(c, u)
  PROVE  IInv'
<1> DEFINE o == call[c].org
           S == OfMember(o, u)
<1>1. /\ call[c].at = "inside" /\ End(c)
      /\ \A s \in S : FreeSession(c, s)
      /\ ~Referenced(o, u)
      /\ member' = [member EXCEPT ![o][u] = "none"]
      /\ role' = [role EXCEPT ![o][u] = {}]
      /\ session' = Without(S)
      /\ UNCHANGED <<now, account, limit, custom, token, mailed, heirs, redeemed>>
  BY DEF DeleteMember, DeleteMembership, StillAllowed, Allowed, At, historyVars
<1>2. o \in Orgs
  BY <1>1, ActsIn
<1>3. \A s \in S : s \in Sessions /\ session[s].org = o /\ session[s].user = u
  BY DEF OfMember
<1>4. \A s \in Sessions \ S : ~(session[s].org = o /\ session[s].user = u)
  BY DEF OfMember
<1> HIDE DEF o, S
<1>5. \A s \in Sessions : session'[s] = IF s \in S THEN Deleted ELSE session[s]
  BY <1>1 DEF Without
<1>6. Deleted \in SessionType /\ Deleted.state = "deleted" /\ Deleted.user = None
  <2>1. 0 \in Times
    BY Bounds DEF Times
  <2> QED
    BY <2>1, Bounds DEF Deleted, NoSession, SessionType, Maybe
<1>7. session' \in [Sessions -> SessionType]
  <2>1. \A s \in Sessions : session'[s] \in SessionType
    BY <1>5, <1>6, SessionFacts
  <2>2. session' = [s \in Sessions |-> session'[s]]
    BY <1>1 DEF Without
  <2> QED
    BY <2>1, <2>2
<1>8. SessionStep(c)
  <2> SUFFICES ASSUME NEW s \in Sessions
      PROVE /\ session'[s] # session[s] => session[s].state # "unused" /\ FreeSession(c, s)
            /\ session'[s].state = "unused" => session'[s] = session[s]
            /\ session'[s].state = "deleted" => session'[s].user = None
            /\ session[s].state \in {"revoked", "deleted"} => session'[s].state \in {"revoked", "deleted"}
    BY DEF SessionStep
  <2>1. CASE s \in S
    <3>1. session[s].state # "unused"
      BY <1>2, <1>3, <2>1, Bounds DEF IInv, UnusedInv
    <3> QED
      BY <1>1, <1>5, <1>6, <2>1, <3>1
  <2>2. CASE s \notin S
    BY <1>5, <2>2 DEF IInv, UnusedInv
  <2> QED
    BY <2>1, <2>2
<1>9. member' \in [Orgs -> [Users -> {"none", "active", "inactive"}]]
  BY <1>1, <1>2, MemberTypes
<1>10. role' \in [Orgs -> [Users -> SUBSET Roles]]
  BY <1>1, <1>2, MemberTypes
<1>11. TablesOK'
  <2>1. UNCHANGED <<now, account, limit, custom, token, mailed, heirs, redeemed>>
    BY <1>1
  <2> QED
    BY <1>7, <1>9, <1>10, <2>1 DEF IInv, TypeOK, TablesOK, Times, SessionType
<1>12. AccessNeedsMembership'
  <2> SUFFICES ASSUME NEW q \in Orgs, NEW v \in Users, member'[q][v] = "none"
               PROVE  /\ role'[q][v] = {}
                      /\ \A s \in Sessions : session'[s].user = v /\ session'[s].org = q =>
                           session'[s].state = "deleted"
    BY DEF AccessNeedsMembership
  <2>1. CASE q = o /\ v = u
    <3>1. role'[q][v] = {}
      BY <1>1, <2>1, MemberTypes
    <3>2. \A s \in Sessions : ~(session'[s].user = v /\ session'[s].org = q)
      BY <1>4, <1>5, <1>6, <2>1, Bounds
    <3> QED
      BY <3>1, <3>2
  <2>2. CASE ~(q = o /\ v = u)
    <3>1. member'[q][v] = member[q][v] /\ role'[q][v] = role[q][v]
      BY <1>1, <2>2, MemberTypes
    <3>2. \A s \in Sessions : session'[s].user = v => session'[s] = session[s]
      BY <1>5, <1>6, Bounds
    <3> QED
      BY <3>1, <3>2 DEF IInv, AccessNeedsMembership
  <2> QED
    BY <2>1, <2>2
<1>13. Spares(c)
  <2> SUFFICES ASSUME NEW d \in Calls \ {c} PROVE Spared(d)
    BY DEF Spares
  <2>1. ASSUME call[d].at \in Inserting, call[d].org \in Orgs, call[d].user \in Users
        PROVE  member'[call[d].org][call[d].user] = member[call[d].org][call[d].user]
    <3>1. ~(call[d].org = o /\ call[d].user = u)
      BY <1>1, <2>1 DEF Referenced, Inserting
    <3> QED
      BY <1>1, <2>1, <3>1, MemberTypes
  <2> QED
    BY <1>1, <1>8, <2>1, SessionsSpared
<1>14. HeirInv' /\ UnusedInv' /\ MailedInv' /\ RedeemedOnce'
  BY <1>1, <1>8 DEF IInv, HeirInv, UnusedInv, MailedInv, RedeemedOnce, SessionStep
<1>15. Tables'
  BY <1>11, <1>12, <1>14 DEF Tables
<1> QED
  BY <1>1, <1>13, <1>15, EndOfOne
-----------------------------------------------------------------------------
(* Steps that change reset tokens.                                          *)

TokenType == [state : {"unused", "pending", "used", "revoked"},
              user : Maybe(Users), expires : Times]

LEMMA TokenFacts ==
  ASSUME IInv
  PROVE  token \in [Tokens -> TokenType] /\ redeemed \in [Tokens -> Nat] /\ mailed \subseteq Tokens
  BY DEF IInv, TypeOK, TablesOK, TokenType

MarkedRow(x, state) == [x EXCEPT !.state = state]

LEMMA MarkedRowFacts ==
  ASSUME NEW x \in TokenType, NEW state \in {"unused", "pending", "used", "revoked"}
  PROVE  MarkedRow(x, state) \in TokenType /\ MarkedRow(x, state).state = state
  BY DEF TokenType, MarkedRow

LEMMA MarkedFacts ==
  ASSUME NEW T, NEW state
  PROVE  /\ Marked(T, state) = [t \in Tokens |-> Marked(T, state)[t]]
         /\ \A t \in Tokens :
              Marked(T, state)[t] = IF t \in T THEN MarkedRow(token[t], state) ELSE token[t]
  BY DEF Marked, MarkedRow

\* What a step of c does to the tokens: it changes pending ones that no other
\* call holds, uses the identifier c has taken, and leaves none unused again.
TokenStep(c) ==
  \A t \in Tokens :
    token'[t] # token[t] =>
      /\ \/ token[t].state = "pending" /\ FreeToken(c, t)
         \/ token[t].state = "unused" /\ t = call[c].token /\ call[c].at = "issuing"
      /\ token'[t].state # "unused"

LEMMA TokensSpared ==
  ASSUME IInv, NEW c \in Calls, TokenStep(c), UNCHANGED <<session, member>>,
         NEW d \in Calls \ {c}
  PROVE  Spared(d)
<1>1. Fits(call[d]) /\ Excludes(call[c], call[d])
  BY CallFacts
<1>2. CASE call[d].at = "issuing"
  <2>1. call[d].token \in Tokens /\ token[call[d].token].state = "unused"
    BY <1>1, <1>2 DEF Fits, OnToken
  <2>2. token'[call[d].token] = token[call[d].token]
    BY <1>1, <1>2, <2>1 DEF TokenStep, Excludes
  <2>3. ASSUME NEW t \in call[d].rows PROVE token'[t].state = "pending"
    <3>1. t \in Tokens /\ token[t].state = "pending"
      BY <1>1, <1>2 DEF Fits, OnToken, Pending
    <3>2. ~FreeToken(c, t)
      BY <1>2 DEF FreeToken, HeldTokens, At
    <3> QED
      BY <3>1, <3>2 DEF TokenStep
  <2> QED
    BY <1>2, <2>1, <2>2, <2>3 DEF Spared, Admitted, Inserting
<1>3. CASE call[d].at = "delivering"
  BY <1>1, <1>3 DEF Fits, OnToken, Spared, TokenStep, Admitted, Inserting
<1>4. CASE call[d].at \notin {"issuing", "delivering"}
  BY <1>1, <1>4 DEF Fits, OnSession, OnFresh, Spared
<1> QED
  BY <1>2, <1>3, <1>4

LEMMA TokensChange ==
  ASSUME IInv, NEW c \in Calls, TokenStep(c), TablesOK', RedeemedOnce',
         UNCHANGED <<session, member, role, heirs>>,
         \A t \in mailed' \ mailed : token[t].state # "unused"
  PROVE  Tables' /\ Spares(c)
<1>1. Spares(c)
  BY TokensSpared DEF Spares
<1>2. AccessNeedsMembership' /\ HeirInv' /\ UnusedInv'
  BY DEF IInv, AccessNeedsMembership, HeirInv, UnusedInv
<1>3. MailedInv'
  <2> SUFFICES ASSUME NEW t \in mailed' PROVE token'[t].state # "unused"
    BY DEF MailedInv
  <2>1. t \in Tokens /\ token[t].state # "unused"
    BY DEF IInv, MailedInv, TablesOK
  <2> QED
    BY <2>1 DEF TokenStep
<1> QED
  BY <1>1, <1>2, <1>3 DEF Tables

\* No other call holds a token this one holds.
LEMMA HeldTokenAlone ==
  ASSUME IInv, NEW c \in Calls, NEW t \in TokensOf(call[c])
  PROVE  FreeToken(c, t)
<1> SUFFICES ASSUME NEW d \in Calls \ {c} PROVE t \notin HeldTokens(d)
  BY DEF FreeToken
<1>1. TokensOf(call[d]) = HeldTokens(d)
  BY DEF TokensOf, HeldTokens, At
<1>2. TokensOf(call[c]) \cap TokensOf(call[d]) = {}
  BY CallFacts DEF Excludes
<1> QED
  BY <1>1, <1>2

LEMMA IssueTokenKeeps == ASSUME IInv, NEW c \in Calls, IssueToken(c) PROVE IInv'
<1> DEFINE t0  == call[c].token
           T   == call[c].rows
           new == [state |-> "pending", user |-> call[c].user,
                   expires |-> call[c].since + TokenTime]
           r   == [call[c] EXCEPT !.at = "delivering"]
<1>1. /\ call[c].at = "issuing" /\ call' = [call EXCEPT ![c] = r]
      /\ token' = [Marked(T, "revoked") EXCEPT ![t0] = new]
      /\ UNCHANGED <<now, account, limit, member, role, custom, session, mailed, heirs, redeemed>>
  BY CallFacts DEF IssueToken, At, To, tenantVars, historyVars, IInv, TypeOK
<1>2. t0 \in Tokens /\ token[t0].state = "unused" /\ \A t \in T : t \in Tokens /\ Pending(t)
  BY <1>1, CallFacts DEF Fits, OnToken
<1>3. \A t \in T : FreeToken(c, t)
  BY <1>1, HeldTokenAlone DEF TokensOf
<1>4. new \in TokenType /\ new.state = "pending"
  <2>1. call[c].since \in 0..MaxTime /\ call[c].user \in Maybe(Users)
    BY CallFacts DEF CallType
  <2>2. call[c].since + TokenTime \in Times
    BY <2>1, Bounds DEF Times
  <2> QED
    BY <2>1, <2>2 DEF TokenType
<1>5. r \in CallType /\ r.at = "delivering" /\ r.token = t0
  BY CallFacts DEF CallType, Stages
<1> HIDE DEF new, r, T
<1>6. \A t \in Tokens :
        token'[t] = IF t = t0 THEN new
                    ELSE IF t \in T THEN MarkedRow(token[t], "revoked") ELSE token[t]
  BY <1>1, <1>2, MarkedFacts
<1>7. \A t \in Tokens : /\ token[t] \in TokenType /\ MarkedRow(token[t], "revoked") \in TokenType
                        /\ MarkedRow(token[t], "revoked").state = "revoked"
  BY TokenFacts, MarkedRowFacts
<1>8. token' \in [Tokens -> TokenType]
  <2>1. \A t \in Tokens : token'[t] \in TokenType
    BY <1>4, <1>6, <1>7
  <2>2. token' = [t \in Tokens |-> token'[t]]
    BY <1>1, MarkedFacts
  <2> QED
    BY <2>1, <2>2
<1>9. TokenStep(c)
  <2> SUFFICES ASSUME NEW t \in Tokens, token'[t] # token[t]
               PROVE  /\ \/ token[t].state = "pending" /\ FreeToken(c, t)
                         \/ token[t].state = "unused" /\ t = call[c].token /\ call[c].at = "issuing"
                      /\ token'[t].state # "unused"
    BY DEF TokenStep
  <2>1. CASE t = t0
    BY <1>1, <1>2, <1>4, <1>6, <2>1
  <2>2. CASE t # t0
    BY <1>2, <1>3, <1>6, <1>7, <2>2 DEF Pending
  <2> QED
    BY <2>1, <2>2
<1>10. TablesOK'
  BY <1>1, <1>8 DEF IInv, TypeOK, TablesOK, Times, TokenType
<1>11. RedeemedOnce'
  <2> SUFFICES ASSUME NEW t \in Tokens
               PROVE  redeemed[t] <= 1 /\ (redeemed[t] = 1 <=> token'[t].state = "used")
    BY <1>1 DEF RedeemedOnce
  <2>1. redeemed[t] <= 1 /\ (redeemed[t] = 1 <=> token[t].state = "used")
    BY DEF IInv, RedeemedOnce
  <2>2. token'[t].state = "used" <=> token[t].state = "used"
    BY <1>2, <1>4, <1>6, <1>7 DEF Pending
  <2> QED
    BY <2>1, <2>2
<1>12. Tables' /\ Spares(c)
  BY <1>1, <1>9, <1>10, <1>11, TokensChange
<1>13. call'[c] = r
  BY <1>1 DEF IInv, TypeOK
<1>14. Fits(call[c])'
  <2>1. token'[t0].state # "unused"
    BY <1>2, <1>4, <1>6
  <2>2. call'[c].at = "delivering" /\ call'[c].token = t0
    BY <1>5, <1>13
  <2>3. OnToken(call[c])'
    BY <1>2, <2>1, <2>2 DEF OnToken
  <2> QED
    BY <2>2, <2>3 DEF Fits, OnSession, OnFresh, OnTenant, Admitted, Inserting
<1>15. r.at \notin Holding
  BY <1>5 DEF Holding, Inserting, Admitted
<1> QED
  BY <1>1, <1>5, <1>12, <1>14, <1>15, HoldsNothing, StepOfOne

LEMMA DeliverKeeps == ASSUME IInv, NEW c \in Calls, Deliver(c) PROVE IInv'
<1>1. /\ call[c].at = "delivering" /\ End(c)
      /\ mailed' = mailed \cup {call[c].token} \/ UNCHANGED mailed
      /\ UNCHANGED <<now, account, limit, member, role, custom, session, token, heirs, redeemed>>
  BY DEF Deliver, At, tenantVars, historyVars
<1>2. call[c].token \in Tokens /\ token[call[c].token].state # "unused"
  BY <1>1, CallFacts DEF Fits, OnToken
<1>3. mailed' \subseteq Tokens /\ \A t \in mailed' \ mailed : token[t].state # "unused"
  BY <1>1, <1>2, TokenFacts
<1>4. TablesOK'
  BY <1>1, <1>3 DEF IInv, TypeOK, TablesOK, Times
<1>5. TokenStep(c)
  BY <1>1 DEF TokenStep
<1>6. RedeemedOnce'
  BY <1>1 DEF IInv, RedeemedOnce
<1> QED
  BY <1>1, <1>3, <1>4, <1>5, <1>6, TokensChange, EndOfOne

\* The transaction that consumes a token names no user and no session, so that
\* it revokes no session.
LEMMA ReachesNone == ASSUME IInv PROVE Revoked(Revocable(None, None)) = session
<1>1. Revocable(None, None) = {}
  BY Bounds DEF Revocable, Visible
<1>2. session = [s \in Sessions |-> session[s]]
  BY SessionFacts
<1> QED
  BY <1>1, <1>2 DEF Revoked

LEMMA ConsumeKeeps == ASSUME IInv, NEW c \in Calls, Consume(c) PROVE IInv'
<1> DEFINE t0 == call[c].token
           u  == call[c].user
           T  == PendingOf(u)
<1>1. /\ call[c].at = "consuming" /\ Pending(t0) /\ End(c)
      /\ \A t \in T : FreeToken(c, t)
      /\ account' = [account EXCEPT ![u].password = call[c].password,
                                    ![u].failures = 0, ![u].locked = 0]
      /\ token' = [Marked(T, "revoked") EXCEPT ![t0] = MarkedRow(token[t0], "used")]
      /\ redeemed' = [redeemed EXCEPT ![t0] = @ + 1]
      /\ UNCHANGED <<now, limit, member, role, custom, session, mailed, heirs>>
  BY ReachesNone DEF Consume, At, tenantVars, MarkedRow
<1>2. t0 \in Tokens /\ FreeToken(c, t0)
  BY <1>1, CallFacts, HeldTokenAlone DEF Fits, OnToken, TokensOf
<1>3. \A t \in T : t \in Tokens /\ Pending(t)
  BY DEF PendingOf
<1> HIDE DEF T
<1>4. account' \in [Users -> Account]
  <2>1. 0 \in 0..MaxFailures /\ 0 \in Times /\ call[c].password \in Maybe(Passwords)
    BY CallFacts, Bounds DEF Times, CallType
  <2>2. account' = [account EXCEPT ![u] = [@ EXCEPT !.password = call[c].password,
                                                    !.failures = 0, !.locked = 0]]
    BY <1>1, MemberTypes
  <2>3. \A a \in Account :
          [a EXCEPT !.password = call[c].password, !.failures = 0, !.locked = 0] \in Account
    BY <2>1 DEF Account
  <2> QED
    BY <2>2, <2>3, MemberTypes
<1>5. \A t \in Tokens :
        /\ token[t] \in TokenType
        /\ MarkedRow(token[t], "revoked") \in TokenType
        /\ MarkedRow(token[t], "revoked").state = "revoked"
        /\ MarkedRow(token[t], "used") \in TokenType
        /\ MarkedRow(token[t], "used").state = "used"
  BY TokenFacts, MarkedRowFacts
<1>6. \A t \in Tokens :
        token'[t] = IF t = t0 THEN MarkedRow(token[t], "used")
                    ELSE IF t \in T THEN MarkedRow(token[t], "revoked") ELSE token[t]
  BY <1>1, <1>2, MarkedFacts
<1>7. token' \in [Tokens -> TokenType]
  <2>1. \A t \in Tokens : token'[t] \in TokenType
    BY <1>5, <1>6
  <2>2. token' = [t \in Tokens |-> token'[t]]
    BY <1>1, MarkedFacts
  <2> QED
    BY <2>1, <2>2
<1>8. redeemed' \in [Tokens -> Nat]
  <2>1. redeemed' = [redeemed EXCEPT ![t0] = @ + 1] /\ redeemed \in [Tokens -> Nat]
    BY <1>1, TokenFacts
  <2>2. redeemed[t0] + 1 \in Nat
    BY <1>2, <2>1
  <2> QED
    BY <2>1, <2>2
<1>9. TablesOK'
  <2>1. UNCHANGED <<now, limit, member, role, custom, session, mailed, heirs>>
    BY <1>1
  <2> QED
    BY <1>4, <1>7, <1>8, <2>1 DEF IInv, TypeOK, TablesOK, Times, Account, TokenType
<1>10. TokenStep(c)
  <2> SUFFICES ASSUME NEW t \in Tokens, token'[t] # token[t]
               PROVE  /\ token[t].state = "pending" /\ FreeToken(c, t)
                      /\ token'[t].state # "unused"
    BY DEF TokenStep
  <2> QED
    BY <1>1, <1>2, <1>3, <1>5, <1>6 DEF Pending
<1>11. RedeemedOnce'
  <2> SUFFICES ASSUME NEW t \in Tokens
               PROVE  redeemed'[t] <= 1 /\ (redeemed'[t] = 1 <=> token'[t].state = "used")
    BY DEF RedeemedOnce
  <2>1. redeemed[t] \in Nat /\ redeemed[t] <= 1 /\ (redeemed[t] = 1 <=> token[t].state = "used")
    BY TokenFacts DEF IInv, RedeemedOnce
  <2>2. CASE t = t0
    <3>1. redeemed[t] = 0
      BY <1>1, <2>1, <2>2 DEF Pending
    <3>2. redeemed'[t] = 1 /\ token'[t].state = "used"
      BY <1>1, <1>5, <1>6, <2>2, <3>1, TokenFacts
    <3> QED
      BY <3>2
  <2>3. CASE t # t0
    <3>1. redeemed'[t] = redeemed[t]
      BY <1>1, <2>3, TokenFacts
    <3>2. token'[t].state = "used" <=> token[t].state = "used"
      BY <1>3, <1>5, <1>6, <2>3 DEF Pending
    <3> QED
      BY <2>1, <3>1, <3>2
  <2> QED
    BY <2>2, <2>3
<1>12. Tables' /\ Spares(c)
  BY <1>1, <1>9, <1>10, <1>11, TokensChange
<1> QED
  BY <1>1, <1>12, EndOfOne
-----------------------------------------------------------------------------
(* The clock, the initial states and the theorems.                          *)

LEMMA TickKeeps == ASSUME IInv, Tick PROVE IInv'
<1>1. now' \in 0..MaxTime
  BY NowFacts, Bounds DEF Tick
<1>2. UNCHANGED tableVars /\ UNCHANGED call
  BY DEF Tick, tableVars
<1>3. Tables' /\ \A d \in Calls : Spared(d)
  BY <1>1, <1>2, TablesUnchanged
<1>4. \A d \in Calls : Fits(call[d])'
  BY <1>2, <1>3, OthersFit
<1>5. (\A d, e \in Calls : d # e => Excludes(call[d], call[e]))'
  BY <1>2 DEF IInv, Excludes, TokensOf
<1> QED
  BY <1>2, <1>3, <1>4, <1>5 DEF IInv, TypeOK, Tables

LEMMA StutterKeeps == ASSUME IInv, UNCHANGED vars PROVE IInv'
<1>1. UNCHANGED <<now, account, limit, member, role, custom, session, token, mailed, call,
                  heirs, redeemed>>
  BY DEF vars, tenantVars, historyVars
<1>2. UNCHANGED tableVars /\ UNCHANGED call /\ now' \in 0..MaxTime
  BY <1>1, NowFacts DEF tableVars, tenantVars, historyVars
<1>3. Tables' /\ \A d \in Calls : Spared(d)
  BY <1>2, TablesUnchanged
<1>4. \A d \in Calls : Fits(call[d])'
  BY <1>2, <1>3, OthersFit
<1>5. (\A d, e \in Calls : d # e => Excludes(call[d], call[e]))'
  BY <1>2 DEF IInv, Excludes, TokensOf
<1> QED
  BY <1>2, <1>3, <1>4, <1>5 DEF IInv, TypeOK, Tables

\* The tenants a user belongs to at the start are the ones a session may name.
LEMMA InitTables == ASSUME Init PROVE Tables
<1>0. PICK admin \in Users, accounts \in SUBSET Users, homes \in SUBSET Orgs, p \in Passwords :
      LET tenants(u) == IF u = admin THEN Orgs ELSE IF u \in accounts THEN homes ELSE {} IN
      /\ admin \in accounts
      /\ account = [u \in Users |-> [exists |-> u \in accounts,
                                     password |-> IF u \in accounts THEN p ELSE None,
                                     failures |-> 0, locked |-> 0]]
      /\ member = [o \in Orgs |-> [u \in Users |-> IF o \in tenants(u) THEN "active" ELSE "none"]]
      /\ role = [o \in Orgs |-> [u \in Users |->
           IF o \notin tenants(u) THEN {} ELSE IF u = admin THEN {"ADMIN"} ELSE {"READER"}]]
      /\ \E open \in [accounts -> Sessions], org \in [accounts -> Maybe(Orgs)] :
           /\ \A u \in accounts : org[u] \in Maybe(tenants(u))
           /\ \A u, v \in accounts : u # v => open[u] # open[v]
           /\ org[admin] # None
           /\ session = [s \in Sessions |->
                IF \E u \in accounts : open[u] = s /\ tenants(u) # {}
                THEN LET u == CHOOSE v \in accounts : open[v] = s IN NewSession(u, org[u], 0)
                ELSE NoSession]
      /\ \E old \in SUBSET Tokens, u \in accounts :
           /\ Cardinality(old) <= 1
           /\ token = [t \in Tokens |->
                IF t \in old THEN [state |-> "pending", user |-> u, expires |-> TokenTime]
                             ELSE NoToken]
           /\ mailed = old
  BY DEF Init
<1> DEFINE tenants(u) == IF u = admin THEN Orgs ELSE IF u \in accounts THEN homes ELSE {}
<1>1. /\ now = 0
      /\ limit = [u \in Users |-> [failures |-> 0, until |-> 0, blocked |-> 0]]
      /\ custom = {} /\ heirs = [s \in Sessions |-> {}] /\ redeemed = [t \in Tokens |-> 0]
  BY DEF Init
<1>2. \A u \in Users : tenants(u) \subseteq Orgs
  OBVIOUS
<1>3. /\ account = [u \in Users |-> [exists |-> u \in accounts,
                                     password |-> IF u \in accounts THEN p ELSE None,
                                     failures |-> 0, locked |-> 0]]
      /\ member = [o \in Orgs |-> [u \in Users |-> IF o \in tenants(u) THEN "active" ELSE "none"]]
      /\ role = [o \in Orgs |-> [u \in Users |->
           IF o \notin tenants(u) THEN {} ELSE IF u = admin THEN {"ADMIN"} ELSE {"READER"}]]
  BY <1>0
<1>4. PICK open \in [accounts -> Sessions], org \in [accounts -> Maybe(Orgs)] :
        /\ \A u \in accounts : org[u] \in Maybe(tenants(u))
        /\ \A u, v \in accounts : u # v => open[u] # open[v]
        /\ org[admin] # None
        /\ session = [s \in Sessions |->
             IF \E u \in accounts : open[u] = s /\ tenants(u) # {}
             THEN LET u == CHOOSE v \in accounts : open[v] = s IN NewSession(u, org[u], 0)
             ELSE NoSession]
  BY <1>0
<1>5. PICK old \in SUBSET Tokens, holder \in accounts :
        /\ Cardinality(old) <= 1
        /\ token = [t \in Tokens |->
             IF t \in old THEN [state |-> "pending", user |-> holder, expires |-> TokenTime]
                          ELSE NoToken]
        /\ mailed = old
  BY <1>0
<1> HIDE DEF tenants
<1>6. 0 \in 0..MaxTime /\ 0 \in Times /\ IdleTime \in Times /\ TokenTime \in Times
      /\ 0 \in 0..MaxFailures /\ 0 \in 0..(MaxFailures - 1)
  BY Bounds DEF Times
<1>7. \A s \in Sessions :
        \/ session[s] = NoSession
        \/ \E u \in accounts : session[s] = NewSession(u, org[u], 0)
  <2> SUFFICES ASSUME NEW s \in Sessions, NEW w \in accounts, open[w] = s
               PROVE  \E u \in accounts :
                        (CHOOSE v \in accounts : open[v] = s) = u
    BY <1>4
  <2> QED
    OBVIOUS
<1>8. NoSession \in SessionType /\ NoSession.state = "unused"
      /\ NoSession.user = None /\ NoSession.org = None
  BY <1>6 DEF NoSession, SessionType, Maybe
<1>9. \A u \in accounts : /\ NewSession(u, org[u], 0) \in SessionType
                          /\ NewSession(u, org[u], 0).state = "live"
                          /\ NewSession(u, org[u], 0).user = u
                          /\ NewSession(u, org[u], 0).org = org[u]
  <2> SUFFICES ASSUME NEW u \in accounts
               PROVE  /\ NewSession(u, org[u], 0) \in SessionType
                      /\ NewSession(u, org[u], 0).state = "live"
                      /\ NewSession(u, org[u], 0).user = u
                      /\ NewSession(u, org[u], 0).org = org[u]
    OBVIOUS
  <2>1. u \in Maybe(Users) /\ org[u] \in Maybe(Orgs)
    BY DEF Maybe
  <2>2. 0 + IdleTime \in Times
    BY <1>6, Bounds
  <2> QED
    BY <1>6, <2>1, <2>2 DEF NewSession, SessionType
<1>10. session \in [Sessions -> SessionType]
  <2>1. \A s \in Sessions : session[s] \in SessionType
    BY <1>7, <1>8, <1>9
  <2>2. session = [s \in Sessions |-> session[s]]
    BY <1>4
  <2> QED
    BY <2>1, <2>2
<1>11. token \in [Tokens -> TokenType]
       /\ \A t \in Tokens : token[t].state \in {"unused", "pending"} /\ (t \in old => token[t].state = "pending")
  <2>1. NoToken \in TokenType /\ NoToken.state = "unused"
    BY <1>6 DEF NoToken, TokenType, Maybe
  <2>2. holder \in Maybe(Users)
    BY DEF Maybe
  <2> QED
    BY <1>5, <1>6, <2>1, <2>2 DEF TokenType
<1>12. account \in [Users -> Account]
  BY <1>3, <1>6 DEF Account, Maybe
<1>13. /\ member \in [Orgs -> [Users -> {"none", "active", "inactive"}]]
       /\ role \in [Orgs -> [Users -> SUBSET Roles]]
  BY <1>3 DEF Roles
<1>14. TablesOK
  BY <1>1, <1>5, <1>6, <1>10, <1>11, <1>12, <1>13
     DEF TablesOK, SessionType, TokenType, Account
<1>15. AccessNeedsMembership
  <2> SUFFICES ASSUME NEW o \in Orgs, NEW u \in Users, member[o][u] = "none"
               PROVE  /\ role[o][u] = {}
                      /\ \A s \in Sessions : ~(session[s].user = u /\ session[s].org = o)
    BY DEF AccessNeedsMembership
  <2>1. o \notin tenants(u)
    BY <1>3
  <2>2. role[o][u] = {}
    BY <1>3, <2>1
  <2>3. ASSUME NEW s \in Sessions, session[s].user = u, session[s].org = o PROVE FALSE
    <3>1. u \in accounts /\ org[u] = o
      BY <1>7, <1>8, <1>9, <2>3, Bounds
    <3>2. o \in Maybe(tenants(u))
      BY <1>4, <3>1
    <3> QED
      BY <2>1, <3>2, Bounds DEF Maybe
  <2> QED
    BY <2>2, <2>3
<1>16. HeirInv
  BY <1>1 DEF HeirInv
<1>17. UnusedInv
  BY <1>7, <1>8, <1>9 DEF UnusedInv
<1>18. MailedInv
  BY <1>5, <1>11 DEF MailedInv
<1>19. RedeemedOnce
  BY <1>1, <1>11 DEF RedeemedOnce
<1> QED
  BY <1>14, <1>15, <1>16, <1>17, <1>18, <1>19 DEF Tables

LEMMA InitInv == Init => IInv
<1> SUFFICES ASSUME Init PROVE IInv
  OBVIOUS
<1>1. Tables
  BY InitTables
<1>2. call = [c \in Calls |-> Waiting]
  BY DEF Init
<1>3. \A c \in Calls : call[c] = Waiting /\ call[c] \in CallType /\ call[c].at = "waiting"
  BY <1>2, WaitingFacts
<1>4. \A c \in Calls : Fits(call[c]) /\ call[c].at \notin Holding
  BY <1>3, QuietFits DEF Quiet
<1>5. \A c, d \in Calls : Excludes(call[c], call[d])
  BY <1>4, HoldsNothing
<1> QED
  BY <1>1, <1>2, <1>3, <1>4, <1>5 DEF IInv, TypeOK, Tables

LEMMA LoginKeeps == ASSUME IInv, NEW c \in Calls, Login(c) PROVE IInv'
  BY StartLoginKeeps, LimitedKeeps, ReadCredentialKeeps, ListMembershipsKeeps, OpenSessionKeeps,
     OpenRefusedKeeps, CommitLoginKeeps, CountSuccessKeeps, RecordFailureKeeps, CountFailureKeeps
     DEF Login

LEMMA UseSessionKeeps == ASSUME IInv, NEW c \in Calls, UseSession(c) PROVE IInv'
<1>1. ASSUME NEW s \in Sessions, NEW o \in Orgs, StartContext(c, s, o) PROVE IInv'
  BY <1>1, PresentKeeps DEF StartContext, Maybe
<1>2. ASSUME NEW s \in Sessions, StartLogout(c, s) \/ StartMe(c, s) \/ StartRequest(c, s) PROVE IInv'
  BY <1>2, PresentKeeps DEF StartLogout, StartMe, StartRequest, Maybe
<1> QED
  BY <1>1, <1>2, SelectContextKeeps, TouchKeeps, EnterKeeps, EnterLimitedKeeps, GetMeKeeps,
     CommitContextKeeps, LogoutKeeps DEF UseSession

LEMMA AdministerKeeps == ASSUME IInv, NEW c \in Calls, Administer(c) PROVE IInv'
  BY CreateMemberKeeps, SetMemberActiveKeeps, StartRevokeKeeps, DeleteMemberKeeps,
     StartAssignKeeps, AssignRoleKeeps, FinishRevokeKeeps, CreateRoleKeeps, LeaveKeeps
     DEF Administer

LEMMA ResetKeeps == ASSUME IInv, NEW c \in Calls, Reset(c) PROVE IInv'
  BY RequestResetKeeps, StartConfirmKeeps, IssueTokenKeeps, DeliverKeeps, LockTokenKeeps,
     ConsumeKeeps DEF Reset

LEMMA NextKeeps == IInv /\ [Next]_vars => IInv'
<1> SUFFICES ASSUME IInv, [Next]_vars PROVE IInv'
  OBVIOUS
<1>1. CASE Tick
  BY <1>1, TickKeeps
<1>2. ASSUME NEW c \in Calls, Login(c) \/ UseSession(c) \/ Administer(c) \/ Reset(c) \/ Abort(c)
      PROVE  IInv'
  BY <1>2, LoginKeeps, UseSessionKeeps, AdministerKeeps, ResetKeeps, AbortKeeps
<1>3. CASE UNCHANGED vars
  BY <1>3, StutterKeeps
<1> QED
  BY <1>1, <1>2, <1>3 DEF Next

\* In every reachable state the calls hold rows exclusively, rely only on rows
\* that are as they read them, and the tables are in order.
THEOREM Invariance == Spec => []IInv
  BY InitInv, NextKeeps, PTL DEF Spec

\* Every variable keeps its type.
THEOREM TypeCorrect == Spec => []TypeOK
<1>1. IInv => TypeOK
  BY DEF IInv
<1> QED
  BY <1>1, Invariance, PTL

\* Whoever has been removed from a tenant has no role and no session left in it,
\* whatever logins, changes of context or assignments were half-way.
THEOREM NoAccessAfterRemoval == Spec => []AccessNeedsMembership
<1>1. IInv => AccessNeedsMembership
  BY DEF IInv
<1> QED
  BY <1>1, Invariance, PTL

\* Two changes of context at once do not make two sessions from one.
THEOREM OneSuccessorEach == Spec => []OneSuccessor
<1>1. IInv => OneSuccessor
  <2> SUFFICES ASSUME IInv, NEW s \in Sessions PROVE Cardinality(heirs[s]) <= 1
    BY DEF OneSuccessor
  <2>1. heirs[s] = {} \/ \E x \in Sessions : heirs[s] = {x}
    BY DEF IInv, HeirInv
  <2>2. CASE heirs[s] = {}
    BY <2>2, FS_EmptySet
  <2>3. ASSUME NEW x \in Sessions, heirs[s] = {x} PROVE Cardinality(heirs[s]) <= 1
    BY <2>3, FS_Singleton
  <2> QED
    BY <2>1, <2>2, <2>3
<1> QED
  BY <1>1, Invariance, PTL

\* No call is let in or switched on a session that was revoked or deleted after
\* the call had read it.
THEOREM AdmissionIsCurrent == Spec => []AdmittedWhileLive
<1>1. IInv => AdmittedWhileLive
  BY DEF IInv, AdmittedWhileLive, Fits, OnSession, Admitted
<1> QED
  BY <1>1, Invariance, PTL

\* A reset token sets one password at most, and none that was revoked sets any.
THEOREM TokensSpentOnce == Spec => []RedeemedOnce
<1>1. IInv => RedeemedOnce
  BY DEF IInv
<1> QED
  BY <1>1, Invariance, PTL
=============================================================================
