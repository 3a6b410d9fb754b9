------------------------------ MODULE Accounts ------------------------------
(***************************************************************************)
(* Accounts of the console: login, sessions, password reset and the        *)
(* administration of a tenant's members.                                   *)
(*                                                                         *)
(* Every request is a call that reads and writes the database in one or    *)
(* more transactions; between two of its steps any other call may move.    *)
(* The call that updated a session or a reset token holds its row until    *)
(* its transaction ends, and a call that inserted a session keeps the      *)
(* membership it refers to from being deleted.  Both are read off the      *)
(* stage of the calls (HeldSessions, HeldTokens, Referenced).  A request   *)
(* authenticates its session in a transaction of its own, which commits    *)
(* before the handler starts.                                              *)
(***************************************************************************)
EXTENDS Naturals, FiniteSets, FiniteSetsExt

CONSTANTS
  Users, Orgs, Passwords,
  Calls,         \* requests served in the life of the instance
  Sessions,      \* session identifiers
  Tokens,        \* password reset tokens
  IdleTime,      \* a session unused for this long is over (30 minutes)
  AbsoluteTime,  \* a session is over this long after its creation (7 days)
  TokenTime,     \* life of a reset token (15 minutes)
  LockTime,      \* a locked account stays locked this long (15 minutes)
  MaxFailures,   \* failed logins that lock an account (5)
  MaxTime,       \* bound on the clock
  None

ASSUME TimesAssumption ==
  {IdleTime, AbsoluteTime, TokenTime, LockTime, MaxFailures, MaxTime} \subseteq Nat \ {0}
ASSUME NoneAssumption == None \notin Users \cup Orgs \cup Passwords \cup Sessions \cup Tokens

VARIABLES
  now,      \* clock of the service
  account,  \* users
  limit,    \* failures and locks per account in Redis
  member,   \* organization_memberships: "none", "active" or "inactive"
  role,     \* user_roles
  custom,   \* tenants that have created their role of their own
  session,  \* user_sessions, committed
  token,    \* password_reset_tokens, committed
  mailed,   \* tokens whose link was delivered
  call,     \* where each request is
  heirs,    \* history: sessions made from a session by a change of context
  redeemed  \* history: passwords set with each token

tenantVars  == <<member, role, custom>>
historyVars == <<heirs, redeemed>>
vars == <<now, account, limit, tenantVars, session, token, mailed, call, historyVars>>

Times == 0..(MaxTime + IdleTime + AbsoluteTime + TokenTime + LockTime)
Roles == {"ADMIN", "READER", "CUSTOM"}
Maybe(S) == S \cup {None}

NoSession == [state |-> "unused", user |-> None, org |-> None,
              created |-> 0, seen |-> 0, expires |-> 0]
Deleted   == [NoSession EXCEPT !.state = "deleted"]
NoToken   == [state |-> "unused", user |-> None, expires |-> 0]

\* What a request knows: the user and tenant it acts for, the session it
\* presented, the one it opens, its reset token, the role it assigns, the time it
\* read, the rows it is changing, and whether it may administer the tenant.
Waiting == [at |-> "waiting", goal |-> "none", user |-> None, org |-> None,
            session |-> None, fresh |-> None, token |-> None, password |-> None,
            role |-> None, since |-> 0, rows |-> {}, manages |-> FALSE]
Ended   == [Waiting EXCEPT !.at = "ended"]

Stages == {"waiting", "credentials", "verified", "member", "opened", "counting",
           "refused", "counted", "found", "touched", "switching", "inside",
           "revoking", "assigning", "issuing", "delivering", "confirming", "consuming", "ended"}
Goals  == {"none", "login", "context", "logout", "me", "request", "issue", "confirm"}

TablesOK ==
  /\ now \in 0..MaxTime
  /\ account \in [Users -> [exists : BOOLEAN, password : Maybe(Passwords),
                            failures : 0..MaxFailures, locked : Times]]
  /\ limit \in [Users -> [failures : 0..(MaxFailures - 1), until : Times, blocked : Times]]
  /\ member \in [Orgs -> [Users -> {"none", "active", "inactive"}]]
  /\ role \in [Orgs -> [Users -> SUBSET Roles]]
  /\ custom \subseteq Orgs
  /\ session \in [Sessions -> [state : {"unused", "live", "revoked", "deleted"},
                               user : Maybe(Users), org : Maybe(Orgs),
                               created : 0..MaxTime, seen : 0..MaxTime, expires : Times]]
  /\ token \in [Tokens -> [state : {"unused", "pending", "used", "revoked"},
                           user : Maybe(Users), expires : Times]]
  /\ mailed \subseteq Tokens
  /\ heirs \in [Sessions -> SUBSET Sessions]
  /\ redeemed \in [Tokens -> Nat]

CallType ==
  [at : Stages, goal : Goals, user : Maybe(Users), org : Maybe(Orgs),
   session : Maybe(Sessions), fresh : Maybe(Sessions), token : Maybe(Tokens),
   password : Maybe(Passwords), role : Maybe(Roles), since : 0..MaxTime,
   rows : SUBSET (Sessions \cup Tokens), manages : BOOLEAN]

TypeOK == TablesOK /\ call \in [Calls -> CallType]

\* The user and the tenant of a call that acts for one.
At(c, stage)  == call[c].at = stage
To(c, stage)  == call' = [call EXCEPT ![c].at = stage]
End(c)        == call' = [call EXCEPT ![c] = Ended]
Start(c, rec) == At(c, "waiting") /\ call' = [call EXCEPT ![c] = rec]
-----------------------------------------------------------------------------
(* Rows that an open transaction holds.                                     *)

HeldSessions(c) ==
  CASE call[c].at \in {"touched", "switching", "opened"} -> {call[c].session}
    [] OTHER -> {}

HeldTokens(c) ==
  CASE At(c, "consuming") -> {call[c].token}
    [] At(c, "issuing")   -> call[c].rows
    [] OTHER -> {}

FreeSession(c, s) == \A d \in Calls \ {c} : s \notin HeldSessions(d)
FreeToken(c, t)   == \A d \in Calls \ {c} : t \notin HeldTokens(d)

\* An inserted session, not yet committed, refers to the membership.
Referenced(o, u) ==
  \E d \in Calls : /\ call[d].at \in {"switching", "opened"}
                   /\ call[d].org = o /\ call[d].user = u

\* Sessions an UPDATE of the authentication role can reach: those of the user
\* and with the token hash its transaction has set.
Visible(user, hash) ==
  {s \in Sessions : s = hash /\ session[s].state # "deleted" /\ session[s].user = user}
Revocable(user, hash) == {s \in Visible(user, hash) : session[s].state = "live"}

\* Memberships with which a user may act.
ActiveOrgs(u) == {o \in Orgs : member[o][u] = "active"}
Manages(o, u) == "ADMIN" \in role[o][u]
IsManager(o, u) == member[o][u] = "active" /\ Manages(o, u)

NewSession(u, o, t) ==
  [state |-> "live", user |-> u, org |-> o, created |-> t, seen |-> t, expires |-> t + IdleTime]
Unused(s) == session[s].state = "unused" /\ \A d \in Calls : call[d].fresh # s
Revoked(S) ==
  [s \in Sessions |-> IF s \in S THEN [session[s] EXCEPT !.state = "revoked"] ELSE session[s]]
-----------------------------------------------------------------------------
(* Login.                                                                   *)

\* The limiter lets the call in and tells whether the account is blocked there;
\* such a call still checks the password, and is refused whatever it is.
StartLogin(c, u, p, s) ==
  /\ Start(c, [Waiting EXCEPT !.at = "credentials", !.goal = "login", !.user = u,
                              !.password = p, !.session = s, !.since = now,
                              !.manages = limit[u].blocked > now])
  /\ s # None => session[s].state # "unused"
  /\ UNCHANGED <<now, account, limit, tenantVars, session, token, mailed, historyVars>>

\* More calls from this address than the limiter admits: answered 429.
Limited(c) ==
  /\ Start(c, Ended)
  /\ UNCHANGED <<now, account, limit, tenantVars, session, token, mailed, historyVars>>

CredentialMatches(u, p, t) ==
  account[u].exists /\ account[u].password = p /\ account[u].locked <= t

\* The credential is read; the password is then verified in a thread.
ReadCredential(c) ==
  /\ At(c, "credentials")
  /\ IF CredentialMatches(call[c].user, call[c].password, call[c].since) /\ ~call[c].manages
     THEN To(c, "verified")
     ELSE To(c, "refused")
  /\ UNCHANGED <<now, account, limit, tenantVars, session, token, mailed, historyVars>>

\* One active tenant is entered at once, several are left to be chosen.
ListMemberships(c) ==
  /\ At(c, "verified")
  /\ LET orgs == ActiveOrgs(call[c].user) IN
     call' = [call EXCEPT
       ![c].at  = IF orgs = {} THEN "refused" ELSE "member",
       ![c].org = IF Cardinality(orgs) = 1 THEN CHOOSE o \in orgs : TRUE ELSE None]
  /\ UNCHANGED <<now, account, limit, tenantVars, session, token, mailed, historyVars>>

\* replace_for_login: revoke what the cookie named, insert the new session.
OpenSession(c, s) ==
  /\ At(c, "member")
  /\ Unused(s)
  /\ call[c].session # None => FreeSession(c, call[c].session)
  /\ call[c].org # None => member[call[c].org][call[c].user] = "active"
  /\ call' = [call EXCEPT ![c].at = "opened", ![c].fresh = s,
                          ![c].rows = Revocable(call[c].user, call[c].session)]
  /\ UNCHANGED <<now, account, limit, tenantVars, session, token, mailed, historyVars>>

\* The policy on the insert refuses a membership that is no longer active.
OpenRefused(c) ==
  /\ At(c, "member")
  /\ call[c].org # None /\ member[call[c].org][call[c].user] # "active"
  /\ End(c)
  /\ UNCHANGED <<now, account, limit, tenantVars, session, token, mailed, historyVars>>

CommitLogin(c) ==
  /\ At(c, "opened")
  /\ session' = [Revoked(call[c].rows) EXCEPT
                   ![call[c].fresh] = NewSession(call[c].user, call[c].org, call[c].since)]
  /\ account' = [account EXCEPT ![call[c].user].failures = 0, ![call[c].user].locked = 0]
  /\ call' = [call EXCEPT ![c] = [Waiting EXCEPT !.at = "counting", !.user = call[c].user]]
  /\ UNCHANGED <<now, limit, tenantVars, token, mailed, historyVars>>

\* record_success; when Redis fails the answer is 503, the session stays.
CountSuccess(c) ==
  /\ At(c, "counting")
  /\ \/ limit' = [limit EXCEPT ![call[c].user].failures = 0]
     \/ UNCHANGED limit
  /\ End(c)
  /\ UNCHANGED <<now, account, tenantVars, session, token, mailed, historyVars>>

\* The failure is recorded in a transaction of its own.
AfterFailure(a, t) ==
  CASE a.locked > t -> a
    [] a.locked > 0 /\ a.locked <= t -> [a EXCEPT !.failures = 1, !.locked = 0]
    [] OTHER -> [a EXCEPT !.failures = Min({@ + 1, MaxFailures}),
                          !.locked = IF a.failures + 1 >= MaxFailures THEN t + LockTime ELSE @]

RecordFailure(c) ==
  /\ At(c, "refused")
  /\ account' = [account EXCEPT ![call[c].user] =
                   IF @.exists THEN AfterFailure(@, call[c].since) ELSE @]
  /\ To(c, "counted")
  /\ UNCHANGED <<now, limit, tenantVars, session, token, mailed, historyVars>>

CountFailure(c) ==
  /\ At(c, "counted")
  /\ LET u == call[c].user
         n == 1 + (IF limit[u].until > now THEN limit[u].failures ELSE 0)
     IN limit' = [limit EXCEPT ![u] =
          IF n >= MaxFailures
          THEN [failures |-> 0, until |-> 0, blocked |-> now + LockTime]
          ELSE [failures |-> n, blocked |-> limit[u].blocked,
                until |-> IF n = 1 THEN now + LockTime ELSE limit[u].until]]
  /\ End(c)
  /\ UNCHANGED <<now, account, tenantVars, session, token, mailed, historyVars>>
-----------------------------------------------------------------------------
(* Sessions.                                                                *)

\* A session as it is read at time t.
Valid(s, t, needsOrg) ==
  /\ session[s].state = "live"
  /\ session[s].expires > t
  /\ session[s].seen + IdleTime > t
  /\ session[s].created + AbsoluteTime > t
  /\ needsOrg => session[s].org # None

\* The call presents a cookie and its row is read; an invalid one ends it.
Present(c, s, goal, o) ==
  /\ session[s].state # "unused"
  /\ Start(c, IF Valid(s, now, goal = "request")
              THEN [Waiting EXCEPT !.at = "found", !.goal = goal, !.session = s, !.since = now,
                                   !.user = session[s].user,
                                   !.org = IF goal = "context" THEN o ELSE session[s].org]
              ELSE Ended)
  /\ UNCHANGED <<now, account, limit, tenantVars, session, token, mailed, historyVars>>

StartContext(c, s, o) == Present(c, s, "context", o)
StartLogout(c, s)     == Present(c, s, "logout", None)
StartMe(c, s)         == Present(c, s, "me", None)
StartRequest(c, s)    == Present(c, s, "request", None)

\* Faulty variant of Touch: renews the row without asking whether it is revoked.
TouchBlindly(c) ==
  /\ At(c, "found")
  /\ FreeSession(c, call[c].session)
  /\ IF session[call[c].session].state # "deleted" THEN To(c, "touched") ELSE End(c)
  /\ UNCHANGED <<now, account, limit, tenantVars, session, token, mailed, historyVars>>

\* The renewal waits for the row and misses it when it has been revoked.
Touch(c) ==
  /\ At(c, "found")
  /\ FreeSession(c, call[c].session)
  /\ IF call[c].session \in Revocable(call[c].user, call[c].session)
     THEN To(c, "touched")
     ELSE End(c)
  /\ UNCHANGED <<now, account, limit, tenantVars, session, token, mailed, historyVars>>

Renewed(c) ==
  [session[call[c].session] EXCEPT
     !.seen = call[c].since,
     !.expires = Min({call[c].since + IdleTime,
                      session[call[c].session].created + AbsoluteTime})]

\* The authenticating transaction commits: the handler starts with the
\* permissions it read.
Enter(c) ==
  /\ At(c, "touched") /\ call[c].goal = "request"
  /\ session' = [session EXCEPT ![call[c].session] = Renewed(c)]
  /\ call' = [call EXCEPT ![c].at = "inside", ![c].session = None,
                          ![c].manages = Manages(call[c].org, call[c].user)]
  /\ UNCHANGED <<now, account, limit, tenantVars, token, mailed, historyVars>>

\* The request limiter of the session refuses, or is not available.
EnterLimited(c) ==
  /\ At(c, "touched") /\ call[c].goal \in {"request", "me"}
  /\ session' = [session EXCEPT ![call[c].session] = Renewed(c)]
  /\ End(c)
  /\ UNCHANGED <<now, account, limit, tenantVars, token, mailed, historyVars>>

GetMe(c) ==
  /\ At(c, "touched") /\ call[c].goal = "me"
  /\ session' = [session EXCEPT ![call[c].session] = Renewed(c)]
  /\ End(c)
  /\ UNCHANGED <<now, account, limit, tenantVars, token, mailed, historyVars>>

\* The session is replaced by one for the chosen tenant.
SelectContext(c, s) ==
  /\ At(c, "touched") /\ call[c].goal = "context"
  /\ call[c].org \in ActiveOrgs(call[c].user)
  /\ Unused(s)
  /\ call' = [call EXCEPT ![c].at = "switching", ![c].fresh = s,
                          ![c].rows = Revocable(call[c].user, call[c].session)]
  /\ UNCHANGED <<now, account, limit, tenantVars, session, token, mailed, historyVars>>

CommitContext(c) ==
  /\ At(c, "switching")
  /\ session' = [Revoked(call[c].rows) EXCEPT
                   ![call[c].fresh] = NewSession(call[c].user, call[c].org, call[c].since)]
  /\ heirs' = [heirs EXCEPT ![call[c].session] = @ \cup {call[c].fresh}]
  /\ End(c)
  /\ UNCHANGED <<now, account, limit, tenantVars, token, mailed, redeemed>>

Logout(c) ==
  /\ At(c, "touched") /\ call[c].goal = "logout"
  /\ session' = Revoked({call[c].session})
  /\ End(c)
  /\ UNCHANGED <<now, account, limit, tenantVars, token, mailed, historyVars>>
-----------------------------------------------------------------------------
(* Administration of the tenant the call acts in.                           *)

Allowed(c) == At(c, "inside") /\ call[c].manages
\* The functions of the database ask again whether the actor may do it.
StillAllowed(c) == Allowed(c) /\ IsManager(call[c].org, call[c].user)

\* An address that has an account keeps its password; of the system roles one is left.
CreateMembership(o, u, r, p) ==
  /\ account' = [account EXCEPT ![u] =
       IF @.exists THEN @ ELSE [@ EXCEPT !.exists = TRUE, !.password = p]]
  /\ member' = [member EXCEPT ![o][u] = "active"]
  /\ role' = [role EXCEPT ![o][u] = (@ \cap {"CUSTOM"}) \cup {r}]

CreateMember(c, u, r, p) ==
  /\ StillAllowed(c)
  /\ CreateMembership(call[c].org, u, r, p)
  /\ End(c)
  /\ UNCHANGED <<now, limit, custom, session, token, mailed, historyVars>>

SetMembershipActive(o, u, active) ==
  /\ member[o][u] # "none"
  /\ member' = [member EXCEPT ![o][u] = IF active THEN "active" ELSE "inactive"]

SetMemberActive(c, u, active) ==
  /\ StillAllowed(c)
  /\ SetMembershipActive(call[c].org, u, active)
  /\ End(c)
  /\ UNCHANGED <<now, account, limit, role, custom, session, token, mailed, historyVars>>

OfMember(o, u) == {s \in Sessions : session[s].org = o /\ session[s].user = u}

\* revoke_tenant_user_sessions: one UPDATE, of the sessions its snapshot shows.
StartRevoke(c, u) ==
  /\ StillAllowed(c)
  /\ member[call[c].org][u] # "none"
  /\ call' = [call EXCEPT ![c].at = "revoking",
                ![c].rows = {s \in OfMember(call[c].org, u) : session[s].state = "live"}]
  /\ UNCHANGED <<now, account, limit, tenantVars, session, token, mailed, historyVars>>

\* Faulty variant of FinishRevoke: does not wait for rows other calls hold.
RevokeAtOnce(c) ==
  /\ At(c, "revoking")
  /\ session' = Revoked({s \in call[c].rows : session[s].state = "live"})
  /\ End(c)
  /\ UNCHANGED <<now, account, limit, tenantVars, token, mailed, historyVars>>

\* It waits for each row and skips one that was revoked meanwhile.
FinishRevoke(c) ==
  /\ At(c, "revoking")
  /\ \A s \in call[c].rows : FreeSession(c, s)
  /\ session' = Revoked({s \in call[c].rows : session[s].state = "live"})
  /\ End(c)
  /\ UNCHANGED <<now, account, limit, tenantVars, token, mailed, historyVars>>

Without(S) == [s \in Sessions |-> IF s \in S THEN Deleted ELSE session[s]]

\* Faulty variant of DeleteMember: does not wait for a session being opened.
DeleteMemberAtOnce(c, u) ==
  /\ StillAllowed(c)
  /\ u # call[c].user
  /\ LET o == call[c].org IN
     /\ \A s \in OfMember(o, u) : FreeSession(c, s)
     /\ member' = [member EXCEPT ![o][u] = "none"]
     /\ role' = [role EXCEPT ![o][u] = {}]
     /\ session' = Without(OfMember(o, u))
  /\ End(c)
  /\ UNCHANGED <<now, account, limit, custom, token, mailed, historyVars>>

\* The foreign keys take the member's sessions and roles along.
DeleteMembership(o, u) ==
  /\ member' = [member EXCEPT ![o][u] = "none"]
  /\ role' = [role EXCEPT ![o][u] = {}]
  /\ session' = Without(OfMember(o, u))

DeleteMember(c, u) ==
  /\ StillAllowed(c)
  /\ u # call[c].user
  /\ \A s \in OfMember(call[c].org, u) : FreeSession(c, s)
  /\ ~Referenced(call[c].org, u)
  /\ DeleteMembership(call[c].org, u)
  /\ End(c)
  /\ UNCHANGED <<now, account, limit, custom, token, mailed, historyVars>>

\* The routes of roles rely on the permissions read when the call entered.
CreateRole(c) ==
  /\ Allowed(c)
  /\ custom' = custom \cup {call[c].org}
  /\ End(c)
  /\ UNCHANGED <<now, account, limit, member, role, session, token, mailed, historyVars>>

StartAssign(c, u, r) ==
  /\ Allowed(c)
  /\ r = "CUSTOM" => call[c].org \in custom
  /\ member[call[c].org][u] = "active"
  /\ call' = [call EXCEPT ![c].at = "assigning", ![c].user = u, ![c].role = r]
  /\ UNCHANGED <<now, account, limit, tenantVars, session, token, mailed, historyVars>>

\* The foreign key refuses a membership deleted since it was read.
AssignRole(c) ==
  /\ At(c, "assigning")
  /\ LET o == call[c].org
         u == call[c].user
     IN role' = IF member[o][u] = "none" THEN role
                ELSE [role EXCEPT ![o][u] = @ \cup {call[c].role}]
  /\ End(c)
  /\ UNCHANGED <<now, account, limit, member, custom, session, token, mailed, historyVars>>

\* Any other route, and every refusal: 400, 403, 404, a rolled back transaction.
Leave(c) ==
  /\ At(c, "inside")
  /\ End(c)
  /\ UNCHANGED <<now, account, limit, tenantVars, session, token, mailed, historyVars>>
-----------------------------------------------------------------------------
(* Password reset.                                                          *)

\* Faulty variant of Pending: forgets that a token is used only once.
PendingOrUsed(t) == token[t].state \in {"pending", "used"}

Pending(t) == token[t].state = "pending"

PendingOf(u) == {t \in Tokens : token[t].user = u /\ Pending(t)}
Marked(T, state) ==
  [t \in Tokens |-> IF t \in T THEN [token[t] EXCEPT !.state = state] ELSE token[t]]

\* The user's earlier tokens are revoked, the new one inserted.
RequestReset(c, u, t) ==
  /\ account[u].exists
  /\ token[t].state = "unused" /\ \A d \in Calls : call[d].token # t
  /\ \A other \in PendingOf(u) : FreeToken(c, other)
  /\ Start(c, [Waiting EXCEPT !.at = "issuing", !.goal = "issue", !.user = u, !.token = t,
                              !.since = now, !.rows = PendingOf(u)])
  /\ UNCHANGED <<now, account, limit, tenantVars, session, token, mailed, historyVars>>

IssueToken(c) ==
  /\ At(c, "issuing")
  /\ token' = [Marked(call[c].rows, "revoked") EXCEPT
                 ![call[c].token] = [state |-> "pending", user |-> call[c].user,
                                     expires |-> call[c].since + TokenTime]]
  /\ To(c, "delivering")
  /\ UNCHANGED <<now, account, limit, tenantVars, session, mailed, historyVars>>

\* In the background, after the answer; a failure is swallowed.
Deliver(c) ==
  /\ At(c, "delivering")
  /\ \/ mailed' = mailed \cup {call[c].token}
     \/ UNCHANGED mailed
  /\ End(c)
  /\ UNCHANGED <<now, account, limit, tenantVars, session, token, historyVars>>

StartConfirm(c, t, p) ==
  /\ t \in mailed
  /\ Start(c, [Waiting EXCEPT !.at = "confirming", !.goal = "confirm", !.token = t,
                              !.password = p, !.since = now])
  /\ UNCHANGED <<now, account, limit, tenantVars, session, token, mailed, historyVars>>

\* SELECT ... FOR UPDATE, then the checks on what it returned.
LockToken(c) ==
  /\ At(c, "confirming")
  /\ FreeToken(c, call[c].token)
  /\ IF Pending(call[c].token) /\ token[call[c].token].expires > call[c].since
     THEN call' = [call EXCEPT ![c].at = "consuming", ![c].user = token[call[c].token].user]
     ELSE End(c)
  /\ UNCHANGED <<now, account, limit, tenantVars, session, token, mailed, historyVars>>

\* consume_password_reset.  Its transaction names neither a user nor a session,
\* so that its UPDATE of the sessions reaches none.
Consume(c) ==
  /\ At(c, "consuming")
  /\ LET t == call[c].token
         u == call[c].user
     IN /\ Pending(t)
        /\ \A other \in PendingOf(u) : FreeToken(c, other)
        /\ account' = [account EXCEPT ![u].password = call[c].password,
                                      ![u].failures = 0, ![u].locked = 0]
        /\ token' = [Marked(PendingOf(u), "revoked") EXCEPT
                       ![t] = [token[t] EXCEPT !.state = "used"]]
        /\ session' = Revoked(Revocable(None, None))
        /\ redeemed' = [redeemed EXCEPT ![t] = @ + 1]
  /\ End(c)
  /\ UNCHANGED <<now, limit, tenantVars, mailed, heirs>>
-----------------------------------------------------------------------------
\* A transaction rolls back, a request is cancelled or a process ends: what
\* was not committed is gone.
Abort(c) ==
  /\ call[c].at \notin {"waiting", "ended"}
  /\ End(c)
  /\ UNCHANGED <<now, account, limit, tenantVars, session, token, mailed, historyVars>>

Tick ==
  /\ now < MaxTime
  /\ now' = now + 1
  /\ UNCHANGED <<account, limit, tenantVars, session, token, mailed, call, historyVars>>

\* The console before the calls: one user administers every tenant, the others
\* belong to some of them or have no account yet, and who belongs is logged in.
Init ==
  /\ now = 0
  /\ \E admin \in Users, accounts \in SUBSET Users, homes \in SUBSET Orgs, p \in Passwords :
       LET tenants(u) == IF u = admin THEN Orgs ELSE IF u \in accounts THEN homes ELSE {} IN
       /\ admin \in accounts
       /\ account = [u \in Users |-> [exists |-> u \in accounts,
                                      password |-> IF u \in accounts THEN p ELSE None,
                                      failures |-> 0, locked |-> 0]]
       /\ member = [o \in Orgs |-> [u \in Users |-> IF o \in tenants(u) THEN "active" ELSE "none"]]
       /\ role = [o \in Orgs |-> [u \in Users |->
            IF o \notin tenants(u) THEN {} ELSE IF u = admin THEN {"ADMIN"} ELSE {"READER"}]]
       /\ \E open \in [accounts -> Sessions], org \in [accounts -> Maybe(Orgs)] :
            /\ \A u \in accounts : org[u] \in Maybe(tenants(u))
            /\ \A u, v \in accounts : u # v => open[u] # open[v]
            /\ org[admin] # None
            /\ session = [s \in Sessions |->
                 IF \E u \in accounts : open[u] = s /\ tenants(u) # {}
                 THEN LET u == CHOOSE v \in accounts : open[v] = s IN NewSession(u, org[u], 0)
                 ELSE NoSession]
       /\ \E old \in SUBSET Tokens, u \in accounts :
            /\ Cardinality(old) <= 1
            /\ token = [t \in Tokens |->
                 IF t \in old THEN [state |-> "pending", user |-> u, expires |-> TokenTime]
                              ELSE NoToken]
            /\ mailed = old
  /\ limit = [u \in Users |-> [failures |-> 0, until |-> 0, blocked |-> 0]]
  /\ custom = {}
  /\ call = [c \in Calls |-> Waiting]
  /\ heirs = [s \in Sessions |-> {}]
  /\ redeemed = [t \in Tokens |-> 0]

Login(c) ==
  \/ \E u \in Users, p \in Passwords, s \in Maybe(Sessions) : StartLogin(c, u, p, s)
  \/ Limited(c) \/ ReadCredential(c) \/ ListMemberships(c)
  \/ \E s \in Sessions : OpenSession(c, s)
  \/ OpenRefused(c) \/ CommitLogin(c) \/ CountSuccess(c) \/ RecordFailure(c) \/ CountFailure(c)

UseSession(c) ==
  \/ \E s \in Sessions :
       \/ \E o \in Orgs : StartContext(c, s, o)
       \/ StartLogout(c, s) \/ StartMe(c, s) \/ StartRequest(c, s)
       \/ SelectContext(c, s)
  \/ Touch(c) \/ Enter(c) \/ EnterLimited(c) \/ GetMe(c) \/ CommitContext(c) \/ Logout(c)

Administer(c) ==
  \/ \E u \in Users :
       \/ \E r \in {"ADMIN", "READER"}, p \in Passwords : CreateMember(c, u, r, p)
       \/ \E active \in BOOLEAN : SetMemberActive(c, u, active)
       \/ StartRevoke(c, u) \/ DeleteMember(c, u)
       \/ \E r \in Roles : StartAssign(c, u, r)
  \/ AssignRole(c) \/ FinishRevoke(c) \/ CreateRole(c) \/ Leave(c)

Reset(c) ==
  \/ \E u \in Users, t \in Tokens : RequestReset(c, u, t)
  \/ \E t \in Tokens, p \in Passwords : StartConfirm(c, t, p)
  \/ IssueToken(c) \/ Deliver(c) \/ LockToken(c) \/ Consume(c)

Next == Tick \/ \E c \in Calls : Login(c) \/ UseSession(c) \/ Administer(c) \/ Reset(c) \/ Abort(c)

Spec == Init /\ [][Next]_vars
-----------------------------------------------------------------------------
(* Properties.                                                              *)

\* Who has been removed from a tenant has no session and no role in it, even
\* when the removal meets a login, a change of context or an assignment half-way
\* (fk_user_sessions_membership, fk_user_roles_membership).
AccessNeedsMembership ==
  \A o \in Orgs, u \in Users : member[o][u] = "none" =>
    /\ role[o][u] = {}
    /\ \A s \in Sessions : session[s].user = u /\ session[s].org = o =>
         session[s].state = "deleted"

\* A change of context replaces a session by one other: two changes at once do
\* not leave the user with two sessions made from one.
OneSuccessor == \A s \in Sessions : Cardinality(heirs[s]) <= 1

\* "Una sesión revocada pierde acceso inmediatamente" (tasks/todo.md): no call is
\* let in, switched or logged out on a session that was revoked or deleted after
\* the call had read it.
AdmittedWhileLive ==
  \A c \in Calls : call[c].at \in {"touched", "switching"} =>
    session[call[c].session].state = "live"

\* "Consumo único con bloqueo de fila" (tasks/todo.md): a token sets one password
\* at most, and none that was revoked, expired or replaced sets any.
RedeemedOnce ==
  \A t \in Tokens : /\ redeemed[t] <= 1
                    /\ redeemed[t] = 1 <=> token[t].state = "used"

\* "Cambio de contraseña revoca sesiones" (tasks/todo.md): when a token has set
\* a new password, no session of its user that existed before is still live.
ResetRevokesSessions ==
  [][\A t \in Tokens : redeemed'[t] # redeemed[t] =>
       \A s \in Sessions : session'[s].state = "live" => session'[s].user # token[t].user]_vars
-----------------------------------------------------------------------------
(* The inductive invariant behind the first four properties.                *)

\* A session that was replaced is over, and has one heir.
HeirInv ==
  \A s \in Sessions :
    heirs[s] = {} \/ (session[s].state \in {"revoked", "deleted"} /\ \E x \in Sessions : heirs[s] = {x})

\* An identifier that is not used yet, or whose session was deleted, belongs to
\* nobody.
UnusedInv ==
  \A s \in Sessions : /\ session[s].state = "unused" => session[s].org = None
                      /\ session[s].state = "deleted" => session[s].user = None

MailedInv == \A t \in mailed : token[t].state # "unused"

Inserting == {"opened", "switching"}
Admitted  == {"touched", "switching"}

\* The session a call was admitted with is live, and its user's.
OnSession(r) ==
  r.at \in Admitted => /\ r.session \in Sessions
                       /\ session[r.session].state = "live" /\ session[r.session].user = r.user

\* A call that opens a session has an identifier for it, a membership, and
\* changes no row but the one of the session it presented.
OnFresh(r) ==
  r.at \in Inserting =>
    /\ r.fresh \in Sessions /\ session[r.fresh].state = "unused"
    /\ r.org \in Orgs /\ r.user \in Users => member[r.org][r.user] # "none"
    /\ r.rows \subseteq {r.session}
    /\ \A s \in r.rows : s \in Sessions /\ session[s].state = "live"
    /\ r.at = "switching" => r.rows = {r.session}

\* A call that issues a token has a new one, and revokes tokens that are pending.
OnToken(r) ==
  /\ r.at = "issuing" => /\ r.token \in Tokens /\ token[r.token].state = "unused"
                         /\ \A t \in r.rows : t \in Tokens /\ Pending(t)
  /\ r.at = "delivering" => r.token \in Tokens /\ token[r.token].state # "unused"
  /\ r.at \in {"confirming", "consuming"} => r.token \in Tokens

\* A handler that administers acts in a tenant, and assigns one of its roles.
OnTenant(r) ==
  /\ r.at \in {"inside", "revoking", "assigning"} => r.org \in Orgs
  /\ r.at = "assigning" => r.role \in Roles
  /\ r.goal = "request" /\ r.at \in {"found", "touched"} => r.org \in Orgs

Fits(r) == OnSession(r) /\ OnFresh(r) /\ OnToken(r) /\ OnTenant(r)

TokensOf(r) == CASE r.at = "consuming" -> {r.token}
                 [] r.at = "issuing"   -> r.rows
                 [] OTHER -> {}

\* Two calls hold no session and no token in common, and create none in common.
Excludes(r, q) ==
  /\ r.at \in Inserting \cup Admitted /\ q.at \in Inserting \cup Admitted =>
       r.session = None \/ r.session # q.session
  /\ r.at \in Inserting /\ q.at \in Inserting => r.fresh # q.fresh
  /\ TokensOf(r) \cap TokensOf(q) = {}
  /\ r.at = "issuing" /\ q.at = "issuing" => r.token # q.token

IInv ==
  /\ TypeOK
  /\ AccessNeedsMembership
  /\ HeirInv
  /\ UnusedInv
  /\ MailedInv
  /\ RedeemedOnce
  /\ \A c \in Calls : Fits(call[c])
  /\ \A c, d \in Calls : c # d => Excludes(call[c], call[d])
=============================================================================
