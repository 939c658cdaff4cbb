------------------------------ MODULE Identity ------------------------------
(***************************************************************************)
(* Staff, accounts and signed-in sessions (backend/identity/accounts.py,   *)
(* sessions.py, browser_sessions.py) and the two HTTP surfaces over them:  *)
(* the bearer API (webapp/api_v1) and the cookie API (webapp/web_api).     *)
(*                                                                         *)
(* A request is Begin, the unlocked check of its access token, and later   *)
(* one step with everything from the first row lock to the commit.  What   *)
(* the check loaded stays in the ORM session: a later SELECT .. FOR UPDATE *)
(* of the same row locks it and returns the object as it was loaded        *)
(* (Loaded), and the flush writes only the fields that differ from what    *)
(* was loaded (Flush).  Sign-in and renewal check no token first.          *)
(*                                                                         *)
(* An open request is any command until it takes the step of one.          *)
(*                                                                         *)
(* Time is nondeterminism: a refusal for an expired credential changes     *)
(* nothing and is no step, and a timed lock may be found over at any       *)
(* sign-in.  `ended` and `misses` are history for the properties.          *)
(***************************************************************************)
EXTENDS Naturals, FiniteSets

CONSTANTS
    People,         \* staff members; each has at most one account
    Sessions,       \* rows of sessions, in the order they are handed out
    Requests,       \* authenticated requests that may be open at a time
    LockAfter,      \* failed attempts that lock (5)
    MaxVersion, MaxToken, MaxCycle,     \* bounds of the counters
    MaxMisses,      \* bound of the history of wrong PINs
    None

ASSUME IdentityAssumption ==
    /\ LockAfter \in Nat \ {0}
    /\ MaxVersion \in Nat /\ MaxToken \in Nat /\ MaxCycle \in Nat /\ MaxMisses \in Nat
    /\ None \notin People \cup Sessions

VARIABLES
    onDuty,     \* staff_members.is_active
    account,    \* accounts, by staff member: [role, status, version, failed, cycle, must]
    session,    \* sessions: [owner, version, token, revoked]
    request,    \* the open requests and what their ORM session has loaded:
                \* [at, account, token, rows], rows being those it has locked
    ended,      \* sessions whose account had its sessions ended since they began
    misses      \* wrong PINs in a row answered to each person

vars == <<onDuty, account, session, request, ended, misses>>

Roles     == {"user", "admin"}
Routes    == {"bearer", "browser"}
NoAccount == [role |-> "none"]
NoSession == [owner |-> None]
Idle      == [rows |-> {}]

Exists(p)  == account[p] # NoAccount
Issued(s)  == session[s] # NoSession
Owned(p)   == {s \in Sessions : Issued(s) /\ session[s].owner = p}
Live(p)    == {s \in Owned(p) : ~session[s].revoked}
\* _require_active: account and staff member
Active(p)  == Exists(p) /\ account[p].status = "active" /\ onDuty[p]
\* the tests of resolve_access_session that do not depend on the clock
Valid(s) ==
    /\ Issued(s) /\ ~session[s].revoked
    /\ Active(session[s].owner)
    /\ session[s].version = account[session[s].owner].version

Init ==
    /\ onDuty = [p \in People |-> TRUE]
    /\ account = [p \in People |-> NoAccount]
    /\ session = [s \in Sessions |-> NoSession]
    /\ request = [r \in Requests |-> Idle]
    /\ ended = {}
    /\ misses = [p \in People |-> 0]

-----------------------------------------------------------------------------
(* Sign-in and renewal                                                     *)

NewAccount(role) ==
    [role |-> role, status |-> "active", version |-> 1, failed |-> 0,
     cycle |-> 0, must |-> TRUE]

Bootstrap(p) ==
    /\ \A q \in People : ~Exists(q)
    /\ onDuty[p]
    /\ account' = [account EXCEPT ![p] = NewAccount("admin")]
    /\ UNCHANGED <<onDuty, session, request, ended, misses>>

ResetFailures(a) ==
    [a EXCEPT !.failed = 0, !.cycle = 0,
              !.status = IF a.status = "locked" THEN "active" ELSE a.status]

RecordFailure(a) ==
    IF a.failed + 1 < LockAfter
    THEN [a EXCEPT !.failed = @ + 1]
    ELSE [a EXCEPT !.failed = @ + 1, !.cycle = @ + 1, !.status = "locked"]

\* a timed lock that is over when somebody signs in; the cycle is kept
ReleaseLock(a) ==
    IF a.status = "locked" THEN [a EXCEPT !.status = "active", !.failed = 0] ELSE a

\* create_session: the first tokens of a session, for the version of the account
NewSession(p, a) == [owner |-> p, version |-> a.version, token |-> 0, revoked |-> FALSE]

\* verify_login_pin and create_session, under the lock of the account row
SignIn(p, over) ==
    /\ Exists(p) /\ onDuty[p]
    /\ LET a == IF over THEN ReleaseLock(account[p]) ELSE account[p] IN
       /\ a.status = "active"
       /\ account' = [account EXCEPT ![p] = ResetFailures(a)]
       /\ \E s \in Sessions :
             /\ ~Issued(s)
             /\ session' = [session EXCEPT ![s] = NewSession(p, a)]
    /\ misses' = [misses EXCEPT ![p] = 0]
    /\ UNCHANGED <<onDuty, request, ended>>

\* a wrong PIN.  The bearer route catches InvalidCredentials inside its
\* transaction and commits; the browser route lets it leave session_scope
RefuseSignIn(p, route, over) ==
    /\ Exists(p) /\ onDuty[p]
    /\ LET a == IF over THEN ReleaseLock(account[p]) ELSE account[p]
           b == RecordFailure(a) IN
       /\ a.status = "active" /\ b.cycle <= MaxCycle
       /\ account' = [account EXCEPT ![p] = IF route = "bearer" THEN b ELSE @]
       /\ misses' = [misses EXCEPT ![p] =
                        IF route = "bearer" /\ b.status = "locked" THEN 0
                        ELSE IF @ < MaxMisses THEN @ + 1 ELSE @]
    /\ UNCHANGED <<onDuty, session, request, ended>>

\* staff off duty, or a temporary PIN that has expired: the release of a
\* timed lock is all that a refused bearer sign-in leaves behind
RefuseReleased(p, route) ==
    /\ Exists(p) /\ account[p].status = "locked" /\ route = "bearer"
    /\ ~onDuty[p] \/ account[p].must
    /\ account' = [account EXCEPT ![p] = ReleaseLock(@)]
    /\ UNCHANGED <<onDuty, session, request, ended, misses>>

\* the rows another transaction has locked
LockedRows(r) == UNION {request[q].rows : q \in Requests \ {r}}
Unlocked(s)   == \A q \in Requests : s \notin request[q].rows

\* renew_session: the current token is replaced by the next one
Renew(s) ==
    /\ Valid(s) /\ Unlocked(s)
    /\ session[s].token < MaxToken
    /\ session' = [session EXCEPT ![s].token = @ + 1]
    /\ UNCHANGED <<onDuty, account, request, ended, misses>>

\* The bearer route catches SessionReauthenticationRequired inside its
\* transaction and commits; the browser route lets it leave session_scope.
CommitsReuse(route) == route = "bearer"

\* a token that was replaced earlier is presented again: the session is
\* revoked, unless the rollback undoes it
RenewReused(s, route) ==
    /\ Issued(s) /\ session[s].token > 0 /\ Unlocked(s)
    /\ CommitsReuse(route)
    /\ session' = [session EXCEPT ![s].revoked = TRUE]
    /\ UNCHANGED <<onDuty, account, request, ended, misses>>

-----------------------------------------------------------------------------
(* Authenticated requests                                                  *)

\* require_access_token and require_browser_session
Begin(r, s) ==
    /\ request[r] = Idle /\ Valid(s)
    /\ request' = [request EXCEPT ![r] =
           [at |-> s, account |-> account[session[s].owner],
            token |-> session[s].token, rows |-> {}]]
    /\ UNCHANGED <<onDuty, account, session, ended, misses>>

\* an error, a refusal, a deadlock, a NOWAIT lock not available: rollback
Abort(r) ==
    /\ request[r] # Idle
    /\ request' = [request EXCEPT ![r] = Idle]
    /\ UNCHANGED <<onDuty, account, session, ended, misses>>

By(r) == session[request[r].at].owner
\* a command may start: the request is open and waits for no row
Ready(r)   == request[r] # Idle /\ request[r].rows = {}
AdminReady(r) == Ready(r) /\ request[r].account.role = "admin"
\* the account object a command works on: its own, loaded by Begin, or fresh
Loaded(r, p) == IF By(r) = p THEN request[r].account ELSE account[p]
Flush(db, loaded, new) ==
    [f \in DOMAIN db |-> IF new[f] = loaded[f] THEN db[f] ELSE new[f]]
Store(r, p, new) ==
    /\ new.version <= MaxVersion
    /\ account' = [account EXCEPT ![p] = Flush(@, Loaded(r, p), new)]
Revoke(S)   == [s \in Sessions |-> IF s \in S THEN [session[s] EXCEPT !.revoked = TRUE]
                                   ELSE session[s]]
Done(r) == request' = [request EXCEPT ![r] = Idle]

\* revoke_session: one session of the actor's own
RevokeSession(r, s) ==
    /\ s \in Owned(By(r)) /\ s \notin LockedRows(r)
    /\ session' = Revoke({s})

\* logout_route, delete_session_route
Logout(r) ==
    /\ Ready(r)
    /\ \E s \in Sessions : RevokeSession(r, s)
    /\ Done(r)
    /\ UNCHANGED <<onDuty, account, ended, misses>>

\* logout_all locks the sessions it finds, then waits for the account row
LogoutAllRows(r) ==
    /\ Ready(r)
    /\ Owned(By(r)) \cap LockedRows(r) = {}
    /\ request' = [request EXCEPT ![r].rows = Owned(By(r))]
    /\ UNCHANGED <<onDuty, account, session, ended, misses>>

LogoutAll(r) ==
    /\ request[r].rows # {}
    /\ Store(r, By(r), [Loaded(r, By(r)) EXCEPT !.version = @ + 1])
    /\ session' = Revoke(request[r].rows)
    /\ Done(r)
    /\ UNCHANGED <<onDuty, ended, misses>>

\* change_pin tests the session and account objects Begin loaded; the unique
\* token hash in the renewal history stops one that was renewed meanwhile
ReplacePin(r, p, s) ==
    LET a == Loaded(r, p) IN
    /\ Owned(p) \cap LockedRows(r) = {}
    /\ session[s].token = request[r].token /\ session[s].token < MaxToken
    /\ Store(r, p, [a EXCEPT !.must = FALSE, !.version = @ + 1])
    /\ session' = [Revoke(Owned(p) \ {s}) EXCEPT
                     ![s].version = a.version + 1, ![s].token = @ + 1]
    /\ ended' = ended \cup (Owned(p) \ {s})

\* change_pin_route
ChangePin(r) ==
    /\ Ready(r)
    /\ ReplacePin(r, By(r), request[r].at)
    /\ Done(r)
    /\ UNCHANGED <<onDuty, misses>>

-----------------------------------------------------------------------------
(* Administration: the account row first, then its sessions with NOWAIT    *)

CanRevoke(r, p) == Live(p) \cap LockedRows(r) = {}
\* Faulty: leaves the sessions to the new auth_version.
BumpOnly(r, p) ==
    /\ ended' = ended \cup Owned(p)
    /\ UNCHANGED session
EndSessions(r, p) ==
    /\ CanRevoke(r, p)
    /\ session' = Revoke(Live(p))
    /\ ended' = ended \cup Owned(p)

SetStaff(r, p) ==
    /\ AdminReady(r)
    /\ onDuty' = [onDuty EXCEPT ![p] = ~@]
    /\ Done(r)
    /\ UNCHANGED <<account, session, ended, misses>>

\* create_account: for staff on duty without an account
AddAccount(p, role) ==
    /\ onDuty[p] /\ ~Exists(p)
    /\ account' = [account EXCEPT ![p] = NewAccount(role)]

CreateAccount(r, p, role) ==
    /\ AdminReady(r)
    /\ AddAccount(p, role)
    /\ Done(r)
    /\ UNCHANGED <<onDuty, session, ended, misses>>

\* lock_active_admins: a locking SELECT, so its WHERE is evaluated afresh
ActiveAdmins == {q \in People : Exists(q) /\ account[q].role = "admin"
                                          /\ account[q].status = "active"}
\* Faulty: counts the administrators of any status.
LastAdmin(a, p, role, status) ==
    /\ a.role = "admin" /\ a.status = "active"
    /\ role # "admin" \/ status # "active"
    /\ {q \in People \ {p} : Exists(q) /\ account[q].role = "admin"} = {}
\* ensure_not_last_active_admin
LastActiveAdmin(a, p, role, status) ==
    /\ a.role = "admin" /\ a.status = "active"
    /\ role # "admin" \/ status # "active"
    /\ ActiveAdmins \ {p} = {}

\* change_account_role_or_status
SetAccount(r, p, role, status) ==
    /\ AdminReady(r) /\ Exists(p)
    /\ LET a == Loaded(r, p) IN
       /\ ~LastActiveAdmin(a, p, role, status)
       /\ ~(a.status = "locked" /\ status = "active")
       /\ <<a.role, a.status>> # <<role, status>>
       /\ Store(r, p, [a EXCEPT !.role = role, !.status = status, !.version = @ + 1])
       /\ IF a.role # role \/ status = "deactivated"
          THEN EndSessions(r, p)
          ELSE UNCHANGED <<session, ended>>
    /\ Done(r)
    /\ UNCHANGED <<onDuty, misses>>

ResetPin(r, p) ==
    /\ AdminReady(r) /\ Exists(p)
    /\ LET a == Loaded(r, p) IN
       Store(r, p, [ResetFailures(a) EXCEPT !.must = TRUE, !.version = @ + 1])
    /\ EndSessions(r, p)
    /\ Done(r)
    /\ misses' = [misses EXCEPT ![p] = 0]
    /\ UNCHANGED onDuty

Unlock(r, p) ==
    /\ AdminReady(r) /\ Exists(p)
    /\ LET a == Loaded(r, p) IN
       /\ a.status = "locked"
       /\ Store(r, p, [ResetFailures(a) EXCEPT !.version = @ + 1])
    /\ EndSessions(r, p)
    /\ Done(r)
    /\ misses' = [misses EXCEPT ![p] = 0]
    /\ UNCHANGED onDuty

RevokeOne(r, s) ==
    /\ AdminReady(r)
    /\ Issued(s) /\ s \notin LockedRows(r)
    /\ s = request[r].at \/ ~session[s].revoked
    /\ session' = Revoke({s})
    /\ Done(r)
    /\ UNCHANGED <<onDuty, account, ended, misses>>

RevokeAll(r, p) ==
    /\ AdminReady(r) /\ Exists(p)
    /\ Store(r, p, [Loaded(r, p) EXCEPT !.version = @ + 1])
    /\ EndSessions(r, p)
    /\ Done(r)
    /\ UNCHANGED <<onDuty, misses>>

Administer(r) ==
    \/ \E p \in People :
          \/ SetStaff(r, p) \/ ResetPin(r, p) \/ Unlock(r, p) \/ RevokeAll(r, p)
          \/ \E role \in Roles : CreateAccount(r, p, role)
          \/ \E role \in Roles, status \in {"active", "deactivated"} :
                SetAccount(r, p, role, status)
    \/ \E s \in Sessions : RevokeOne(r, s)

Next ==
    \/ \E p \in People : Bootstrap(p)
    \/ \E p \in People, over \in BOOLEAN : SignIn(p, over)
    \/ \E p \in People, route \in Routes :
          \/ \E over \in BOOLEAN : RefuseSignIn(p, route, over)
          \/ RefuseReleased(p, route)
    \/ \E s \in Sessions : Renew(s) \/ \E route \in Routes : RenewReused(s, route)
    \/ \E r \in Requests :
          \/ \E s \in Sessions : Begin(r, s)
          \/ Abort(r) \/ Logout(r) \/ LogoutAllRows(r) \/ LogoutAll(r) \/ ChangePin(r)
          \/ Administer(r)

Spec == Init /\ [][Next]_vars

-----------------------------------------------------------------------------
(* Properties                                                              *)

\* Requests of several administrators, each with the account object it
\* loaded earlier, may demote and deactivate each other in any order: only
\* wrong PINs can take the last active administrator away, because
\* lock_active_admins counts after it has the locks.
OnlyMissesLockAdminsOut ==
    [][ActiveAdmins # {} /\ ActiveAdmins' = {} =>
           \E p \in People : Exists(p) /\ account'[p].cycle > account[p].cycle]_vars

\* A session that existed when an administrator ended the sessions of its
\* account (role change, deactivation, PIN reset, unlock, revocation), or
\* when the PIN was changed from another session, is never accepted again,
\* although commands write the auth_version they computed from a stale row.
EndedSessionsStayOut == \A s \in ended : ~Valid(s)

\* The design's "five consecutive failed attempts create a lock": nobody is
\* answered LockAfter wrong PINs in a row without the account being locked.
MissesLock == \A p \in People : misses[p] < LockAfter
=============================================================================
