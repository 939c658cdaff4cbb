--------------------------- MODULE IdentityProofs ---------------------------
(***************************************************************************)
(* Proofs about Identity for any number of people, sessions, requests and  *)
(* bounds.                                                                 *)
(*                                                                         *)
(* What keeps an ended session out is not its auth_version, which commands *)
(* compute from rows that may be stale, but its row: an administrator's    *)
(* EndSessions and a PIN change revoke the rows they end under their       *)
(* locks, and no command of any request takes a revocation back            *)
(* (KeepsRevocations).                                                     *)
(*                                                                         *)
(* What keeps an administrator in is that lock_active_admins counts the    *)
(* others afresh, and that the one account a command takes from memory is  *)
(* its own, which was active when the request was authenticated            *)
(* (LoadedActive): a stale row can only make the check stricter.           *)
(***************************************************************************)
EXTENDS Identity, TLAPS

\* An issued row is revoked or not, and belongs to somebody.
RowsHaveFields ==
    /\ session = [s \in Sessions |-> session[s]]
    /\ \A s \in Sessions : Issued(s) =>
          /\ "revoked" \in DOMAIN session[s]
          /\ "owner" \in DOMAIN session[s] /\ session[s].owner \in People

EndedAreRevoked ==
    /\ ended \subseteq Sessions
    /\ \A s \in ended : "revoked" \in DOMAIN session[s] /\ session[s].revoked

IInv == RowsHaveFields /\ EndedAreRevoked

\* A step that takes no revocation back and gives no session away.
KeepsRevocations ==
    /\ session' = [s \in Sessions |-> session'[s]]
    /\ \A s \in Sessions :
          /\ session[s] = NoSession => session'[s] = NoSession
          /\ DOMAIN session'[s] = DOMAIN session[s]
          /\ "revoked" \in DOMAIN session[s] /\ session[s].revoked => session'[s].revoked
          /\ "owner" \in DOMAIN session[s] => session'[s].owner = session[s].owner

\* Such a step may end sessions that it finds or leaves revoked.
LEMMA KeepingKeeps ==
  ASSUME IInv, KeepsRevocations, ended' \subseteq Sessions,
         \A s \in ended' \ ended : Issued(s) /\ session'[s].revoked
  PROVE  IInv'
  <1>1. RowsHaveFields'
    BY DEF IInv, RowsHaveFields, KeepsRevocations, Issued
  <1>2. EndedAreRevoked'
    BY DEF IInv, RowsHaveFields, EndedAreRevoked, KeepsRevocations
  <1> QED BY <1>1, <1>2 DEF IInv

\* A row that was not issued has no field to write.
LEMMA NothingToWrite ==
  ASSUME NEW v
  PROVE  /\ [NoSession EXCEPT !.revoked = v] = NoSession
         /\ [NoSession EXCEPT !.version = v] = NoSession
         /\ [NoSession EXCEPT !.token = v] = NoSession
  BY DEF NoSession

\* What a command that writes another field leaves of a row.
WritesBeside(row, new) ==
    /\ row = NoSession => new = NoSession
    /\ DOMAIN new = DOMAIN row
    /\ "revoked" \in DOMAIN row => new.revoked = row.revoked
    /\ "owner" \in DOMAIN row => new.owner = row.owner

LEMMA WritingVersion ==
  ASSUME NEW f, f = [x \in Sessions |-> f[x]], NEW s, NEW v
  PROVE  LET g == [f EXCEPT ![s].version = v]
         IN  /\ g = [x \in Sessions |-> g[x]]
             /\ \A x \in Sessions : WritesBeside(f[x], g[x])
  <1> DEFINE g == [f EXCEPT ![s].version = v]
  <1>1. g = [x \in Sessions |-> g[x]]
    OBVIOUS
  <1>2. \A x \in Sessions : x # s => g[x] = f[x]
    OBVIOUS
  <1>3. s \in Sessions => g[s] = [f[s] EXCEPT !.version = v]
    OBVIOUS
  <1> HIDE DEF g
  <1>4. WritesBeside(f[s], [f[s] EXCEPT !.version = v])
    BY NothingToWrite DEF WritesBeside
  <1>5. \A row : WritesBeside(row, row)
    BY DEF WritesBeside
  <1>6. \A x \in Sessions : WritesBeside(f[x], g[x])
    BY <1>2, <1>3, <1>4, <1>5
  <1> QED BY <1>1, <1>6 DEF g

LEMMA WritingToken ==
  ASSUME NEW f, f = [x \in Sessions |-> f[x]], NEW s
  PROVE  LET g == [f EXCEPT ![s].token = @ + 1]
         IN  /\ g = [x \in Sessions |-> g[x]]
             /\ \A x \in Sessions : WritesBeside(f[x], g[x])
  <1> DEFINE g == [f EXCEPT ![s].token = @ + 1]
  <1>1. g = [x \in Sessions |-> g[x]]
    OBVIOUS
  <1>2. \A x \in Sessions : x # s => g[x] = f[x]
    OBVIOUS
  <1>3. s \in Sessions => g[s] = [f[s] EXCEPT !.token = @ + 1]
    OBVIOUS
  <1> HIDE DEF g
  <1>4. WritesBeside(f[s], [f[s] EXCEPT !.token = @ + 1])
    BY NothingToWrite DEF WritesBeside
  <1>5. \A row : WritesBeside(row, row)
    BY DEF WritesBeside
  <1>6. \A x \in Sessions : WritesBeside(f[x], g[x])
    BY <1>2, <1>3, <1>4, <1>5
  <1> QED BY <1>1, <1>6 DEF g

\* _revoke marks the rows it is given and nothing else.
LEMMA Revoking ==
  ASSUME RowsHaveFields, NEW S
  PROVE  /\ Revoke(S) = [s \in Sessions |-> Revoke(S)[s]]
         /\ \A s \in Sessions :
               /\ session[s] = NoSession => Revoke(S)[s] = NoSession
               /\ DOMAIN Revoke(S)[s] = DOMAIN session[s]
               /\ "revoked" \in DOMAIN session[s] /\ session[s].revoked
                     => Revoke(S)[s].revoked
               /\ "revoked" \in DOMAIN session[s] /\ s \in S => Revoke(S)[s].revoked
               /\ "owner" \in DOMAIN session[s] => Revoke(S)[s].owner = session[s].owner
  BY NothingToWrite DEF RowsHaveFields, Revoke

LEMMA RevokingKeeps ==
  ASSUME RowsHaveFields, NEW S, session' = Revoke(S)
  PROVE  KeepsRevocations
  BY Revoking DEF KeepsRevocations

\* Rows that are left alone keep everything.
LEMMA UntouchedKeeps ==
  ASSUME IInv, UNCHANGED <<session, ended>>
  PROVE  IInv'
  BY DEF IInv, RowsHaveFields, EndedAreRevoked, Issued

-----------------------------------------------------------------------------
LEMMA InitIInv == Init => IInv
  <1> SUFFICES ASSUME Init PROVE IInv
    OBVIOUS
  <1>1. \A s \in Sessions : session[s] = NoSession
    BY DEF Init
  <1> QED BY <1>1 DEF Init, IInv, RowsHaveFields, EndedAreRevoked, Issued

LEMMA SignInKeeps ==
  ASSUME IInv, NEW p \in People, NEW over \in BOOLEAN, SignIn(p, over)
  PROVE  IInv'
  <1>1. PICK s \in Sessions :
           /\ ~Issued(s)
           /\ \E v : session' = [session EXCEPT ![s] =
                  [owner |-> p, version |-> v, token |-> 0, revoked |-> FALSE]]
    BY DEF SignIn, NewSession
  <1>2. PICK v : session' = [session EXCEPT ![s] =
                  [owner |-> p, version |-> v, token |-> 0, revoked |-> FALSE]]
    BY <1>1
  <1> DEFINE row == [owner |-> p, version |-> v, token |-> 0, revoked |-> FALSE]
  <1>3. "revoked" \in DOMAIN row /\ "owner" \in DOMAIN row /\ row.owner = p
    OBVIOUS
  <1>4. session' = [session EXCEPT ![s] = row]
    BY <1>2
  <1> HIDE DEF row
  <1>5. s \notin ended
    BY <1>1 DEF IInv, EndedAreRevoked, Issued, NoSession
  <1>6. RowsHaveFields'
    BY <1>3, <1>4 DEF IInv, RowsHaveFields, Issued
  <1>7. EndedAreRevoked'
    BY <1>4, <1>5 DEF SignIn, IInv, RowsHaveFields, EndedAreRevoked
  <1> QED BY <1>6, <1>7 DEF IInv

LEMMA RenewKeeps ==
  ASSUME IInv, NEW s \in Sessions, Renew(s)
  PROVE  IInv'
  <1>1. KeepsRevocations
    BY DEF Renew, Valid, Issued, IInv, RowsHaveFields, KeepsRevocations
  <1> QED BY <1>1, KeepingKeeps DEF Renew, IInv, EndedAreRevoked

LEMMA RenewReusedKeeps ==
  ASSUME IInv, NEW s \in Sessions, NEW route \in Routes, RenewReused(s, route)
  PROVE  IInv'
  <1>1. KeepsRevocations
    BY DEF RenewReused, Issued, IInv, RowsHaveFields, KeepsRevocations
  <1> QED BY <1>1, KeepingKeeps DEF RenewReused, IInv, EndedAreRevoked

LEMMA LogoutKeeps ==
  ASSUME IInv, NEW r \in Requests, Logout(r)
  PROVE  IInv'
  <1>1. KeepsRevocations
    BY RevokingKeeps DEF Logout, RevokeSession, IInv
  <1> QED BY <1>1, KeepingKeeps DEF Logout, RevokeSession, IInv, EndedAreRevoked

LEMMA LogoutAllKeeps ==
  ASSUME IInv, NEW r \in Requests, LogoutAll(r)
  PROVE  IInv'
  <1>1. KeepsRevocations
    BY RevokingKeeps DEF LogoutAll, IInv
  <1> QED BY <1>1, KeepingKeeps DEF LogoutAll, IInv, EndedAreRevoked

LEMMA RevokeOneKeeps ==
  ASSUME IInv, NEW r \in Requests, NEW s \in Sessions, RevokeOne(r, s)
  PROVE  IInv'
  <1>1. KeepsRevocations
    BY RevokingKeeps DEF RevokeOne, IInv
  <1> QED BY <1>1, KeepingKeeps DEF RevokeOne, IInv, EndedAreRevoked

\* A PIN change renews its own session and ends the owner's others.
LEMMA ChangePinKeeps ==
  ASSUME IInv, NEW r \in Requests, ChangePin(r)
  PROVE  IInv'
  <1> DEFINE p == By(r)
             s == request[r].at
             S == Owned(p) \ {s}
             v == Loaded(r, p).version + 1
  <1>1. session' = [Revoke(S) EXCEPT ![s].version = v, ![s].token = @ + 1]
    BY DEF ChangePin, ReplacePin
  <1>2. ended' = ended \cup S /\ S \subseteq Sessions
    BY DEF ChangePin, ReplacePin, Owned
  <1>3. \A x \in S : Issued(x) /\ x # s
    BY DEF Owned
  <1> HIDE DEF S, s, v
  <1> DEFINE R == Revoke(S)
             W == [R EXCEPT ![s].version = v]
  <1>4. /\ R = [x \in Sessions |-> R[x]]
        /\ \A x \in Sessions :
              /\ session[x] = NoSession => R[x] = NoSession
              /\ DOMAIN R[x] = DOMAIN session[x]
              /\ "revoked" \in DOMAIN session[x] /\ session[x].revoked => R[x].revoked
              /\ "revoked" \in DOMAIN session[x] /\ x \in S => R[x].revoked
              /\ "owner" \in DOMAIN session[x] => R[x].owner = session[x].owner
    BY Revoking DEF IInv
  <1>5. session' = [W EXCEPT ![s].token = @ + 1]
    BY <1>1
  <1> HIDE DEF R
  <1>6. /\ W = [x \in Sessions |-> W[x]]
        /\ \A x \in Sessions : WritesBeside(R[x], W[x])
    BY <1>4, WritingVersion
  <1> HIDE DEF W
  <1>7. /\ session' = [x \in Sessions |-> session'[x]]
        /\ \A x \in Sessions : WritesBeside(W[x], session'[x])
    BY <1>5, <1>6, WritingToken
  <1>8. KeepsRevocations
    BY <1>4, <1>6, <1>7 DEF KeepsRevocations, WritesBeside
  <1>9. \A x \in S : session'[x].revoked
    BY <1>2, <1>3, <1>4, <1>6, <1>7 DEF IInv, RowsHaveFields, WritesBeside
  <1> QED BY <1>2, <1>3, <1>8, <1>9, KeepingKeeps DEF IInv, EndedAreRevoked

\* Administration revokes the live sessions of an account and ends them all.
LEMMA EndSessionsKeeps ==
  ASSUME IInv, NEW r \in Requests, NEW p \in People, EndSessions(r, p)
  PROVE  IInv'
  <1>1. KeepsRevocations
    BY RevokingKeeps DEF EndSessions, IInv
  <1>2. \A s \in Owned(p) : s \in Sessions /\ Issued(s)
    BY DEF Owned
  <1>3. \A s \in Owned(p) : session'[s].revoked
    BY <1>2, Revoking DEF EndSessions, IInv, RowsHaveFields, Live
  <1> QED BY <1>1, <1>2, <1>3, KeepingKeeps DEF EndSessions, IInv, EndedAreRevoked

LEMMA AdministerKeeps ==
  ASSUME IInv, NEW r \in Requests, Administer(r)
  PROVE  IInv'
  <1>1. ASSUME NEW p \in People, SetStaff(r, p) PROVE IInv'
    BY <1>1, UntouchedKeeps DEF SetStaff
  <1>2. ASSUME NEW p \in People, ResetPin(r, p) PROVE IInv'
    BY <1>2, EndSessionsKeeps DEF ResetPin
  <1>3. ASSUME NEW p \in People, Unlock(r, p) PROVE IInv'
    BY <1>3, EndSessionsKeeps DEF Unlock
  <1>4. ASSUME NEW p \in People, RevokeAll(r, p) PROVE IInv'
    BY <1>4, EndSessionsKeeps DEF RevokeAll
  <1>5. ASSUME NEW p \in People, NEW role \in Roles, CreateAccount(r, p, role) PROVE IInv'
    BY <1>5, UntouchedKeeps DEF CreateAccount, AddAccount
  <1>6. ASSUME NEW p \in People, NEW role \in Roles, NEW status \in {"active", "deactivated"},
               SetAccount(r, p, role, status)
        PROVE  IInv'
    BY <1>6, EndSessionsKeeps, UntouchedKeeps DEF SetAccount
  <1>7. ASSUME NEW s \in Sessions, RevokeOne(r, s) PROVE IInv'
    BY <1>7, RevokeOneKeeps
  <1> QED BY <1>1, <1>2, <1>3, <1>4, <1>5, <1>6, <1>7 DEF Administer

LEMMA NextIInv == IInv /\ [Next]_vars => IInv'
  <1> SUFFICES ASSUME IInv, [Next]_vars PROVE IInv'
    OBVIOUS
  <1>1. CASE UNCHANGED vars
    BY <1>1, UntouchedKeeps DEF vars
  <1>2. ASSUME NEW p \in People, Bootstrap(p) PROVE IInv'
    BY <1>2, UntouchedKeeps DEF Bootstrap
  <1>3. ASSUME NEW p \in People, NEW over \in BOOLEAN, SignIn(p, over) PROVE IInv'
    BY <1>3, SignInKeeps
  <1>4. ASSUME NEW p \in People, NEW route \in Routes, NEW over \in BOOLEAN,
               RefuseSignIn(p, route, over)
        PROVE  IInv'
    BY <1>4, UntouchedKeeps DEF RefuseSignIn
  <1>5. ASSUME NEW p \in People, NEW route \in Routes, RefuseReleased(p, route) PROVE IInv'
    BY <1>5, UntouchedKeeps DEF RefuseReleased
  <1>6. ASSUME NEW s \in Sessions, Renew(s) PROVE IInv'
    BY <1>6, RenewKeeps
  <1>7. ASSUME NEW s \in Sessions, NEW route \in Routes, RenewReused(s, route) PROVE IInv'
    BY <1>7, RenewReusedKeeps
  <1>8. ASSUME NEW r \in Requests, NEW s \in Sessions, Begin(r, s) PROVE IInv'
    BY <1>8, UntouchedKeeps DEF Begin
  <1>9. ASSUME NEW r \in Requests, Abort(r) \/ LogoutAllRows(r) PROVE IInv'
    BY <1>9, UntouchedKeeps DEF Abort, LogoutAllRows
  <1>10. ASSUME NEW r \in Requests, Logout(r) PROVE IInv'
    BY <1>10, LogoutKeeps
  <1>11. ASSUME NEW r \in Requests, LogoutAll(r) PROVE IInv'
    BY <1>11, LogoutAllKeeps
  <1>12. ASSUME NEW r \in Requests, ChangePin(r) PROVE IInv'
    BY <1>12, ChangePinKeeps
  <1>13. ASSUME NEW r \in Requests, Administer(r) PROVE IInv'
    BY <1>13, AdministerKeeps
  <1> QED
    BY <1>1, <1>2, <1>3, <1>4, <1>5, <1>6, <1>7, <1>8, <1>9, <1>10, <1>11,
       <1>12, <1>13
    DEF Next

\* Whatever auth_version a command writes from a stale account, a session
\* that an administrator or a PIN change ended is never accepted again.
THEOREM EndedForGood == Spec => []EndedSessionsStayOut
  <1>1. IInv => EndedSessionsStayOut
    BY DEF IInv, EndedAreRevoked, EndedSessionsStayOut, Valid
  <1> QED BY <1>1, InitIInv, NextIInv, PTL DEF Spec

-----------------------------------------------------------------------------
(* The last active administrator                                           *)

Account ==
    [role : Roles, status : {"active", "locked", "deactivated"}, version : Nat,
     failed : Nat, cycle : Nat, must : BOOLEAN]

AccountsTyped == account \in [People -> Account \cup {NoAccount}]

\* a request works on the account of an active person
LoadedActive ==
    /\ request = [r \in Requests |-> request[r]]
    /\ \A r \in Requests : request[r] # Idle =>
          /\ "account" \in DOMAIN request[r]
          /\ request[r].account \in Account
          /\ request[r].account.status = "active"

AInv == AccountsTyped /\ LoadedActive

IsActiveAdmin(a) == a # NoAccount /\ a.role = "admin" /\ a.status = "active"

\* what a step may do to the administrators
AdminsKept ==
    ActiveAdmins # {} /\ ActiveAdmins' = {} =>
        \E p \in People : Exists(p) /\ account'[p].cycle > account[p].cycle

LEMMA NoAccountIsApart == NoAccount \notin Account /\ ~IsActiveAdmin(NoAccount)
  BY DEF NoAccount, Account, Roles, IsActiveAdmin

\* A step that writes one account.
LEMMA OneAccountWritten ==
  ASSUME AInv, NEW p \in People, NEW new \in Account \cup {NoAccount},
         account' = [account EXCEPT ![p] = new],
         \/ IsActiveAdmin(account[p]) => IsActiveAdmin(new)
         \/ ActiveAdmins \ {p} # {}
         \/ Exists(p) /\ new.cycle > account[p].cycle
  PROVE  AccountsTyped' /\ AdminsKept
  <1>1. /\ account'[p] = new /\ AccountsTyped'
        /\ \A q \in People \ {p} : account'[q] = account[q]
    BY DEF AInv, AccountsTyped
  <1>2. CASE IsActiveAdmin(account[p]) => IsActiveAdmin(new)
    BY <1>1, <1>2 DEF AdminsKept, ActiveAdmins, Exists, IsActiveAdmin
  <1>3. CASE ActiveAdmins \ {p} # {}
    BY <1>1, <1>3 DEF AdminsKept, ActiveAdmins, Exists
  <1>4. CASE Exists(p) /\ new.cycle > account[p].cycle
    BY <1>1, <1>4 DEF AdminsKept
  <1> QED BY <1>1, <1>2, <1>3, <1>4

\* A step that writes no account.
LEMMA NoAccountWritten ==
  ASSUME AInv, account' = account
  PROVE  AccountsTyped' /\ AdminsKept
  BY DEF AInv, AccountsTyped, AdminsKept, ActiveAdmins, Exists

\* Requests that end, or keep what they have loaded.
LEMMA RequestsKeep ==
  ASSUME AInv, NEW r \in Requests,
         \/ request' = request
         \/ Done(r)
         \/ \E rows : request[r] # Idle /\ request' = [request EXCEPT ![r].rows = rows]
  PROVE  LoadedActive'
  <1>1. LoadedActive
    BY DEF AInv
  <1>2. CASE request' = request
    BY <1>1, <1>2 DEF LoadedActive
  <1>3. CASE Done(r)
    BY <1>1, <1>3 DEF LoadedActive, Done
  <1>4. CASE \E rows : request[r] # Idle /\ request' = [request EXCEPT ![r].rows = rows]
    <2>1. PICK rows : request[r] # Idle /\ request' = [request EXCEPT ![r].rows = rows]
      BY <1>4
    <2> DEFINE o == [request[r] EXCEPT !.rows = rows]
    <2>2. "account" \in DOMAIN o /\ o.account = request[r].account
      BY <1>1, <2>1 DEF LoadedActive
    <2>3. request' = [request EXCEPT ![r] = o]
      BY <2>1
    <2> HIDE DEF o
    <2> QED BY <1>1, <2>1, <2>2, <2>3 DEF LoadedActive
  <1> QED BY <1>2, <1>3, <1>4

\* What the database has after a flush: what the command did not change stays.
LEMMA Flushing ==
  ASSUME NEW db \in Account, NEW loaded \in Account, NEW new \in Account
  PROVE  /\ Flush(db, loaded, new) \in Account
         /\ Flush(db, loaded, new).role = (IF new.role = loaded.role THEN db.role ELSE new.role)
         /\ Flush(db, loaded, new).status
               = (IF new.status = loaded.status THEN db.status ELSE new.status)
  BY DEF Flush, Account

\* The account a command works on.
LEMMA LoadedTyped ==
  ASSUME AInv, NEW r \in Requests, request[r] # Idle, NEW p \in People, Exists(p)
  PROVE  /\ Loaded(r, p) \in Account /\ account[p] \in Account
         /\ By(r) = p => Loaded(r, p).status = "active"
         /\ By(r) # p => Loaded(r, p) = account[p]
  BY DEF AInv, AccountsTyped, LoadedActive, Loaded, Exists

\* A command that neither demotes nor deactivates the account as it loaded it.
LEMMA HarmlessStore ==
  ASSUME AInv, NEW r \in Requests, request[r] # Idle, NEW p, NEW new, Store(r, p, new),
         p \in People /\ Exists(p) =>
            /\ new \in Account /\ new.role = Loaded(r, p).role
            /\ new.status = Loaded(r, p).status \/ new.status = "active",
         p \in People /\ ~Exists(p) =>
            new.role = Loaded(r, p).role
  PROVE  AccountsTyped' /\ AdminsKept
  <1> DEFINE row == Flush(account[p], Loaded(r, p), new)
  <1>1. account' = [account EXCEPT ![p] = row]
    BY DEF Store
  <1>2. CASE p \notin People
    <2>1. account' = account
      BY <1>1, <1>2 DEF AInv, AccountsTyped
    <2> QED BY <2>1, NoAccountWritten
  <1>3. CASE p \in People /\ ~Exists(p)
    <2>1. account[p] = NoAccount
      BY <1>3 DEF Exists
    <2>2. row = NoAccount
      BY <1>3, <2>1 DEF Flush, NoAccount
    <2> HIDE DEF row
    <2> QED BY <1>1, <1>3, <2>1, <2>2, OneAccountWritten
  <1>4. CASE p \in People /\ Exists(p)
    <2>1. Loaded(r, p) \in Account /\ account[p] \in Account
      BY <1>4, LoadedTyped
    <2>2. /\ row \in Account /\ row.role = account[p].role
          /\ row.status = account[p].status \/ row.status = "active"
      BY <1>4, <2>1, Flushing
    <2> HIDE DEF row
    <2>3. IsActiveAdmin(account[p]) => IsActiveAdmin(row)
      BY <2>2, NoAccountIsApart DEF IsActiveAdmin
    <2> QED BY <1>1, <1>4, <2>2, <2>3, OneAccountWritten
  <1> QED BY <1>2, <1>3, <1>4

-----------------------------------------------------------------------------
LEMMA InitAInv == Init => AInv
  BY DEF Init, AInv, AccountsTyped, LoadedActive

\* An account that is created takes nobody's place.
LEMMA AddingKeeps ==
  ASSUME AInv, NEW p \in People, ~Exists(p), NEW role \in Roles,
         account' = [account EXCEPT ![p] = NewAccount(role)]
  PROVE  AccountsTyped' /\ AdminsKept
  <1>1. NewAccount(role) \in Account
    BY DEF NewAccount, Account
  <1>2. ~IsActiveAdmin(account[p])
    BY NoAccountIsApart DEF Exists
  <1> QED BY <1>1, <1>2, OneAccountWritten

\* A sign-in counts failures and releases locks; only a lock, which counts a
\* cycle, takes an active account.
LEMMA SignInAccounts ==
  ASSUME NEW a \in Account
  PROVE  /\ ReleaseLock(a) \in Account /\ ResetFailures(a) \in Account
         /\ RecordFailure(a) \in Account
         /\ ReleaseLock(a).cycle = a.cycle
         /\ IsActiveAdmin(a) => IsActiveAdmin(ReleaseLock(a)) /\ IsActiveAdmin(ResetFailures(a))
         /\ IsActiveAdmin(a) =>
               \/ IsActiveAdmin(RecordFailure(a))
               \/ RecordFailure(a).cycle > a.cycle
  <1>1. ReleaseLock(a) \in Account /\ ResetFailures(a) \in Account
    BY DEF Account, ReleaseLock, ResetFailures
  <1>2. RecordFailure(a) \in Account
    <2> DEFINE b == [a EXCEPT !.failed = @ + 1]
               c == [b EXCEPT !.cycle = a.cycle + 1]
               new == [c EXCEPT !.status = "locked"]
    <2>1. a.failed \in Nat /\ a.cycle \in Nat
      BY DEF Account
    <2>2. b \in Account
      BY <2>1 DEF Account
    <2>3. [a EXCEPT !.failed = @ + 1, !.cycle = @ + 1, !.status = "locked"] = new
      OBVIOUS
    <2> HIDE DEF b
    <2>4. c \in Account
      BY <2>1, <2>2 DEF Account
    <2> HIDE DEF c
    <2>5. new \in Account
      BY <2>4 DEF Account
    <2> QED BY <2>2, <2>3, <2>5 DEF RecordFailure, b
  <1>3. ReleaseLock(a).cycle = a.cycle
    BY DEF Account, ReleaseLock
  <1>4. \A b \in Account : IsActiveAdmin(b) <=> b.role = "admin" /\ b.status = "active"
    BY NoAccountIsApart DEF IsActiveAdmin
  <1>5. IsActiveAdmin(a) => IsActiveAdmin(ReleaseLock(a)) /\ IsActiveAdmin(ResetFailures(a))
    <2>1. a.status = "active" =>
             /\ ReleaseLock(a).role = a.role /\ ReleaseLock(a).status = "active"
             /\ ResetFailures(a).role = a.role /\ ResetFailures(a).status = "active"
      BY DEF Account, ReleaseLock, ResetFailures
    <2> QED BY <1>1, <1>4, <2>1
  <1>6. \/ RecordFailure(a).role = a.role /\ RecordFailure(a).status = a.status
        \/ RecordFailure(a).cycle > a.cycle
    BY DEF Account, RecordFailure
  <1>7. IsActiveAdmin(a) =>
           IsActiveAdmin(RecordFailure(a)) \/ RecordFailure(a).cycle > a.cycle
    BY <1>2, <1>4, <1>6
  <1> QED BY <1>1, <1>2, <1>3, <1>5, <1>7

LEMMA SigningIn ==
  ASSUME AInv, NEW p \in People, NEW over \in BOOLEAN, SignIn(p, over)
  PROVE  AccountsTyped' /\ AdminsKept
  <1> DEFINE a == IF over THEN ReleaseLock(account[p]) ELSE account[p]
  <1>1. account' = [account EXCEPT ![p] = ResetFailures(a)]
    BY DEF SignIn
  <1>2. account[p] \in Account
    BY DEF SignIn, Exists, AInv, AccountsTyped
  <1>3. a \in Account /\ (IsActiveAdmin(account[p]) => IsActiveAdmin(a))
    BY <1>2, SignInAccounts
  <1> HIDE DEF a
  <1>4. /\ ResetFailures(a) \in Account
        /\ IsActiveAdmin(a) => IsActiveAdmin(ResetFailures(a))
    BY <1>3, SignInAccounts
  <1> QED BY <1>1, <1>3, <1>4, OneAccountWritten

LEMMA RefusingSignIn ==
  ASSUME AInv, NEW p \in People, NEW route \in Routes, NEW over \in BOOLEAN,
         RefuseSignIn(p, route, over)
  PROVE  AccountsTyped' /\ AdminsKept
  <1> DEFINE a == IF over THEN ReleaseLock(account[p]) ELSE account[p]
  <1>1. account' = [account EXCEPT ![p] =
                       IF route = "bearer" THEN RecordFailure(a) ELSE account[p]]
    BY DEF RefuseSignIn
  <1>2. account[p] \in Account /\ Exists(p)
    BY DEF RefuseSignIn, Exists, AInv, AccountsTyped
  <1>3. /\ a \in Account /\ a.cycle = account[p].cycle
        /\ IsActiveAdmin(account[p]) => IsActiveAdmin(a)
    BY <1>2, SignInAccounts
  <1> HIDE DEF a
  <1>4. /\ RecordFailure(a) \in Account
        /\ \/ IsActiveAdmin(a) => IsActiveAdmin(RecordFailure(a))
           \/ RecordFailure(a).cycle > a.cycle
    BY <1>3, SignInAccounts
  <1>5. CASE route = "bearer"
    BY <1>1, <1>2, <1>3, <1>4, <1>5, OneAccountWritten
  <1>6. CASE route # "bearer"
    <2>1. account' = account
      BY <1>1, <1>6 DEF AInv, AccountsTyped
    <2> QED BY <2>1, NoAccountWritten
  <1> QED BY <1>5, <1>6

LEMMA RefusingReleased ==
  ASSUME AInv, NEW p \in People, NEW route \in Routes, RefuseReleased(p, route)
  PROVE  AccountsTyped' /\ AdminsKept
  <1>1. account' = [account EXCEPT ![p] = ReleaseLock(account[p])]
    BY DEF RefuseReleased
  <1>2. account[p] \in Account
    BY DEF RefuseReleased, Exists, AInv, AccountsTyped
  <1> QED BY <1>1, <1>2, SignInAccounts, OneAccountWritten

\* What the token check loads is the account of an active person.
LEMMA Beginning ==
  ASSUME IInv, AInv, NEW r \in Requests, NEW s \in Sessions, Begin(r, s)
  PROVE  AInv' /\ AdminsKept
  <1> DEFINE p == session[s].owner
             o == [at |-> s, account |-> account[p], token |-> session[s].token, rows |-> {}]
  <1>1. p \in People /\ Exists(p) /\ account[p].status = "active"
    BY DEF Begin, Valid, Active, IInv, RowsHaveFields
  <1>2. account[p] \in Account
    BY <1>1 DEF AInv, AccountsTyped, Exists
  <1>3. request' = [request EXCEPT ![r] = o]
    BY DEF Begin
  <1>4. "account" \in DOMAIN o /\ o.account = account[p]
    OBVIOUS
  <1> HIDE DEF o
  <1>5. LoadedActive'
    BY <1>1, <1>2, <1>3, <1>4 DEF AInv, LoadedActive
  <1> QED BY <1>5, NoAccountWritten DEF Begin, AInv

\* What writing the fields of an account leaves of its role and status.
LEMMA VersionWritten ==
  ASSUME NEW a \in Account, NEW v \in Nat, NEW new, new = [a EXCEPT !.version = v]
  PROVE  new \in Account /\ new.role = a.role /\ new.status = a.status
  BY DEF Account

LEMMA PinWritten ==
  ASSUME NEW a \in Account, NEW m \in BOOLEAN, NEW v \in Nat
  PROVE  /\ [a EXCEPT !.must = m, !.version = v] \in Account
         /\ [a EXCEPT !.must = m, !.version = v].role = a.role
         /\ [a EXCEPT !.must = m, !.version = v].status = a.status
  <1> DEFINE b == [a EXCEPT !.must = m]
             new == [b EXCEPT !.version = v]
  <1>1. b \in Account /\ b.role = a.role /\ b.status = a.status
    BY DEF Account
  <1>2. [a EXCEPT !.must = m, !.version = v] = new
    OBVIOUS
  <1> HIDE DEF b
  <1>3. new \in Account /\ new.role = a.role /\ new.status = a.status
    BY <1>1, VersionWritten
  <1> QED BY <1>2, <1>3

LEMMA ChangingPin ==
  ASSUME AInv, NEW r \in Requests, ChangePin(r)
  PROVE  AInv' /\ AdminsKept
  <1> DEFINE p == By(r)
             a == Loaded(r, p)
             new == [a EXCEPT !.must = FALSE, !.version = @ + 1]
  <1>1. request[r] # Idle /\ Done(r) /\ Store(r, p, new)
    BY DEF ChangePin, ReplacePin, Ready
  <1>2. a \in Account
    BY <1>1 DEF AInv, LoadedActive, Loaded
  <1> HIDE DEF a, p
  <1>3. a.version + 1 \in Nat /\ FALSE \in BOOLEAN
    BY <1>2 DEF Account
  <1>4. new \in Account /\ new.role = a.role /\ new.status = a.status
    BY <1>2, <1>3, PinWritten, Zenon
  <1> HIDE DEF new
  <1>5. AccountsTyped' /\ AdminsKept
    BY <1>1, <1>4, HarmlessStore DEF a
  <1> QED BY <1>1, <1>5, RequestsKeep DEF AInv

LEMMA LoggingOutEverywhere ==
  ASSUME AInv, NEW r \in Requests, LogoutAll(r)
  PROVE  AInv' /\ AdminsKept
  <1> DEFINE p == By(r)
             a == Loaded(r, p)
             new == [a EXCEPT !.version = @ + 1]
  <1>1. request[r] # Idle /\ Done(r) /\ Store(r, p, new)
    BY DEF LogoutAll, Idle
  <1>2. a \in Account
    BY <1>1 DEF AInv, LoadedActive, Loaded
  <1>3. new \in Account /\ new.role = a.role /\ new.status = a.status
    BY <1>2 DEF Account
  <1> HIDE DEF new, p
  <1>4. AccountsTyped' /\ AdminsKept
    BY <1>1, <1>3, HarmlessStore
  <1> QED BY <1>1, <1>4, RequestsKeep DEF AInv

\* Revocation, unlocking and a new PIN write the version and lift a lock.
LEMMA EndingByAdmin ==
  ASSUME AInv, NEW r \in Requests, NEW p \in People,
         RevokeAll(r, p) \/ Unlock(r, p) \/ ResetPin(r, p)
  PROVE  AInv' /\ AdminsKept
  <1> DEFINE a == Loaded(r, p)
             bumped   == [a EXCEPT !.version = @ + 1]
             unlocked == [ResetFailures(a) EXCEPT !.version = @ + 1]
             reset    == [ResetFailures(a) EXCEPT !.must = TRUE, !.version = @ + 1]
  <1>1. request[r] # Idle /\ Done(r) /\ Exists(p)
    BY DEF RevokeAll, Unlock, ResetPin, AdminReady, Ready
  <1>2. a \in Account
    BY <1>1, LoadedTyped
  <1>3. /\ ResetFailures(a) \in Account /\ ResetFailures(a).role = a.role
        /\ ResetFailures(a).status = a.status \/ ResetFailures(a).status = "active"
    BY <1>2 DEF Account, ResetFailures
  <1>4. bumped \in Account /\ bumped.role = a.role /\ bumped.status = a.status
    BY <1>2 DEF Account
  <1>5. /\ unlocked \in Account /\ unlocked.role = a.role
        /\ unlocked.status = a.status \/ unlocked.status = "active"
    BY <1>3 DEF Account
  <1>6. /\ reset \in Account /\ reset.role = a.role
        /\ reset.status = a.status \/ reset.status = "active"
    <2>1. ResetFailures(a).version + 1 \in Nat /\ TRUE \in BOOLEAN
      BY <1>3 DEF Account
    <2>2. reset \in Account /\ reset.role = ResetFailures(a).role
          /\ reset.status = ResetFailures(a).status
      BY <1>3, <2>1, PinWritten, Zenon
    <2> HIDE DEF reset
    <2> QED BY <1>3, <2>2
  <1>7. Store(r, p, bumped) \/ Store(r, p, unlocked) \/ Store(r, p, reset)
    BY DEF RevokeAll, Unlock, ResetPin
  <1> HIDE DEF bumped, unlocked, reset
  <1>8. AccountsTyped' /\ AdminsKept
    BY <1>1, <1>4, <1>5, <1>6, <1>7, HarmlessStore
  <1> QED BY <1>1, <1>8, RequestsKeep DEF AInv

\* A change of role or status.  An administrator who changes the own account
\* holds it as it was loaded, active, so that the count of the others is
\* what lets the change pass whatever the row says by then.
LEMMA Setting ==
  ASSUME AInv, NEW r \in Requests, NEW p \in People, NEW role \in Roles,
         NEW status \in {"active", "deactivated"}, SetAccount(r, p, role, status)
  PROVE  AInv' /\ AdminsKept
  <1> DEFINE a == Loaded(r, p)
             new == [a EXCEPT !.role = role, !.status = status, !.version = @ + 1]
             row == Flush(account[p], a, new)
  <1>1. /\ request[r] # Idle /\ Done(r) /\ Exists(p)
        /\ request[r].account.role = "admin"
        /\ ~LastActiveAdmin(a, p, role, status)
        /\ <<a.role, a.status>> # <<role, status>>
        /\ account' = [account EXCEPT ![p] = row]
    BY DEF SetAccount, AdminReady, Ready, Store
  <1>2. /\ a \in Account /\ account[p] \in Account
        /\ By(r) = p => a.status = "active"
        /\ By(r) # p => a = account[p]
    BY <1>1, LoadedTyped
  <1>3. By(r) = p => a.role = "admin"
    BY <1>1 DEF Loaded
  <1> HIDE DEF a
  <1>4. new \in Account /\ new.role = role /\ new.status = status
    <2> DEFINE b == [a EXCEPT !.role = role]
               c == [b EXCEPT !.status = status]
               v == a.version + 1
    <2>1. b \in Account /\ b.role = role /\ v \in Nat
      BY <1>2 DEF Account
    <2>2. new = [c EXCEPT !.version = v]
      OBVIOUS
    <2> HIDE DEF b, v, new
    <2>3. c \in Account /\ c.role = role /\ c.status = status
      BY <2>1 DEF Account
    <2> HIDE DEF c
    <2> QED BY <2>1, <2>2, <2>3 DEF Account
  <1> HIDE DEF new
  <1>5. /\ row \in Account
        /\ row.role = (IF new.role = a.role THEN account[p].role ELSE new.role)
        /\ row.status = (IF new.status = a.status THEN account[p].status ELSE new.status)
    BY <1>2, <1>4, Flushing
  <1> HIDE DEF row
  <1>6. ActiveAdmins \ {p} # {} \/ (IsActiveAdmin(account[p]) => IsActiveAdmin(row))
    <2>1. CASE a.role = "admin" /\ a.status = "active"
      <3>1. ~(role = "admin" /\ status = "active")
        BY <1>1, <2>1
      <3> QED BY <1>1, <2>1, <3>1 DEF LastActiveAdmin
    <2>2. CASE ~(a.role = "admin" /\ a.status = "active")
      <3>1. a = account[p]
        BY <1>2, <1>3, <2>2
      <3> QED BY <2>2, <3>1 DEF IsActiveAdmin
    <2> QED BY <2>1, <2>2
  <1>7. AccountsTyped' /\ AdminsKept
    BY <1>1, <1>5, <1>6, OneAccountWritten
  <1> QED BY <1>1, <1>7, RequestsKeep DEF AInv

LEMMA NextAInv == IInv /\ AInv /\ [Next]_vars => AInv' /\ AdminsKept
  <1> SUFFICES ASSUME IInv, AInv, [Next]_vars PROVE AInv' /\ AdminsKept
    OBVIOUS
  <1> DEFINE Goal == AInv' /\ AdminsKept
  <1>0. request' = request => LoadedActive'
    BY DEF AInv, LoadedActive
  <1>1. ASSUME UNCHANGED vars PROVE Goal
    BY <1>0, <1>1, NoAccountWritten DEF vars, AInv
  <1>2. ASSUME NEW p \in People, Bootstrap(p) PROVE Goal
    BY <1>0, <1>2, AddingKeeps DEF Bootstrap, Roles, AInv
  <1>3. ASSUME NEW p \in People, NEW over \in BOOLEAN, SignIn(p, over) PROVE Goal
    BY <1>0, <1>3, SigningIn DEF SignIn, AInv
  <1>4. ASSUME NEW p \in People, NEW route \in Routes, NEW over \in BOOLEAN,
               RefuseSignIn(p, route, over)
        PROVE  Goal
    BY <1>0, <1>4, RefusingSignIn DEF RefuseSignIn, AInv
  <1>5. ASSUME NEW p \in People, NEW route \in Routes, RefuseReleased(p, route) PROVE Goal
    BY <1>0, <1>5, RefusingReleased DEF RefuseReleased, AInv
  <1>6. ASSUME NEW s \in Sessions, Renew(s) PROVE Goal
    BY <1>0, <1>6, NoAccountWritten DEF Renew, AInv
  <1>7. ASSUME NEW s \in Sessions, NEW route \in Routes, RenewReused(s, route) PROVE Goal
    BY <1>0, <1>7, NoAccountWritten DEF RenewReused, AInv
  <1>8. ASSUME NEW r \in Requests, NEW s \in Sessions, Begin(r, s) PROVE Goal
    BY <1>8, Beginning
  <1>9. ASSUME NEW r \in Requests, Abort(r) \/ Logout(r) PROVE Goal
    BY <1>9, NoAccountWritten, RequestsKeep DEF Abort, Logout, Done, AInv
  <1>10. ASSUME NEW r \in Requests, LogoutAllRows(r) PROVE Goal
    BY <1>10, NoAccountWritten, RequestsKeep DEF LogoutAllRows, Ready, AInv
  <1>11. ASSUME NEW r \in Requests, LogoutAll(r) PROVE Goal
    BY <1>11, LoggingOutEverywhere
  <1>12. ASSUME NEW r \in Requests, ChangePin(r) PROVE Goal
    BY <1>12, ChangingPin
  <1>13. ASSUME NEW r \in Requests, NEW p \in People, SetStaff(r, p) PROVE Goal
    BY <1>13, NoAccountWritten, RequestsKeep DEF SetStaff, AInv
  <1>14. ASSUME NEW r \in Requests, NEW p \in People,
                RevokeAll(r, p) \/ Unlock(r, p) \/ ResetPin(r, p)
         PROVE  Goal
    BY <1>14, EndingByAdmin
  <1>15. ASSUME NEW r \in Requests, NEW p \in People, NEW role \in Roles,
                CreateAccount(r, p, role)
         PROVE  Goal
    BY <1>15, AddingKeeps, RequestsKeep DEF CreateAccount, AddAccount, AInv
  <1>16. ASSUME NEW r \in Requests, NEW p \in People, NEW role \in Roles,
                NEW status \in {"active", "deactivated"}, SetAccount(r, p, role, status)
         PROVE  Goal
    BY <1>16, Setting
  <1>17. ASSUME NEW r \in Requests, NEW s \in Sessions, RevokeOne(r, s) PROVE Goal
    BY <1>17, NoAccountWritten, RequestsKeep DEF RevokeOne, AInv
  <1> HIDE DEF Goal
  <1>18. ASSUME NEW r \in Requests, Administer(r) PROVE Goal
    BY <1>13, <1>14, <1>15, <1>16, <1>17, <1>18 DEF Administer
  <1>19. Goal
    BY <1>1, <1>2, <1>3, <1>4, <1>5, <1>6, <1>7, <1>8, <1>9, <1>10, <1>11,
       <1>12, <1>18
    DEF Next
  <1> QED BY <1>19 DEF Goal

\* Administrators demote and deactivate each other from accounts they loaded
\* earlier, in any order: as long as one is active, only a lock that wrong
\* PINs set can leave none.
THEOREM AdminsAreKept == Spec => OnlyMissesLockAdminsOut
  <1>1. IInv /\ AInv /\ [Next]_vars =>
           [ActiveAdmins # {} /\ ActiveAdmins' = {} =>
               \E p \in People : Exists(p) /\ account'[p].cycle > account[p].cycle]_vars
    BY NextAInv DEF AdminsKept
  <1> QED BY <1>1, InitIInv, NextIInv, InitAInv, NextAInv, PTL DEF Spec, OnlyMissesLockAdminsOut
=============================================================================
