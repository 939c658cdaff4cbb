---------------------------- MODULE AdminControls ----------------------------
(***************************************************************************)
(* What stands between an administrator and a sensitive command: the PIN   *)
(* confirmation that elevates a session and issues step-up tokens          *)
(* (backend/identity/elevation.py, browser_admin.py), the commands that    *)
(* spend them (webapp/api_v1/admin.py, webapp/web_api/admin_*.py), and the *)
(* handoff of a browser to the Review Lab (identity/browser_handoffs.py).  *)
(*                                                                         *)
(* A request is Begin, the check of its session, and later one step with   *)
(* everything from its first row lock to its commit; only the bearer PIN   *)
(* confirmation has a step in between, its idempotency claim.  The session,*)
(* account and staff objects Begin loaded are not read again, so           *)
(* confirm_admin_pin and issue_browser_handoff, which test them after      *)
(* SELECT .. FOR UPDATE, test what they were: a session that was revoked   *)
(* meanwhile still passes.  Elevations, tokens, handoffs and idempotency   *)
(* records are first read under their lock.                                *)
(*                                                                         *)
(* A refusal, an expiry, an error, and a rollback change nothing.          *)
(* `by` is history: what a token authorised.                               *)
(***************************************************************************)
EXTENDS Naturals, FiniteSets

CONSTANTS
    Sessions,       \* access sessions of administrators
    OwnerOf,        \* [Sessions -> the accounts]
    Tokens,         \* step-up tokens
    Handoffs,       \* handoffs and the Review Lab sessions they open
    Labs,
    ConfirmKeys,    \* idempotency keys of bearer PIN confirmations
    CommandKeys,    \* idempotency keys of commands
    Requests,
    InUse,          \* the commands of the instance, a subset of Commands
    None

Accounts == {OwnerOf[s] : s \in Sessions}

VARIABLES
    stands,     \* account is an active administrator, the staff member on duty
    live,       \* session rows that are not revoked
    elevated,   \* sessions whose admin_elevations row has not run out
    token,      \* admin_step_up_tokens
    confirm,    \* idempotency records of auth.admin_step_up, uncommitted ones too
    record,     \* idempotency records of commands
    handoff,    \* browser_handoffs
    lab,        \* browser_sessions of the Review Lab
    request,    \* open requests: session and claimed confirmation key
    by          \* history: the token that authorised each key and handoff

vars == <<stands, live, elevated, token, confirm, record, handoff, lab, request, by>>

-----------------------------------------------------------------------------
(* The commands, with the purpose their step-up token must have been       *)
(* confirmed for and whether a replay can answer with the result.          *)

Command(name, purpose, oneTime) ==
    [name |-> name, purpose |-> purpose, oneTime |-> oneTime]

StaffCreate    == Command("staff_create", "staff_write", FALSE)
StaffUpdate    == Command("staff_update", "staff_write", FALSE)
AccountCreate  == Command("account_create", "account_create", TRUE)
AccountUpdate  == Command("account_update", "account_role_status", FALSE)
AccountResetPin == Command("account_reset_pin", "account_reset_pin", TRUE)
AccountUnlock  == Command("account_unlock", "account_unlock", FALSE)
AccountRevoke  == Command("account_revoke_sessions", "account_revoke_sessions", FALSE)
IncidentRestore == Command("incident_restore", "report_restore", FALSE)
ReportTransfer == Command("report_transfer", "report_transfer", FALSE)
HandoffIssue   == Command("review_lab_handoff_issue", "review_lab_handoff", TRUE)

Commands == {StaffCreate, StaffUpdate, AccountCreate, AccountUpdate, AccountResetPin,
             AccountUnlock, AccountRevoke, IncidentRestore, ReportTransfer, HandoffIssue}
Purposes == {c.purpose : c \in InUse}

ASSUME ControlsAssumption ==
    /\ None \notin Sessions \cup Tokens \cup Handoffs \cup Labs \cup ConfirmKeys
                 \cup CommandKeys \cup Accounts
    /\ None \notin InUse
    /\ OwnerOf \in [Sessions -> Accounts]
    /\ CommandKeys \cap Handoffs = {}
    /\ InUse \subseteq Commands /\ HandoffIssue \in InUse

TokenRows   == [at : Sessions, purpose : Purposes, used : BOOLEAN]
HandoffRows == [at : Sessions, redeemed : BOOLEAN]
LabRows     == [account : Accounts, from : Handoffs]
OpenRequest == [at : Sessions, claims : ConfirmKeys \cup {None}]
NoRow  == [at |-> None]
NoLab  == [account |-> None]
Idle   == [at |-> None, claims |-> None]

Open(r)   == request[r] # Idle
\* resolve_access_session and the role test
Valid(s)  == s \in live /\ stands[OwnerOf[s]]
Unissued  == {t \in Tokens : token[t] = NoRow}

Init ==
    /\ stands = [a \in Accounts |-> TRUE]
    /\ live = Sessions
    /\ elevated = {}
    /\ token = [t \in Tokens |-> NoRow]
    /\ confirm = [k \in ConfirmKeys |-> "none"]
    /\ record = [k \in CommandKeys |-> None]
    /\ handoff = [h \in Handoffs |-> NoRow]
    /\ lab = [l \in Labs |-> NoLab]
    /\ request = [r \in Requests |-> Idle]
    /\ by = [x \in CommandKeys \cup Handoffs |-> None]

-----------------------------------------------------------------------------
Begin(r, s) ==
    /\ ~Open(r) /\ Valid(s)
    /\ request' = [request EXCEPT ![r].at = s]
    /\ UNCHANGED <<stands, live, elevated, token, confirm, record, handoff, lab, by>>

Close(r) == request' = [request EXCEPT ![r] = Idle]

\* any refusal or error, a failed commit, the death of the instance: rollback,
\* and with it the record a PIN confirmation had claimed
Abort(r) ==
    /\ Open(r) /\ Close(r)
    /\ confirm' = [k \in ConfirmKeys |-> IF k = request[r].claims THEN "none" ELSE confirm[k]]
    /\ UNCHANGED <<stands, live, elevated, token, record, handoff, lab, by>>

(* PIN confirmation *)

\* confirm_admin_pin, PIN correct: purpose "admin_center" only elevates
Elevate(s, purpose) ==
    /\ elevated' = elevated \cup {s}
    /\ IF purpose = "admin_center"
       THEN UNCHANGED token
       ELSE \E t \in Unissued :
               token' = [token EXCEPT ![t] = [at |-> s, purpose |-> purpose, used |-> FALSE]]

\* enter_elevation_route and step_up_route
ConfirmInBrowser(r, purpose) ==
    /\ Open(r) /\ request[r].claims = None
    /\ Elevate(request[r].at, purpose)
    /\ Close(r)
    /\ UNCHANGED <<stands, live, confirm, record, handoff, lab, by>>

\* admin_step_up_route claims the key first: the record it inserts is flushed,
\* not committed, and another request of the key waits for it
ClaimConfirmation(r, k) ==
    /\ Open(r) /\ request[r].claims = None
    /\ confirm[k] = "none"
    /\ confirm' = [confirm EXCEPT ![k] = "claimed"]
    /\ request' = [request EXCEPT ![r].claims = k]
    /\ UNCHANGED <<stands, live, elevated, token, record, handoff, lab, by>>

ConfirmByBearer(r, purpose) ==
    /\ Open(r) /\ request[r].claims # None
    /\ Elevate(request[r].at, purpose)
    /\ confirm' = [confirm EXCEPT ![request[r].claims] = "done"]
    /\ Close(r)
    /\ UNCHANGED <<stands, live, record, handoff, lab, by>>

\* Faulty: commits the audit event of the wrong PIN, and the claim with it.
KeepClaim(r) ==
    /\ Open(r) /\ request[r].claims # None
    /\ Close(r)
    /\ UNCHANGED <<stands, live, elevated, token, confirm, record, handoff, lab, by>>

\* wrong PIN: the claim is deleted, then the audit event committed
RefuseConfirmation(r) ==
    /\ Open(r) /\ request[r].claims # None
    /\ confirm' = [confirm EXCEPT ![request[r].claims] = "none"]
    /\ Close(r)
    /\ UNCHANGED <<stands, live, elevated, token, record, handoff, lab, by>>

(* Sensitive commands *)

\* Faulty: forgets that a token may have been spent.
SpendAgain(s, t, purpose) ==
    /\ s \in elevated
    /\ token[t] # NoRow /\ token[t].at = s /\ token[t].purpose = purpose
    /\ token' = [token EXCEPT ![t].used = TRUE]
\* touch_admin_elevation and consume_step_up
Spend(s, t, purpose) ==
    /\ s \in elevated
    /\ token[t] # NoRow /\ token[t].at = s /\ token[t].purpose = purpose
    /\ ~token[t].used
    /\ token' = [token EXCEPT ![t].used = TRUE]

\* the two _mutation functions, incident_restore_route, report_transfer_route
Perform(r, t, c, k) ==
    /\ Open(r) /\ request[r].claims = None
    /\ c # HandoffIssue
    /\ Spend(request[r].at, t, c.purpose)
    /\ record[k] = None
    /\ record' = [record EXCEPT ![k] = c]
    /\ by' = [by EXCEPT ![k] = t]
    /\ Close(r)
    /\ UNCHANGED <<stands, live, elevated, confirm, handoff, lab>>

\* a replay spends the token it came with: it is answered from the record,
\* or, for a one-time value, refused after the commit
Replay(r, t, k) ==
    /\ Open(r) /\ request[r].claims = None
    /\ record[k] # None
    /\ Spend(request[r].at, t, record[k].purpose)
    /\ Close(r)
    /\ UNCHANGED <<stands, live, elevated, confirm, record, handoff, lab, by>>

(* The Review Lab *)

\* issue_browser_handoff.  The bearer route records it under a key
IssueHandoff(r, t, h, k) ==
    /\ Open(r) /\ request[r].claims = None
    /\ Spend(request[r].at, t, HandoffIssue.purpose)
    /\ handoff[h] = NoRow
    /\ handoff' = [handoff EXCEPT ![h] = [at |-> request[r].at, redeemed |-> FALSE]]
    /\ IF k = None
       THEN /\ by' = [by EXCEPT ![h] = t]
            /\ UNCHANGED record
       ELSE /\ record[k] = None
            /\ record' = [record EXCEPT ![k] = HandoffIssue]
            /\ by' = [by EXCEPT ![h] = t]
    /\ Close(r)
    /\ UNCHANGED <<stands, live, elevated, confirm, lab>>

\* Faulty: trusts the handoff, which a revoked session may have been issued.
RedeemUnchecked(h, l) ==
    /\ handoff[h] # NoRow /\ ~handoff[h].redeemed
    /\ lab[l] = NoLab
    /\ handoff' = [handoff EXCEPT ![h].redeemed = TRUE]
    /\ lab' = [lab EXCEPT ![l] = [account |-> OwnerOf[handoff[h].at], from |-> h]]
    /\ UNCHANGED <<stands, live, elevated, token, confirm, record, request, by>>
\* redeem_browser_handoff: no session object is loaded before the locks
Redeem(h, l) ==
    /\ handoff[h] # NoRow /\ ~handoff[h].redeemed
    /\ Valid(handoff[h].at)
    /\ lab[l] = NoLab
    /\ handoff' = [handoff EXCEPT ![h].redeemed = TRUE]
    /\ lab' = [lab EXCEPT ![l] = [account |-> OwnerOf[handoff[h].at], from |-> h]]
    /\ UNCHANGED <<stands, live, elevated, token, confirm, record, request, by>>

-----------------------------------------------------------------------------
(* The rest of the system (see Identity): sessions end, administrators are *)
(* demoted, deactivated, off duty, and reinstated; an elevation runs out.  *)

EndSessions(a) ==
    /\ live' = {s \in live : OwnerOf[s] # a}
    /\ \E b \in BOOLEAN : stands' = [stands EXCEPT ![a] = b]
    /\ UNCHANGED <<elevated, token, confirm, record, handoff, lab, request, by>>

Logout(s) ==
    /\ live' = live \ {s}
    /\ UNCHANGED <<stands, elevated, token, confirm, record, handoff, lab, request, by>>

OnOrOffDuty(a) ==
    /\ stands' = [stands EXCEPT ![a] = ~@]
    /\ UNCHANGED <<live, elevated, token, confirm, record, handoff, lab, request, by>>

RunOut(s) ==
    /\ s \in elevated
    /\ elevated' = elevated \ {s}
    /\ UNCHANGED <<stands, live, token, confirm, record, handoff, lab, request, by>>

Next ==
    \/ \E r \in Requests :
          \/ \E s \in Sessions : Begin(r, s)
          \/ Abort(r) \/ RefuseConfirmation(r)
          \/ \E p \in Purposes \cup {"admin_center"} :
                ConfirmInBrowser(r, p) \/ ConfirmByBearer(r, p)
          \/ \E k \in ConfirmKeys : ClaimConfirmation(r, k)
          \/ \E t \in Tokens :
                \/ \E k \in CommandKeys : Replay(r, t, k)
                \/ \E k \in CommandKeys, c \in InUse : Perform(r, t, c, k)
                \/ \E k \in CommandKeys \cup {None}, h \in Handoffs : IssueHandoff(r, t, h, k)
    \/ \E h \in Handoffs, l \in Labs : Redeem(h, l)
    \/ \E a \in Accounts : EndSessions(a) \/ OnOrOffDuty(a)
    \/ \E s \in Sessions : Logout(s) \/ RunOut(s)

Spec == Init /\ [][Next]_vars

-----------------------------------------------------------------------------
(* Properties                                                              *)

ControlsTypeOK ==
    /\ stands \in [Accounts -> BOOLEAN]
    /\ live \subseteq Sessions /\ elevated \subseteq Sessions
    /\ token \in [Tokens -> TokenRows \cup {NoRow}]
    /\ confirm \in [ConfirmKeys -> {"none", "claimed", "done"}]
    /\ record \in [CommandKeys -> InUse \cup {None}]
    /\ handoff \in [Handoffs -> HandoffRows \cup {NoRow}]
    /\ lab \in [Labs -> LabRows \cup {NoLab}]
    /\ request \in [Requests -> OpenRequest \cup {Idle}]
    /\ by \in [CommandKeys \cup Handoffs -> Tokens \cup {None}]

\* A PIN confirmation authorises one thing: no token stands behind two
\* commands or handoffs, and the token behind a command was confirmed for
\* the purpose of that command, through retries with other keys, replays,
\* rollbacks and requests that carry the same cookie.
OneUsePerConfirmation ==
    \A x \in DOMAIN by : by[x] # None =>
        /\ token[by[x]].used
        /\ x \in CommandKeys => token[by[x]].purpose = record[x].purpose
        /\ \A y \in DOMAIN by : by[y] = by[x] => y = x

\* A PIN confirmation's key is in progress only while the request that claimed
\* it is open.  The claim is made in a transaction that a wrong PIN commits (for
\* its audit event) and every other failure rolls back: either way the same key
\* works again, and no request waits for a record that nobody will settle.
NoKeyBurned ==
    \A k \in ConfirmKeys : confirm[k] = "claimed" => \E r \in Requests : request[r].claims = k

\* A Review Lab session is opened once per handoff, and only while the
\* session that was handed off is still accepted, although the handoff may
\* have been issued on attributes loaded before that session was revoked.
LabOpenedByAdmin ==
    [][\A l \in Labs : lab[l] = NoLab /\ lab'[l] # NoLab =>
           /\ Valid(handoff[lab'[l].from].at)
           /\ \A m \in Labs \ {l} : lab'[m] # NoLab => lab'[m].from # lab'[l].from]_vars
=============================================================================
