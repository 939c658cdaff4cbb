------------------------ MODULE AdminControlsProofs ------------------------
(***************************************************************************)
(* Proofs about AdminControls for any number of sessions, tokens, keys,    *)
(* handoffs and requests.                                                  *)
(*                                                                         *)
(* A confirmation authorises one thing because the token behind what was   *)
(* authorised is spent (Authorised), and only an unspent one can be spent  *)
(* or issued: whichever of several requests spends it, its purpose is then *)
(* that of the command recorded.  A confirmation's key stays claimed only  *)
(* by an open request because whatever ends that request also settles the  *)
(* record (ClaimsStayHeld).                                                *)
(***************************************************************************)
EXTENDS AdminControls, TLAPS

\* What the records say of a key or handoff that a token was used for.
Authorised ==
    \A x \in CommandKeys \cup Handoffs : by[x] # None =>
        /\ token[by[x]] # NoRow /\ token[by[x]].used
        /\ x \in CommandKeys => record[x] # None /\ token[by[x]].purpose = record[x].purpose

OneEach ==
    \A x, y \in CommandKeys \cup Handoffs : by[x] # None /\ by[y] = by[x] => y = x

IInv == ControlsTypeOK /\ Authorised /\ OneEach /\ NoKeyBurned

\* Token t was issued and unspent, and only that changes.
SpendsOnly(t) ==
    /\ token[t] \in TokenRows /\ token[t] # NoRow /\ ~token[t].used
    /\ token'[t] \in TokenRows /\ token'[t] # NoRow /\ token'[t].used
    /\ token'[t].purpose = token[t].purpose
    /\ token' \in [Tokens -> TokenRows \cup {NoRow}]
    /\ \A u \in Tokens \ {t} : token'[u] = token[u]

\* At most one unissued token is issued, unspent.
IssuesAtMostOne ==
    /\ token' \in [Tokens -> TokenRows \cup {NoRow}]
    /\ \A u \in Tokens : token[u] # NoRow => token'[u] = token[u]

LEMMA NoneIsApart ==
    /\ None \notin Sessions /\ None \notin Tokens /\ None \notin Handoffs
    /\ None \notin ConfirmKeys /\ None \notin InUse
    /\ NoRow \notin TokenRows /\ NoRow \notin HandoffRows
  BY ControlsAssumption DEF NoRow, TokenRows, HandoffRows

\* Marking a row as used keeps its session and purpose.
LEMMA MarkUsed ==
  ASSUME NEW x \in TokenRows, NEW f \in BOOLEAN
  PROVE  /\ [x EXCEPT !.used = f] \in TokenRows
         /\ [x EXCEPT !.used = f].used = f
         /\ [x EXCEPT !.used = f].purpose = x.purpose
  BY DEF TokenRows

\* consume_step_up spends one token, once.
LEMMA Spending ==
  ASSUME ControlsTypeOK, NEW s \in Sessions, NEW t \in Tokens, NEW p, Spend(s, t, p)
  PROVE  SpendsOnly(t) /\ token[t].purpose = p
  <1>1. token[t] \in TokenRows /\ token[t] # NoRow /\ ~token[t].used /\ token[t].purpose = p
    BY DEF ControlsTypeOK, Spend
  <1> DEFINE new == [token[t] EXCEPT !.used = TRUE]
  <1>2. new \in TokenRows /\ new.used /\ new.purpose = token[t].purpose
    BY <1>1, MarkUsed
  <1>3. token' = [token EXCEPT ![t] = new]
    BY DEF Spend
  <1> HIDE DEF new
  <1>4. token'[t] = new /\ \A u \in Tokens \ {t} : token'[u] = token[u]
    BY <1>3 DEF ControlsTypeOK
  <1>5. token' \in [Tokens -> TokenRows \cup {NoRow}]
    BY <1>2, <1>3 DEF ControlsTypeOK
  <1> QED BY <1>1, <1>2, <1>4, <1>5, NoneIsApart DEF SpendsOnly

\* An issued row is unspent and carries its session and purpose.
LEMMA NewRow ==
  ASSUME NEW s \in Sessions, NEW p \in Purposes, NEW f \in BOOLEAN
  PROVE  [at |-> s, purpose |-> p, used |-> f] \in TokenRows
  BY DEF TokenRows

\* confirm_admin_pin issues no token, or one.
LEMMA Elevating ==
  ASSUME ControlsTypeOK, NEW s \in Sessions, NEW p \in Purposes \cup {"admin_center"},
         Elevate(s, p)
  PROVE  IssuesAtMostOne /\ elevated' \subseteq Sessions
  <1>1. elevated' \subseteq Sessions
    BY DEF ControlsTypeOK, Elevate
  <1>2. CASE p = "admin_center"
    BY <1>1, <1>2 DEF ControlsTypeOK, Elevate, IssuesAtMostOne
  <1>3. CASE p # "admin_center"
    <2> DEFINE new == [at |-> s, purpose |-> p, used |-> FALSE]
    <2>1. new \in TokenRows
      BY <1>3, NewRow
    <2>2. PICK t \in Unissued : token' = [token EXCEPT ![t] = new]
      BY <1>3 DEF Elevate
    <2>3. t \in Tokens /\ token[t] = NoRow
      BY DEF Unissued
    <2> HIDE DEF new
    <2> QED BY <1>1, <2>1, <2>2, <2>3 DEF ControlsTypeOK, IssuesAtMostOne
  <1> QED BY <1>2, <1>3

\* Issuing tokens disturbs nothing that was authorised.
LEMMA IssuingKeeps ==
  ASSUME IInv, IssuesAtMostOne, UNCHANGED <<record, by>>
  PROVE  Authorised' /\ OneEach'
  <1>1. \A x \in CommandKeys \cup Handoffs : by[x] # None => by[x] \in Tokens
    BY DEF IInv, ControlsTypeOK
  <1>2. Authorised'
    BY <1>1 DEF IInv, Authorised, IssuesAtMostOne
  <1>3. OneEach'
    BY DEF IInv, OneEach
  <1> QED BY <1>2, <1>3

\* Spending a token for nothing new disturbs nothing either.
LEMMA SpendingKeeps ==
  ASSUME IInv, NEW t \in Tokens, SpendsOnly(t), UNCHANGED <<record, by>>
  PROVE  Authorised' /\ OneEach'
  <1>1. \A x \in CommandKeys \cup Handoffs : by[x] # None => by[x] \in Tokens /\ by[x] # t
    BY DEF IInv, ControlsTypeOK, Authorised, SpendsOnly
  <1>2. Authorised'
    BY <1>1 DEF IInv, Authorised, SpendsOnly
  <1>3. OneEach'
    BY DEF IInv, OneEach
  <1> QED BY <1>2, <1>3

\* Nor does a step that leaves tokens, records and history alone.
LEMMA ElsewhereKeeps ==
  ASSUME IInv, UNCHANGED <<token, record, by>>
  PROVE  Authorised' /\ OneEach'
  BY DEF IInv, Authorised, OneEach

\* A token spent for x, whose record, if it is a key, is the command's.
LEMMA AuthorisingKeeps ==
  ASSUME IInv, NEW t \in Tokens, SpendsOnly(t), NEW x \in CommandKeys \cup Handoffs,
         by' = [by EXCEPT ![x] = t],
         \A k \in CommandKeys \ {x} : record[k] # None => record'[k] = record[k],
         x \in CommandKeys => record'[x] # None /\ token[t].purpose = record'[x].purpose
  PROVE  Authorised' /\ OneEach'
  <1>1. \A y \in CommandKeys \cup Handoffs : by[y] # None => by[y] \in Tokens /\ by[y] # t
    BY DEF IInv, ControlsTypeOK, Authorised, SpendsOnly
  <1>2. \A y \in CommandKeys \cup Handoffs : by'[y] = IF y = x THEN t ELSE by[y]
    BY DEF IInv, ControlsTypeOK
  <1>3. Authorised'
    <2> SUFFICES ASSUME NEW y \in CommandKeys \cup Handoffs, by'[y] # None
                 PROVE  /\ token'[by'[y]] # NoRow /\ token'[by'[y]].used
                        /\ y \in CommandKeys =>
                              record'[y] # None /\ token'[by'[y]].purpose = record'[y].purpose
      BY DEF Authorised
    <2>1. CASE y = x
      BY <1>2, <2>1 DEF SpendsOnly
    <2>2. CASE y # x
      BY <1>1, <1>2, <2>2 DEF SpendsOnly, IInv, Authorised
    <2> QED BY <2>1, <2>2
  <1>4. OneEach'
    BY <1>1, <1>2 DEF IInv, OneEach
  <1> QED BY <1>3, <1>4

-----------------------------------------------------------------------------
LEMMA InitIInv == Init => IInv
  <1> SUFFICES ASSUME Init PROVE IInv
    OBVIOUS
  <1>1. ControlsTypeOK
    BY DEF Init, ControlsTypeOK
  <1>2. \A x \in CommandKeys \cup Handoffs : by[x] = None
    BY DEF Init
  <1>3. Authorised /\ OneEach
    BY <1>2 DEF Authorised, OneEach
  <1>4. NoKeyBurned
    BY DEF Init, NoKeyBurned
  <1> QED BY <1>1, <1>3, <1>4 DEF IInv

\* A request that is open was opened by a session.
LEMMA OpenRequests ==
  ASSUME ControlsTypeOK, NEW r \in Requests, Open(r)
  PROVE  request[r].at \in Sessions /\ request[r].claims \in ConfirmKeys \cup {None}
  BY DEF ControlsTypeOK, Open, OpenRequest

LEMMA Closing ==
  ASSUME ControlsTypeOK, NEW r \in Requests, Close(r)
  PROVE  request' \in [Requests -> OpenRequest \cup {Idle}]
  BY DEF ControlsTypeOK, Close

\* A claimed key stays with its request: of the requests only r changes, and
\* what r had claimed is settled unless r still claims it.
LEMMA ClaimsStayHeld ==
  ASSUME ControlsTypeOK, NoKeyBurned, NEW r \in Requests,
         \A q \in Requests \ {r} : request'[q] = request[q],
         \A k \in ConfirmKeys : confirm'[k] = "claimed" =>
            \/ request'[r].claims = k
            \/ confirm[k] = "claimed" /\ request[r].claims # k
  PROVE  NoKeyBurned'
  BY DEF NoKeyBurned

\* A request that claimed nothing begins or ends, and the keys are left alone.
LEMMA UnclaimedStepKeeps ==
  ASSUME ControlsTypeOK, NoKeyBurned, NEW r \in Requests, request[r].claims = None,
         \A q \in Requests \ {r} : request'[q] = request[q], UNCHANGED confirm
  PROVE  NoKeyBurned'
  <1>1. \A k \in ConfirmKeys : request[r].claims # k
    BY NoneIsApart
  <1> QED BY <1>1, ClaimsStayHeld

LEMMA ClosesOne ==
  ASSUME ControlsTypeOK, NEW r \in Requests, Close(r)
  PROVE  \A q \in Requests \ {r} : request'[q] = request[q]
  BY DEF ControlsTypeOK, Close

LEMMA BeginKeeps ==
  ASSUME IInv, NEW r \in Requests, NEW s \in Sessions, Begin(r, s)
  PROVE  IInv'
  <1>1. request' \in [Requests -> OpenRequest \cup {Idle}]
    <2>1. [request[r] EXCEPT !.at = s] \in OpenRequest
      BY DEF Begin, Open, Idle, OpenRequest
    <2> DEFINE new == [request[r] EXCEPT !.at = s]
    <2>2. request' = [request EXCEPT ![r] = new]
      BY DEF Begin
    <2>3. new \in OpenRequest
      BY <2>1
    <2> HIDE DEF new
    <2> QED BY <2>2, <2>3 DEF IInv, ControlsTypeOK
  <1>2. ControlsTypeOK'
    BY <1>1 DEF Begin, IInv, ControlsTypeOK
  <1>3. request[r].claims = None /\ \A q \in Requests \ {r} : request'[q] = request[q]
    BY DEF Begin, Open, Idle, IInv, ControlsTypeOK
  <1>4. NoKeyBurned'
    BY <1>3, UnclaimedStepKeeps DEF Begin, IInv
  <1> QED BY <1>2, <1>4, ElsewhereKeeps DEF Begin, IInv

LEMMA AbortKeeps ==
  ASSUME IInv, NEW r \in Requests, Abort(r)
  PROVE  IInv'
  <1>1. \A k \in ConfirmKeys :
            confirm'[k] = IF k = request[r].claims THEN "none" ELSE confirm[k]
    BY DEF Abort, IInv, ControlsTypeOK
  <1>2. ControlsTypeOK'
    BY Closing DEF Abort, IInv, ControlsTypeOK
  <1>3. NoKeyBurned'
    BY <1>1, ClosesOne, ClaimsStayHeld DEF Abort, IInv
  <1> QED BY <1>2, <1>3, ElsewhereKeeps DEF Abort, IInv

LEMMA RefuseConfirmationKeeps ==
  ASSUME IInv, NEW r \in Requests, RefuseConfirmation(r)
  PROVE  IInv'
  <1>1. \A k \in ConfirmKeys :
            confirm'[k] = IF k = request[r].claims THEN "none" ELSE confirm[k]
    BY DEF RefuseConfirmation, IInv, ControlsTypeOK
  <1>2. ControlsTypeOK'
    BY Closing DEF RefuseConfirmation, IInv, ControlsTypeOK
  <1>3. NoKeyBurned'
    BY <1>1, ClosesOne, ClaimsStayHeld DEF RefuseConfirmation, IInv
  <1> QED BY <1>2, <1>3, ElsewhereKeeps DEF RefuseConfirmation, IInv

LEMMA ConfirmInBrowserKeeps ==
  ASSUME IInv, NEW r \in Requests, NEW p \in Purposes \cup {"admin_center"},
         ConfirmInBrowser(r, p)
  PROVE  IInv'
  <1>1. IssuesAtMostOne /\ elevated' \subseteq Sessions
    BY OpenRequests, Elevating DEF ConfirmInBrowser, IInv
  <1>2. ControlsTypeOK'
    BY <1>1, Closing DEF ConfirmInBrowser, IInv, ControlsTypeOK, IssuesAtMostOne
  <1>3. NoKeyBurned'
    BY ClosesOne, UnclaimedStepKeeps DEF ConfirmInBrowser, IInv
  <1> QED BY <1>1, <1>2, <1>3, IssuingKeeps DEF ConfirmInBrowser, IInv

LEMMA ClaimConfirmationKeeps ==
  ASSUME IInv, NEW r \in Requests, NEW k \in ConfirmKeys, ClaimConfirmation(r, k)
  PROVE  IInv'
  <1> DEFINE new == [request[r] EXCEPT !.claims = k]
  <1>1. request[r] \in OpenRequest
    BY DEF ClaimConfirmation, Open, IInv, ControlsTypeOK
  <1>2. new \in OpenRequest
    BY <1>1 DEF OpenRequest
  <1>3. request' = [request EXCEPT ![r] = new]
    BY DEF ClaimConfirmation
  <1> HIDE DEF new
  <1>4. request' \in [Requests -> OpenRequest \cup {Idle}]
    BY <1>2, <1>3 DEF IInv, ControlsTypeOK
  <1>5. ControlsTypeOK'
    BY <1>4 DEF ClaimConfirmation, IInv, ControlsTypeOK
  <1>6. /\ new.claims = k /\ request'[r] = new
        /\ \A q \in Requests \ {r} : request'[q] = request[q]
    BY <1>1, <1>3 DEF new, IInv, ControlsTypeOK, OpenRequest
  <1>7. \A j \in ConfirmKeys : confirm'[j] = "claimed" =>
            j = k \/ (confirm[j] = "claimed" /\ request[r].claims # j)
    BY NoneIsApart DEF ClaimConfirmation, IInv, ControlsTypeOK
  <1>8. NoKeyBurned'
    BY <1>6, <1>7, ClaimsStayHeld DEF IInv
  <1> QED BY <1>5, <1>8, ElsewhereKeeps DEF ClaimConfirmation, IInv

LEMMA ConfirmByBearerKeeps ==
  ASSUME IInv, NEW r \in Requests, NEW p \in Purposes \cup {"admin_center"},
         ConfirmByBearer(r, p)
  PROVE  IInv'
  <1>1. IssuesAtMostOne /\ elevated' \subseteq Sessions
    BY OpenRequests, Elevating DEF ConfirmByBearer, IInv
  <1>2. ControlsTypeOK'
    BY <1>1, Closing DEF ConfirmByBearer, IInv, ControlsTypeOK, IssuesAtMostOne
  <1>3. \A k \in ConfirmKeys :
            confirm'[k] = IF k = request[r].claims THEN "done" ELSE confirm[k]
    BY DEF ConfirmByBearer, IInv, ControlsTypeOK
  <1>4. NoKeyBurned'
    BY <1>3, ClosesOne, ClaimsStayHeld DEF ConfirmByBearer, IInv
  <1> QED BY <1>1, <1>2, <1>4, IssuingKeeps DEF ConfirmByBearer, IInv

LEMMA PerformKeeps ==
  ASSUME IInv, NEW r \in Requests, NEW t \in Tokens, NEW c \in InUse, NEW k \in CommandKeys,
         Perform(r, t, c, k)
  PROVE  IInv'
  <1>1. SpendsOnly(t) /\ token[t].purpose = c.purpose
    BY OpenRequests, Spending DEF Perform, IInv
  <1>2. /\ record' = [record EXCEPT ![k] = c]
        /\ by' = [by EXCEPT ![k] = t]
        /\ record'[k] = c /\ c # None
        /\ \A j \in CommandKeys \ {k} : record'[j] = record[j]
    BY NoneIsApart DEF Perform, IInv, ControlsTypeOK
  <1>3. Authorised' /\ OneEach'
    BY <1>1, <1>2, AuthorisingKeeps
  <1>4. ControlsTypeOK'
    BY <1>1, <1>2, Closing DEF Perform, IInv, ControlsTypeOK, SpendsOnly
  <1>5. NoKeyBurned'
    BY ClosesOne, UnclaimedStepKeeps DEF Perform, IInv
  <1> QED BY <1>3, <1>4, <1>5 DEF IInv

LEMMA ReplayKeeps ==
  ASSUME IInv, NEW r \in Requests, NEW t \in Tokens, NEW k \in CommandKeys, Replay(r, t, k)
  PROVE  IInv'
  <1>1. SpendsOnly(t)
    BY OpenRequests, Spending DEF Replay, IInv
  <1>2. ControlsTypeOK'
    BY <1>1, Closing DEF Replay, IInv, ControlsTypeOK, SpendsOnly
  <1>3. NoKeyBurned'
    BY ClosesOne, UnclaimedStepKeeps DEF Replay, IInv
  <1> QED BY <1>1, <1>2, <1>3, SpendingKeeps DEF Replay, IInv

LEMMA IssueHandoffKeeps ==
  ASSUME IInv, NEW r \in Requests, NEW t \in Tokens, NEW h \in Handoffs,
         NEW k \in CommandKeys \cup {None}, IssueHandoff(r, t, h, k)
  PROVE  IInv'
  <1>1. SpendsOnly(t)
    BY OpenRequests, Spending DEF IssueHandoff, IInv
  <1>2. h \notin CommandKeys /\ HandoffIssue \in InUse
    BY ControlsAssumption
  <1>3. /\ by' = [by EXCEPT ![h] = t]
        /\ record' \in [CommandKeys -> InUse \cup {None}]
        /\ \A j \in CommandKeys : record[j] # None => record'[j] = record[j]
    BY <1>2, ControlsAssumption DEF IssueHandoff, IInv, ControlsTypeOK
  <1>4. Authorised' /\ OneEach'
    BY <1>1, <1>2, <1>3, AuthorisingKeeps
  <1>5. handoff' \in [Handoffs -> HandoffRows \cup {NoRow}]
    <2> DEFINE new == [at |-> request[r].at, redeemed |-> FALSE]
    <2>1. new \in HandoffRows
      <3>1. \A f \in BOOLEAN : [at |-> request[r].at, redeemed |-> f] \in HandoffRows
        BY OpenRequests DEF IssueHandoff, IInv, HandoffRows
      <3> QED BY <3>1
    <2>2. handoff' = [handoff EXCEPT ![h] = new]
      BY DEF IssueHandoff
    <2> HIDE DEF new
    <2> QED BY <2>1, <2>2 DEF IInv, ControlsTypeOK
  <1>6. ControlsTypeOK'
    BY <1>1, <1>3, <1>5, Closing DEF IssueHandoff, IInv, ControlsTypeOK, SpendsOnly
  <1>7. NoKeyBurned'
    BY ClosesOne, UnclaimedStepKeeps DEF IssueHandoff, IInv
  <1> QED BY <1>4, <1>6, <1>7 DEF IInv

\* A handoff that was issued, redeemed, still names its session.
LEMMA MarkRedeemed ==
  ASSUME NEW x \in HandoffRows, NEW f \in BOOLEAN
  PROVE  [x EXCEPT !.redeemed = f] \in HandoffRows
  BY DEF HandoffRows

LEMMA RedeemKeeps ==
  ASSUME IInv, NEW h \in Handoffs, NEW l \in Labs, Redeem(h, l)
  PROVE  IInv'
  <1>1. handoff[h] \in HandoffRows /\ handoff[h].at \in Sessions
    BY DEF Redeem, IInv, ControlsTypeOK, HandoffRows
  <1>2. handoff' \in [Handoffs -> HandoffRows \cup {NoRow}]
    <2> DEFINE new == [handoff[h] EXCEPT !.redeemed = TRUE]
    <2>1. new \in HandoffRows
      BY <1>1, MarkRedeemed
    <2>2. handoff' = [handoff EXCEPT ![h] = new]
      BY DEF Redeem
    <2> HIDE DEF new
    <2> QED BY <2>1, <2>2 DEF IInv, ControlsTypeOK
  <1>3. lab' \in [Labs -> LabRows \cup {NoLab}]
    <2>1. [account |-> OwnerOf[handoff[h].at], from |-> h] \in LabRows
      BY <1>1, ControlsAssumption DEF LabRows
    <2> QED BY <2>1 DEF Redeem, IInv, ControlsTypeOK
  <1>4. ControlsTypeOK' /\ NoKeyBurned'
    BY <1>2, <1>3 DEF Redeem, IInv, ControlsTypeOK, NoKeyBurned
  <1> QED BY <1>4, ElsewhereKeeps DEF Redeem, IInv

LEMMA EndSessionsKeeps ==
  ASSUME IInv, NEW a \in Accounts, EndSessions(a)
  PROVE  IInv'
  <1>1. ControlsTypeOK' /\ NoKeyBurned'
    BY DEF EndSessions, IInv, ControlsTypeOK, NoKeyBurned
  <1> QED BY <1>1, ElsewhereKeeps DEF EndSessions, IInv

LEMMA LogoutKeeps ==
  ASSUME IInv, NEW s \in Sessions, Logout(s)
  PROVE  IInv'
  <1>1. ControlsTypeOK' /\ NoKeyBurned'
    BY DEF Logout, IInv, ControlsTypeOK, NoKeyBurned
  <1> QED BY <1>1, ElsewhereKeeps DEF Logout, IInv

LEMMA OnOrOffDutyKeeps ==
  ASSUME IInv, NEW a \in Accounts, OnOrOffDuty(a)
  PROVE  IInv'
  <1>1. ControlsTypeOK' /\ NoKeyBurned'
    BY DEF OnOrOffDuty, IInv, ControlsTypeOK, NoKeyBurned
  <1> QED BY <1>1, ElsewhereKeeps DEF OnOrOffDuty, IInv

LEMMA RunOutKeeps ==
  ASSUME IInv, NEW s \in Sessions, RunOut(s)
  PROVE  IInv'
  <1>1. ControlsTypeOK' /\ NoKeyBurned'
    BY DEF RunOut, IInv, ControlsTypeOK, NoKeyBurned
  <1> QED BY <1>1, ElsewhereKeeps DEF RunOut, IInv

LEMMA NextIInv == IInv /\ [Next]_vars => IInv'
  <1> SUFFICES ASSUME IInv, [Next]_vars PROVE IInv'
    OBVIOUS
  <1>1. CASE UNCHANGED vars
    BY <1>1 DEF vars, IInv, ControlsTypeOK, Authorised, OneEach, NoKeyBurned
  <1>2. ASSUME NEW r \in Requests, NEW s \in Sessions, Begin(r, s) PROVE IInv'
    BY <1>2, BeginKeeps
  <1>3. ASSUME NEW r \in Requests, Abort(r) \/ RefuseConfirmation(r) PROVE IInv'
    BY <1>3, AbortKeeps, RefuseConfirmationKeeps
  <1>4. ASSUME NEW r \in Requests, NEW p \in Purposes \cup {"admin_center"},
               ConfirmInBrowser(r, p) \/ ConfirmByBearer(r, p)
        PROVE  IInv'
    BY <1>4, ConfirmInBrowserKeeps, ConfirmByBearerKeeps
  <1>5. ASSUME NEW r \in Requests, NEW k \in ConfirmKeys, ClaimConfirmation(r, k) PROVE IInv'
    BY <1>5, ClaimConfirmationKeeps
  <1>6. ASSUME NEW r \in Requests, NEW t \in Tokens, NEW k \in CommandKeys, Replay(r, t, k)
        PROVE  IInv'
    BY <1>6, ReplayKeeps
  <1>7. ASSUME NEW r \in Requests, NEW t \in Tokens, NEW k \in CommandKeys, NEW c \in InUse,
               Perform(r, t, c, k)
        PROVE  IInv'
    BY <1>7, PerformKeeps
  <1>8. ASSUME NEW r \in Requests, NEW t \in Tokens, NEW k \in CommandKeys \cup {None},
               NEW h \in Handoffs, IssueHandoff(r, t, h, k)
        PROVE  IInv'
    BY <1>8, IssueHandoffKeeps
  <1>9. ASSUME NEW h \in Handoffs, NEW l \in Labs, Redeem(h, l) PROVE IInv'
    BY <1>9, RedeemKeeps
  <1>10. ASSUME NEW a \in Accounts, EndSessions(a) \/ OnOrOffDuty(a) PROVE IInv'
    BY <1>10, EndSessionsKeeps, OnOrOffDutyKeeps
  <1>11. ASSUME NEW s \in Sessions, Logout(s) \/ RunOut(s) PROVE IInv'
    BY <1>11, LogoutKeeps, RunOutKeeps
  <1> QED
    BY <1>1, <1>2, <1>3, <1>4, <1>5, <1>6, <1>7, <1>8, <1>9, <1>10, <1>11 DEF Next

-----------------------------------------------------------------------------
\* Every record of every request stays within its type.
THEOREM TypeCorrect == Spec => []ControlsTypeOK
  <1>1. IInv => ControlsTypeOK
    BY DEF IInv
  <1> QED BY <1>1, InitIInv, NextIInv, PTL DEF Spec

\* However many requests carry a confirmation's token, under whatever keys,
\* one command or handoff is authorised by it, and with the purpose that
\* was confirmed.
THEOREM ConfirmationsUsedOnce == Spec => []OneUsePerConfirmation
  <1>1. IInv => OneUsePerConfirmation
    <2> SUFFICES ASSUME IInv PROVE OneUsePerConfirmation
      OBVIOUS
    <2>1. DOMAIN by = CommandKeys \cup Handoffs
      BY DEF IInv, ControlsTypeOK
    <2> QED BY <2>1 DEF IInv, Authorised, OneEach, OneUsePerConfirmation
  <1> QED BY <1>1, InitIInv, NextIInv, PTL DEF Spec

\* However requests that confirm a PIN overlap, fail and roll back, a wrong PIN
\* or a failure after the claim never leaves the key of a confirmation claimed.
THEOREM KeysStayUsable == Spec => []NoKeyBurned
  <1>1. IInv => NoKeyBurned
    BY DEF IInv
  <1> QED BY <1>1, InitIInv, NextIInv, PTL DEF Spec

-----------------------------------------------------------------------------
\* A Review Lab session stands for the handoff that was redeemed for it.
LabsRedeemed ==
    \A m \in Labs : lab[m] # NoLab =>
        /\ lab[m].from \in Handoffs
        /\ handoff[lab[m].from] # NoRow /\ handoff[lab[m].from].redeemed

LabIInv == IInv /\ LabsRedeemed

\* Every step but issuing and redeeming leaves handoffs and labs alone.
LEMMA OnlyHandoffsChangeLabs ==
  ASSUME Next
  PROVE  \/ UNCHANGED <<handoff, lab>>
         \/ \E r \in Requests, t \in Tokens, h \in Handoffs, k \in CommandKeys \cup {None} :
               IssueHandoff(r, t, h, k)
         \/ \E h \in Handoffs, l \in Labs : Redeem(h, l)
  BY DEF Next, Begin, Abort, RefuseConfirmation, ConfirmInBrowser, ConfirmByBearer,
         ClaimConfirmation, Replay, Perform, EndSessions, OnOrOffDuty, Logout, RunOut

LEMMA LabsStayRedeemed == LabIInv /\ [Next]_vars => LabsRedeemed'
  <1> SUFFICES ASSUME LabIInv, [Next]_vars PROVE LabsRedeemed'
    OBVIOUS
  <1>1. CASE UNCHANGED <<handoff, lab>>
    BY <1>1 DEF LabIInv, LabsRedeemed
  <1>2. ASSUME NEW r \in Requests, NEW t \in Tokens, NEW h \in Handoffs,
               NEW k \in CommandKeys \cup {None}, IssueHandoff(r, t, h, k)
        PROVE  LabsRedeemed'
    <2>1. /\ handoff[h] = NoRow /\ lab' = lab
          /\ \A g \in Handoffs \ {h} : handoff'[g] = handoff[g]
      BY <1>2 DEF IssueHandoff, LabIInv, IInv, ControlsTypeOK
    <2> QED BY <2>1 DEF LabIInv, LabsRedeemed
  <1>3. ASSUME NEW h \in Handoffs, NEW l \in Labs, Redeem(h, l) PROVE LabsRedeemed'
    <2>1. handoff[h] \in HandoffRows
      BY <1>3 DEF Redeem, LabIInv, IInv, ControlsTypeOK
    <2> DEFINE new == [handoff[h] EXCEPT !.redeemed = TRUE]
    <2>2. new \in HandoffRows /\ new.redeemed
      BY <2>1, MarkRedeemed DEF HandoffRows
    <2>3. handoff' = [handoff EXCEPT ![h] = new]
      BY <1>3 DEF Redeem
    <2> HIDE DEF new
    <2>4. handoff'[h] = new /\ \A g \in Handoffs \ {h} : handoff'[g] = handoff[g]
      BY <2>3 DEF LabIInv, IInv, ControlsTypeOK
    <2>5. handoff'[h] # NoRow /\ handoff'[h].redeemed
      BY <2>2, <2>4, NoneIsApart
    <2>6. lab'[l].from = h /\ \A m \in Labs \ {l} : lab'[m] = lab[m]
      BY <1>3 DEF Redeem, LabIInv, IInv, ControlsTypeOK
    <2> QED BY <2>4, <2>5, <2>6 DEF LabIInv, LabsRedeemed
  <1> QED BY <1>1, <1>2, <1>3, OnlyHandoffsChangeLabs DEF vars

\* The step that opens a lab session.
OpensLab ==
    \A l \in Labs : lab[l] = NoLab /\ lab'[l] # NoLab =>
        /\ Valid(handoff[lab'[l].from].at)
        /\ \A m \in Labs \ {l} : lab'[m] # NoLab => lab'[m].from # lab'[l].from

LEMMA OpeningLabs == LabIInv /\ [Next]_vars => [OpensLab]_vars
  <1> SUFFICES ASSUME LabIInv, Next PROVE OpensLab
    BY DEF vars
  <1>1. CASE lab' = lab
    BY <1>1 DEF OpensLab
  <1>2. ASSUME NEW h \in Handoffs, NEW l \in Labs, Redeem(h, l) PROVE OpensLab
    <2>1. /\ lab'[l].from = h /\ \A m \in Labs \ {l} : lab'[m] = lab[m]
          /\ Valid(handoff[h].at) /\ ~handoff[h].redeemed
      BY <1>2 DEF Redeem, LabIInv, IInv, ControlsTypeOK
    <2>2. \A m \in Labs \ {l} : lab[m] # NoLab => lab[m].from # h
      BY <2>1 DEF LabIInv, LabsRedeemed
    <2> QED BY <2>1, <2>2 DEF OpensLab
  <1> QED BY <1>1, <1>2, OnlyHandoffsChangeLabs DEF IssueHandoff

\* The Review Lab opens once per handoff, and for a session that is still
\* accepted when the code is redeemed.
THEOREM LabsAreOpenedByAdmins == Spec => LabOpenedByAdmin
  <1>1. Init => LabIInv
    BY InitIInv DEF Init, LabIInv, LabsRedeemed
  <1>2. LabIInv /\ [Next]_vars => LabIInv'
    BY NextIInv, LabsStayRedeemed DEF LabIInv
  <1>3. Spec => [][OpensLab]_vars
    BY <1>1, <1>2, OpeningLabs, PTL DEF Spec
  <1> QED BY <1>3 DEF LabOpenedByAdmin, OpensLab
=============================================================================
