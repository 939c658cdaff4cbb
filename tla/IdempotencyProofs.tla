-------------------------- MODULE IdempotencyProofs --------------------------
(***************************************************************************)
(* Proofs about Idempotency for any number of keys and requests, transac-  *)
(* tional or not.                                                          *)
(***************************************************************************)
EXTENDS Idempotency, TLAPS

\* The empty table is well typed.
LEMMA InitTyped == Init => TypeOK
  BY IdempotencyAssumption
     DEF Init, TypeOK, NoRecord, Records, Answers, Effects, Points

\* No step of claim_idempotency, a command or a crash leaves the types.
LEMMA NextTyped == TypeOK /\ [Next]_vars => TypeOK'
  <1> SUFFICES ASSUME TypeOK, [Next]_vars PROVE TypeOK'
    OBVIOUS
  <1> USE IdempotencyAssumption DEF TypeOK, Points, Answers, Effects
  <1>a. ASSUME NEW r \in Requests, Complete(r) PROVE record' \in [Keys -> Records]
    <2>1. \A x \in Records : [x EXCEPT !.status = "completed"] \in Records
      BY DEF Records
    <2>2. KeyOf[r] \in Keys
      OBVIOUS
    <2> HIDE DEF Records
    <2> QED BY <1>a, <2>1, <2>2 DEF Complete
  <1>b. ASSUME NEW r \in Requests, WriteClaim(r)
        PROVE  /\ record' \in [Keys -> Records] /\ saved' \in [Keys -> Records]
               /\ lock' \in [Keys -> Requests \cup {Nobody}]
    BY <1>b DEF WriteClaim, Records
  <1>c. ASSUME NEW r \in Requests, NEW kind \in Answers,
               NEW of \in Requests \cup {Nobody}, Reply(r, kind, of)
        PROVE  /\ pc' \in [Requests -> Points]
               /\ answer' \in [Requests -> [kind : Answers, of : Requests \cup {Nobody}]]
    BY <1>c DEF Reply, Goto
  <1>d. \A r \in Requests : record[KeyOf[r]].of \in Requests \cup {Nobody}
    BY DEF Records
  <1>1. ASSUME NEW r \in Requests, Begin(r) PROVE TypeOK'
    BY <1>1 DEF Begin, Goto
  <1>2. ASSUME NEW r \in Requests, InsertClaim(r) PROVE TypeOK'
    BY <1>2, <1>b DEF InsertClaim, Goto
  <1>3. ASSUME NEW r \in Requests, InsertConflicts(r) PROVE TypeOK'
    BY <1>3 DEF InsertConflicts, Goto
  <1>4. ASSUME NEW r \in Requests, SelectClaim(r) PROVE TypeOK'
    <2>1. CASE WriteClaim(r) /\ Goto(r, "operate") /\ UNCHANGED answer
      BY <1>4, <2>1, <1>b DEF SelectClaim, Goto
    <2>2. CASE /\ UNCHANGED <<record, lock, saved>>
               /\ \E kind \in Answers, of \in Requests \cup {Nobody} : Reply(r, kind, of)
      BY <1>4, <2>2, <1>c DEF SelectClaim
    <2> QED BY <1>4, <1>d, <2>1, <2>2 DEF SelectClaim
  <1>5. ASSUME NEW r \in Requests, Perform(r) PROVE TypeOK'
    <2>1. record' \in [Keys -> Records]
      BY <1>5, <1>a DEF Perform
    <2>2. Effect(r) \in Effects
      BY DEF Effect
    <2> QED BY <1>5, <1>c, <2>1, <2>2 DEF Perform, EndOf
  <1>6. ASSUME NEW r \in Requests, Rollback(r) PROVE TypeOK'
    BY <1>6, <1>c DEF Rollback, Undo, EndOf
  <1>7. ASSUME NEW r \in Requests, CommitClaim(r) PROVE TypeOK'
    BY <1>7 DEF CommitClaim, EndOf, Goto
  <1>8. ASSUME NEW r \in Requests, CallProvider(r) PROVE TypeOK'
    <2>1. Effect(r) \in Effects
      BY DEF Effect
    <2> QED BY <1>8, <2>1 DEF CallProvider, Goto
  <1>9. ASSUME NEW r \in Requests, Settle(r) PROVE TypeOK'
    <2>1. record' \in [Keys -> Records]
      BY <1>9, <1>a DEF Settle
    <2> QED BY <1>9, <1>c, <2>1 DEF Settle
  <1>9a. ASSUME NEW r \in Requests, FailProvider(r) PROVE TypeOK'
    <2>1. record' \in [Keys -> Records]
      BY <1>9a, <1>a DEF FailProvider
    <2> QED BY <1>9a, <1>c, <2>1 DEF FailProvider
  <1>9b. ASSUME NEW r \in Requests, LoseSettlement(r) PROVE TypeOK'
    BY <1>9b, <1>c DEF LoseSettlement
  <1>10. ASSUME NEW r \in Requests, Crash(r) PROVE TypeOK'
    <2>1. record' \in [Keys -> Records] /\ lock' \in [Keys -> Requests \cup {Nobody}]
      BY <1>10 DEF Crash, Undo, EndOf
    <2> QED BY <1>10, <1>c, <2>1 DEF Crash
  <1>11. CASE Tick
    BY <1>11 DEF Tick
  <1>12. CASE UNCHANGED vars
    BY <1>12 DEF vars
  <1> QED BY <1>1, <1>2, <1>3, <1>4, <1>5, <1>6, <1>7, <1>8, <1>9, <1>9a,
             <1>9b, <1>10, <1>11, <1>12 DEF Next, Step

\* The records, locks and requests hold the values the schema allows.
THEOREM TypeCorrect == Spec => []TypeOK
  BY InitTyped, NextTyped, PTL DEF Spec

-----------------------------------------------------------------------------
(* At most once.  An effect is dated by the clock its request had read when *)
(* it claimed the key, which is also the date of the record it wrote.  The  *)
(* committed record of a key outlives each of its effects by a day, and a   *)
(* claim taken over an older record is not older than that record's end.    *)

\* The record other transactions see.
Committed(k) == IF lock[k] = Nobody THEN record[k] ELSE saved[k]

\* Only a request that is about to operate has a transaction open on its key.
LocksHeld ==
    /\ \A k \in Keys : lock[k] # Nobody =>
         pc[lock[k]] = "operate" /\ KeyOf[lock[k]] = k
    /\ \A r \in Requests : pc[r] = "operate" => lock[KeyOf[r]] = r

\* The record of a request at work is its own and in progress.
ClaimsOwned ==
    \A r \in Requests : pc[r] \in {"operate", "provider", "called"} =>
        /\ pc[r] # "operate" => lock[KeyOf[r]] = Nobody
        /\ record[KeyOf[r]].status = "in_progress"
        /\ record[KeyOf[r]].expires = began[r] + Day
        /\ record[KeyOf[r]].of = r

\* Requests are shorter than the life of a record.
RequestsShort ==
    \A r \in Requests : Active(r) => began[r] <= clock /\ clock < began[r] + Day

\* A request waiting for a locked record has met a committed one.
MetRecord ==
    \A r \in Requests : pc[r] = "select" => Committed(KeyOf[r]).status # "none"

EffectsRecorded ==
    \A e \in effects :
        /\ Committed(e.key).status # "none"
        /\ e.at + Day <= Committed(e.key).expires
        /\ \A r \in Requests : pc[r] \in {"operate", "provider"} /\ KeyOf[r] = e.key =>
             e.at + Day <= began[r]

IInv == /\ TypeOK /\ LocksHeld /\ ClaimsOwned /\ RequestsShort /\ MetRecord
        /\ EffectsRecorded /\ AtMostOncePerDay

\* The inductive invariant holds before the first request.
LEMMA InitIInv == Init => IInv
  BY InitTyped, IdempotencyAssumption
     DEF Init, IInv, LocksHeld, ClaimsOwned, RequestsShort, MetRecord,
         EffectsRecorded, AtMostOncePerDay, Active, Committed, NoRecord

\* Every step of a request, a crash or the clock keeps it.
LEMMA NextIInv == IInv /\ [Next]_vars => IInv'
  <1> SUFFICES ASSUME IInv, [Next]_vars
               PROVE  /\ LocksHeld' /\ ClaimsOwned' /\ RequestsShort' /\ MetRecord'
                      /\ EffectsRecorded' /\ AtMostOncePerDay'
    BY NextTyped DEF IInv
  <1> USE IdempotencyAssumption DEF IInv, TypeOK
  <1>1. ASSUME NEW r \in Requests, Begin(r)
        PROVE  /\ LocksHeld' /\ ClaimsOwned' /\ RequestsShort' /\ MetRecord'
               /\ EffectsRecorded' /\ AtMostOncePerDay'
    <2>1. LocksHeld'
      BY <1>1 DEF Begin, Goto, LocksHeld
    <2>2. ClaimsOwned'
      BY <1>1 DEF Begin, Goto, LocksHeld, ClaimsOwned
    <2>3. RequestsShort'
      BY <1>1 DEF Begin, Goto, RequestsShort, Active
    <2>4. MetRecord'
      BY <1>1 DEF Begin, Goto, MetRecord, Committed, LocksHeld
    <2>5. EffectsRecorded'
      BY <1>1
         DEF Begin, Goto, EffectsRecorded, Committed, LocksHeld, ClaimsOwned,
             Effects
    <2>6. AtMostOncePerDay'
      BY <1>1 DEF Begin, Goto, AtMostOncePerDay, EffectsRecorded, Effects
    <2> QED BY <2>1, <2>2, <2>3, <2>4, <2>5, <2>6
  <1>2. ASSUME NEW r \in Requests, InsertClaim(r)
        PROVE  /\ LocksHeld' /\ ClaimsOwned' /\ RequestsShort' /\ MetRecord'
               /\ EffectsRecorded' /\ AtMostOncePerDay'
    <2>1. LocksHeld'
      BY <1>2 DEF InsertClaim, WriteClaim, Goto, LocksHeld
    <2>2. ClaimsOwned'
      BY <1>2 DEF InsertClaim, WriteClaim, Goto, LocksHeld, ClaimsOwned
    <2>3. RequestsShort'
      BY <1>2 DEF InsertClaim, WriteClaim, Goto, RequestsShort, Active
    <2>4. MetRecord'
      BY <1>2 DEF InsertClaim, WriteClaim, Goto, MetRecord, Committed, LocksHeld
    <2>5. EffectsRecorded'
      BY <1>2
         DEF InsertClaim, WriteClaim, Goto, EffectsRecorded, Committed,
             LocksHeld, ClaimsOwned, Effects
    <2>6. AtMostOncePerDay'
      BY <1>2
         DEF InsertClaim, WriteClaim, Goto, AtMostOncePerDay, EffectsRecorded,
             Effects
    <2> QED BY <2>1, <2>2, <2>3, <2>4, <2>5, <2>6
  <1>3. ASSUME NEW r \in Requests, InsertConflicts(r)
        PROVE  /\ LocksHeld' /\ ClaimsOwned' /\ RequestsShort' /\ MetRecord'
               /\ EffectsRecorded' /\ AtMostOncePerDay'
    <2>1. LocksHeld'
      BY <1>3 DEF InsertConflicts, Goto, LocksHeld
    <2>2. ClaimsOwned'
      BY <1>3 DEF InsertConflicts, Goto, LocksHeld, ClaimsOwned
    <2>3. RequestsShort'
      BY <1>3 DEF InsertConflicts, Goto, RequestsShort, Active
    <2>4. MetRecord'
      BY <1>3 DEF InsertConflicts, Goto, MetRecord, Committed, LocksHeld
    <2>5. EffectsRecorded'
      BY <1>3
         DEF InsertConflicts, Goto, EffectsRecorded, Committed, LocksHeld,
             ClaimsOwned, Effects
    <2>6. AtMostOncePerDay'
      BY <1>3 DEF InsertConflicts, Goto, AtMostOncePerDay, EffectsRecorded, Effects
    <2> QED BY <2>1, <2>2, <2>3, <2>4, <2>5, <2>6
  <1>4. ASSUME NEW r \in Requests, SelectClaim(r)
        PROVE  /\ LocksHeld' /\ ClaimsOwned' /\ RequestsShort' /\ MetRecord'
               /\ EffectsRecorded' /\ AtMostOncePerDay'
    <2>0. pc[r] = "select" /\ lock[KeyOf[r]] = Nobody /\ UNCHANGED <<clock, began, effects>>
      BY <1>4 DEF SelectClaim
    <2>a. AtMostOncePerDay'
      BY <2>0 DEF AtMostOncePerDay
    <2>1. CASE UNCHANGED <<record, lock, saved>> /\ Goto(r, "answered")
      <3>1. LocksHeld' /\ ClaimsOwned' /\ RequestsShort' /\ MetRecord'
        BY <2>0, <2>1 DEF Goto, LocksHeld, ClaimsOwned, RequestsShort, Active,
                          MetRecord, Committed
      <3>2. EffectsRecorded'
        BY <2>0, <2>1 DEF Goto, EffectsRecorded, Committed
      <3> QED BY <2>a, <3>1, <3>2
    <2>2. CASE Expired(KeyOf[r], began[r]) /\ WriteClaim(r) /\ Goto(r, "operate")
      <3>1. /\ lock' = [lock EXCEPT ![KeyOf[r]] = r]
            /\ saved' = [saved EXCEPT ![KeyOf[r]] = record[KeyOf[r]]]
            /\ pc' = [pc EXCEPT ![r] = "operate"]
            /\ record' = [record EXCEPT ![KeyOf[r]] =
                 [status |-> "in_progress", digest |-> DigestOf[r],
                  expires |-> began[r] + Day, of |-> r]]
            /\ record[KeyOf[r]].expires <= began[r]
        BY <2>2 DEF WriteClaim, Goto, Expired
      <3>2. LocksHeld'
        BY <2>0, <3>1 DEF LocksHeld
      <3>3. \A s \in Requests : pc[s] \in {"provider", "called"} => KeyOf[s] # KeyOf[r]
        BY <2>0, <3>1 DEF ClaimsOwned, RequestsShort, Active
      <3>4. ClaimsOwned'
        BY <2>0, <3>1, <3>3 DEF ClaimsOwned, LocksHeld
      <3>5. RequestsShort'
        BY <2>0, <3>1 DEF RequestsShort, Active
      <3>6. \A k \in Keys : Committed(k)' = Committed(k)
        BY <2>0, <3>1 DEF Committed
      <3>7. MetRecord'
        BY <3>1, <3>6 DEF MetRecord
      <3>8. EffectsRecorded'
        <4>1. \A e \in effects : e.key = KeyOf[r] => e.at + Day <= began[r]
          BY <2>0, <3>1 DEF EffectsRecorded, Committed, Effects, Records
        <4> QED BY <2>0, <3>1, <3>6, <4>1 DEF EffectsRecorded, Effects
      <3> QED BY <2>a, <3>2, <3>4, <3>5, <3>7, <3>8
    <2> QED BY <1>4, <2>1, <2>2 DEF SelectClaim, Reply
  <1>5. ASSUME NEW r \in Requests, Perform(r)
        PROVE  /\ LocksHeld' /\ ClaimsOwned' /\ RequestsShort' /\ MetRecord'
               /\ EffectsRecorded' /\ AtMostOncePerDay'
    <2>1. LocksHeld'
      BY <1>5 DEF Perform, Complete, EndOf, Reply, Goto, Effect, LocksHeld
    <2>2. ClaimsOwned'
      BY <1>5
         DEF Perform, Complete, EndOf, Reply, Goto, Effect, LocksHeld,
             ClaimsOwned
    <2>3. RequestsShort'
      BY <1>5
         DEF Perform, Complete, EndOf, Reply, Goto, Effect, RequestsShort,
             Active
    <2>4. MetRecord'
      BY <1>5
         DEF Perform, Complete, EndOf, Reply, Goto, Effect, MetRecord,
             Committed, LocksHeld
    <2>5. EffectsRecorded'
      <3>1. /\ pc[r] = "operate" /\ lock[KeyOf[r]] = r
            /\ lock' = [lock EXCEPT ![KeyOf[r]] = Nobody]
            /\ pc' = [pc EXCEPT ![r] = "answered"]
            /\ UNCHANGED <<saved, began>>
            /\ effects' = effects \cup {Effect(r)}
        BY <1>5 DEF Perform, EndOf, Reply, Goto, LocksHeld
      <3>2. /\ record'[KeyOf[r]].status = "completed"
            /\ record'[KeyOf[r]].expires = began[r] + Day
        BY <1>5, <3>1 DEF Perform, Complete, ClaimsOwned
      <3>3. \A k \in Keys : k # KeyOf[r] => Committed(k)' = Committed(k)
        BY <1>5, <3>1 DEF Perform, Complete, Committed
      <3>4. Committed(KeyOf[r])' = record'[KeyOf[r]]
        BY <3>1 DEF Committed
      <3>5. \A s \in Requests : KeyOf[s] = KeyOf[r] => pc'[s] \notin {"operate", "provider"}
        BY <3>1 DEF LocksHeld, ClaimsOwned
      <3>6. ASSUME NEW e \in effects', e.key = KeyOf[r]
            PROVE  e.at + Day <= began[r] + Day /\ began[r] \in Nat /\ e.at \in Nat
        BY <3>1, <3>6 DEF Effect, EffectsRecorded, Effects
      <3>7. ASSUME NEW e \in effects', e.key # KeyOf[r]
            PROVE  e \in effects /\ e.key \in Keys
        BY <3>1, <3>7 DEF Effect, Effects
      <3> QED BY <3>1, <3>2, <3>3, <3>4, <3>5, <3>6, <3>7 DEF EffectsRecorded
    <2>6. AtMostOncePerDay'
      BY <1>5
         DEF Perform, Complete, EndOf, Reply, Goto, Effect, AtMostOncePerDay,
             EffectsRecorded, Effects
    <2> QED BY <2>1, <2>2, <2>3, <2>4, <2>5, <2>6
  <1>6. ASSUME NEW r \in Requests, Rollback(r)
        PROVE  /\ LocksHeld' /\ ClaimsOwned' /\ RequestsShort' /\ MetRecord'
               /\ EffectsRecorded' /\ AtMostOncePerDay'
    <2>1. LocksHeld'
      BY <1>6 DEF Rollback, Undo, EndOf, Reply, Goto, LocksHeld
    <2>2. ClaimsOwned'
      BY <1>6 DEF Rollback, Undo, EndOf, Reply, Goto, LocksHeld, ClaimsOwned
    <2>3. RequestsShort'
      BY <1>6 DEF Rollback, Undo, EndOf, Reply, Goto, RequestsShort, Active
    <2>4. MetRecord'
      BY <1>6
         DEF Rollback, Undo, EndOf, Reply, Goto, MetRecord, Committed, LocksHeld
    <2>5. EffectsRecorded'
      BY <1>6
         DEF Rollback, Undo, EndOf, Reply, Goto, EffectsRecorded, Committed,
             LocksHeld, ClaimsOwned, Effects
    <2>6. AtMostOncePerDay'
      BY <1>6
         DEF Rollback, Undo, EndOf, Reply, Goto, AtMostOncePerDay,
             EffectsRecorded, Effects
    <2> QED BY <2>1, <2>2, <2>3, <2>4, <2>5, <2>6
  <1>7. ASSUME NEW r \in Requests, CommitClaim(r)
        PROVE  /\ LocksHeld' /\ ClaimsOwned' /\ RequestsShort' /\ MetRecord'
               /\ EffectsRecorded' /\ AtMostOncePerDay'
    <2>1. LocksHeld'
      BY <1>7 DEF CommitClaim, EndOf, Goto, LocksHeld
    <2>2. ClaimsOwned'
      BY <1>7 DEF CommitClaim, EndOf, Goto, LocksHeld, ClaimsOwned
    <2>3. RequestsShort'
      BY <1>7 DEF CommitClaim, EndOf, Goto, RequestsShort, Active
    <2>4. MetRecord'
      <3>1. record[KeyOf[r]].status # "none"
        BY <1>7 DEF CommitClaim, ClaimsOwned
      <3> QED BY <1>7, <3>1 DEF CommitClaim, EndOf, Goto, MetRecord, Committed
    <2>5. EffectsRecorded'
      <3>1. /\ pc[r] = "operate" /\ lock[KeyOf[r]] = r
            /\ lock' = [lock EXCEPT ![KeyOf[r]] = Nobody]
            /\ pc' = [pc EXCEPT ![r] = "provider"]
            /\ UNCHANGED <<record, saved, began, effects>>
        BY <1>7 DEF CommitClaim, EndOf, Goto, LocksHeld
      <3>2. record[KeyOf[r]].status = "in_progress" /\ record[KeyOf[r]].expires = began[r] + Day
        BY <3>1 DEF ClaimsOwned
      <3>3. \A k \in Keys : k # KeyOf[r] => Committed(k)' = Committed(k)
        BY <3>1 DEF Committed
      <3>4. Committed(KeyOf[r])' = record[KeyOf[r]]
        BY <3>1 DEF Committed
      <3>5. \A e \in effects : e.key = KeyOf[r] => e.at + Day <= began[r]
        BY <3>1 DEF EffectsRecorded
      <3>6. \A e \in effects : e.key \in Keys /\ e.at \in Nat
        BY DEF Effects
      <3> QED BY <3>1, <3>2, <3>3, <3>4, <3>5, <3>6 DEF EffectsRecorded
    <2>6. AtMostOncePerDay'
      BY <1>7
         DEF CommitClaim, EndOf, Goto, AtMostOncePerDay, EffectsRecorded,
             Effects
    <2> QED BY <2>1, <2>2, <2>3, <2>4, <2>5, <2>6
  <1>8. ASSUME NEW r \in Requests, CallProvider(r)
        PROVE  /\ LocksHeld' /\ ClaimsOwned' /\ RequestsShort' /\ MetRecord'
               /\ EffectsRecorded' /\ AtMostOncePerDay'
    <2>1. LocksHeld'
      BY <1>8 DEF CallProvider, Goto, Effect, LocksHeld
    <2>2. ClaimsOwned'
      BY <1>8 DEF CallProvider, Goto, Effect, LocksHeld, ClaimsOwned
    <2>3. RequestsShort'
      BY <1>8 DEF CallProvider, Goto, Effect, RequestsShort, Active
    <2>4. MetRecord'
      BY <1>8 DEF CallProvider, Goto, Effect, MetRecord, Committed, LocksHeld
    <2>5. EffectsRecorded'
      <3>1. /\ pc[r] = "provider" /\ lock[KeyOf[r]] = Nobody
            /\ pc' = [pc EXCEPT ![r] = "called"]
            /\ UNCHANGED <<record, lock, saved, began>>
            /\ effects' = effects \cup {Effect(r)}
        BY <1>8 DEF CallProvider, Goto, ClaimsOwned
      <3>2. /\ record[KeyOf[r]].status = "in_progress"
            /\ record[KeyOf[r]].expires = began[r] + Day
            /\ record[KeyOf[r]].of = r
        BY <3>1 DEF ClaimsOwned
      <3>3. \A k \in Keys : Committed(k)' = Committed(k)
        BY <3>1 DEF Committed
      <3>4. Committed(KeyOf[r]) = record[KeyOf[r]]
        BY <3>1 DEF Committed
      <3>5. \A s \in Requests :
              KeyOf[s] = KeyOf[r] /\ pc[s] \in {"operate", "provider"} => s = r
        BY <3>1, <3>2 DEF LocksHeld, ClaimsOwned
      <3>6. Effect(r).key = KeyOf[r] /\ Effect(r).at = began[r]
        BY DEF Effect
      <3>7. \A e \in effects : e.key \in Keys
        BY DEF Effects
      <3> QED BY <3>1, <3>2, <3>3, <3>4, <3>5, <3>6, <3>7 DEF EffectsRecorded
    <2>6. AtMostOncePerDay'
      BY <1>8
         DEF CallProvider, Goto, Effect, AtMostOncePerDay, EffectsRecorded,
             Effects
    <2> QED BY <2>1, <2>2, <2>3, <2>4, <2>5, <2>6
  <1>9. ASSUME NEW r \in Requests, Settle(r)
        PROVE  /\ LocksHeld' /\ ClaimsOwned' /\ RequestsShort' /\ MetRecord'
               /\ EffectsRecorded' /\ AtMostOncePerDay'
    <2>1. LocksHeld'
      BY <1>9 DEF Settle, Complete, Reply, Goto, LocksHeld
    <2>2. ClaimsOwned'
      <3>1. \A s \in Requests : pc[s] \in {"operate", "provider", "called"} /\ s # r
              => KeyOf[s] # KeyOf[r]
        BY <1>9 DEF Settle, LocksHeld, ClaimsOwned
      <3>2. /\ \A k \in Keys : k # KeyOf[r] => record'[k] = record[k]
            /\ pc' = [pc EXCEPT ![r] = "answered"] /\ UNCHANGED <<lock, began>>
        BY <1>9 DEF Settle, Complete, Reply, Goto
      <3> QED BY <3>1, <3>2 DEF ClaimsOwned
    <2>3. RequestsShort'
      BY <1>9 DEF Settle, Complete, Reply, Goto, RequestsShort, Active
    <2>4. MetRecord'
      BY <1>9 DEF Settle, Complete, Reply, Goto, MetRecord, Committed, LocksHeld
    <2>5. EffectsRecorded'
      BY <1>9
         DEF Settle, Complete, Reply, Goto, EffectsRecorded, Committed,
             LocksHeld, ClaimsOwned, Effects
    <2>6. AtMostOncePerDay'
      BY <1>9
         DEF Settle, Complete, Reply, Goto, AtMostOncePerDay, EffectsRecorded,
             Effects
    <2> QED BY <2>1, <2>2, <2>3, <2>4, <2>5, <2>6
  <1>10. ASSUME NEW r \in Requests, FailProvider(r)
        PROVE  /\ LocksHeld' /\ ClaimsOwned' /\ RequestsShort' /\ MetRecord'
               /\ EffectsRecorded' /\ AtMostOncePerDay'
    <2>1. LocksHeld'
      BY <1>10 DEF FailProvider, Complete, Reply, Goto, LocksHeld
    <2>2. ClaimsOwned'
      <3>1. \A s \in Requests : pc[s] \in {"operate", "provider", "called"} /\ s # r
              => KeyOf[s] # KeyOf[r]
        BY <1>10 DEF FailProvider, LocksHeld, ClaimsOwned
      <3>2. /\ \A k \in Keys : k # KeyOf[r] => record'[k] = record[k]
            /\ pc' = [pc EXCEPT ![r] = "answered"] /\ UNCHANGED <<lock, began>>
        BY <1>10 DEF FailProvider, Complete, Reply, Goto
      <3> QED BY <3>1, <3>2 DEF ClaimsOwned
    <2>3. RequestsShort'
      BY <1>10 DEF FailProvider, Complete, Reply, Goto, RequestsShort, Active
    <2>4. MetRecord'
      <3>1. CASE Complete(r)
        BY <1>10, <3>1 DEF FailProvider, Complete, Reply, Goto, MetRecord, Committed
      <3>2. CASE UNCHANGED record
        BY <1>10, <3>2 DEF FailProvider, Reply, Goto, MetRecord, Committed
      <3> QED BY <1>10, <3>1, <3>2 DEF FailProvider
    <2>5. EffectsRecorded'
      <3>1. CASE Complete(r)
        BY <1>10, <3>1 DEF FailProvider, Complete, Reply, Goto, EffectsRecorded,
                           Committed, Effects
      <3>2. CASE UNCHANGED record
        BY <1>10, <3>2 DEF FailProvider, Reply, Goto, EffectsRecorded, Committed
      <3> QED BY <1>10, <3>1, <3>2 DEF FailProvider
    <2>6. AtMostOncePerDay'
      BY <1>10
         DEF FailProvider, Complete, Reply, Goto, AtMostOncePerDay,
             EffectsRecorded, Effects
    <2> QED BY <2>1, <2>2, <2>3, <2>4, <2>5, <2>6
  <1>n. ASSUME NEW r \in Requests, LoseSettlement(r)
        PROVE  /\ LocksHeld' /\ ClaimsOwned' /\ RequestsShort' /\ MetRecord'
               /\ EffectsRecorded' /\ AtMostOncePerDay'
    <2>1. LocksHeld' /\ ClaimsOwned'
      BY <1>n DEF LoseSettlement, Reply, Goto, LocksHeld, ClaimsOwned
    <2>2. RequestsShort' /\ MetRecord'
      BY <1>n DEF LoseSettlement, Reply, Goto, RequestsShort, Active, MetRecord, Committed
    <2>3. EffectsRecorded' /\ AtMostOncePerDay'
      BY <1>n DEF LoseSettlement, Reply, Goto, EffectsRecorded, Committed, AtMostOncePerDay
    <2> QED BY <2>1, <2>2, <2>3
  <1>11. ASSUME NEW r \in Requests, Crash(r)
        PROVE  /\ LocksHeld' /\ ClaimsOwned' /\ RequestsShort' /\ MetRecord'
               /\ EffectsRecorded' /\ AtMostOncePerDay'
    <2>1. LocksHeld'
      BY <1>11 DEF Crash, Undo, EndOf, Reply, Goto, LocksHeld
    <2>2. ClaimsOwned'
      BY <1>11 DEF Crash, Undo, EndOf, Reply, Goto, LocksHeld, ClaimsOwned
    <2>3. RequestsShort'
      BY <1>11 DEF Crash, Undo, EndOf, Reply, Goto, RequestsShort, Active
    <2>4. MetRecord'
      BY <1>11 DEF Crash, Undo, EndOf, Reply, Goto, MetRecord, Committed, LocksHeld
    <2>5. EffectsRecorded'
      BY <1>11
         DEF Crash, Undo, EndOf, Reply, Goto, EffectsRecorded, Committed,
             LocksHeld, ClaimsOwned, Effects
    <2>6. AtMostOncePerDay'
      BY <1>11
         DEF Crash, Undo, EndOf, Reply, Goto, AtMostOncePerDay, EffectsRecorded,
             Effects
    <2> QED BY <2>1, <2>2, <2>3, <2>4, <2>5, <2>6
  <1>12. CASE Tick
    BY <1>12 DEF Tick, LocksHeld, ClaimsOwned, RequestsShort, MetRecord,
                EffectsRecorded, AtMostOncePerDay, Active, Committed
  <1>13. CASE UNCHANGED vars
    BY <1>13 DEF vars, LocksHeld, ClaimsOwned, RequestsShort, MetRecord,
                EffectsRecorded, AtMostOncePerDay, Active, Committed
  <1> QED BY <1>1, <1>2, <1>3, <1>4, <1>5, <1>6, <1>7, <1>8, <1>9, <1>10, <1>n, <1>11,
         <1>12, <1>13
      DEF Next, Step

\* A key takes effect at most once in the life of a record.
THEOREM KeysActOncePerDay == Spec => []AtMostOncePerDay
  <1>1. IInv => AtMostOncePerDay
    BY DEF IInv
  <1> QED BY <1>1, InitIInv, NextIInv, PTL DEF Spec
-----------------------------------------------------------------------------
(* Replays and stranded keys.  What a committed record says is true: it was *)
(* written by a request with its key and digest, and once it is completed   *)
(* that request has taken effect.  A committed record in progress is one    *)
(* whose request is calling the provider, died, or could not settle it.     *)

\* x, a row written for the key k, tells the truth about its request.
TrueRecord(k, x) ==
    /\ x.status # "none" =>
         x.of \in Requests /\ KeyOf[x.of] = k /\ x.digest = DigestOf[x.of]
    /\ x.status = "completed" => \E e \in effects : e.by = x.of /\ e.key = k

\* If x is in progress, its request has a reason not to have settled it.
Accounted(k, x) ==
    x.status = "in_progress" =>
        /\ k \in ProviderKeys
        /\ \/ pc[x.of] \in {"provider", "called"}
           \/ answer[x.of].kind \in {"lost", "unsettled"}
           \/ k \notin SettledKeys /\ answer[x.of].kind = "failed"

RecordsTrue   == \A k \in Keys : TrueRecord(k, record[k]) /\ TrueRecord(k, saved[k])
KeysAccounted == \A k \in Keys : Accounted(k, Committed(k))
CallsPaid     == \A r \in Requests : pc[r] = "called" => Effect(r) \in effects
AnswersFinal  == \A r \in Requests : answer[r].kind # "none" => pc[r] = "answered"

TInv == /\ IInv /\ RecordsTrue /\ KeysAccounted /\ CallsPaid /\ AnswersFinal
        /\ ReplayIsOfSameCommand

\* Before the first request there is nothing to repeat or to strand.
LEMMA InitTInv == Init => TInv
  BY InitIInv, IdempotencyAssumption
     DEF Init, TInv, RecordsTrue, TrueRecord, KeysAccounted, Accounted, Committed,
         CallsPaid, AnswersFinal, ReplayIsOfSameCommand, NoRecord

\* Every step keeps it.
LEMMA NextTInv == TInv /\ [Next]_vars => TInv'
  <1> SUFFICES ASSUME TInv, [Next]_vars
               PROVE  /\ RecordsTrue' /\ KeysAccounted' /\ CallsPaid' /\ AnswersFinal'
                      /\ ReplayIsOfSameCommand'
    BY NextIInv DEF TInv
  <1>t. TypeOK /\ LocksHeld /\ ClaimsOwned
    BY DEF TInv, IInv
  <1> USE IdempotencyAssumption
  <1>c. ASSUME NEW r \in Requests, pc[r] \in {"operate", "called"}, Complete(r),
               UNCHANGED saved, effects \subseteq effects', Effect(r) \in effects'
        PROVE  RecordsTrue'
    <2>1. /\ record[KeyOf[r]].of = r /\ KeyOf[r] \in Keys
          /\ record[KeyOf[r]].digest = DigestOf[r]
      BY <1>c, <1>t DEF ClaimsOwned, TInv, RecordsTrue, TrueRecord
    <2>2. /\ record'[KeyOf[r]].of = r /\ record'[KeyOf[r]].digest = DigestOf[r]
          /\ \A k \in Keys \ {KeyOf[r]} : record'[k] = record[k]
      BY <1>c, <1>t, <2>1 DEF Complete, TypeOK, Records
    <2>3. Effect(r).by = r /\ Effect(r).key = KeyOf[r]
      BY DEF Effect
    <2>4. TrueRecord(KeyOf[r], record[KeyOf[r]])'
      BY <1>c, <2>2, <2>3 DEF TrueRecord
    <2>5. \A k \in Keys : TrueRecord(k, saved[k])'
      BY <1>c DEF TInv, RecordsTrue, TrueRecord
    <2>6. \A k \in Keys \ {KeyOf[r]} : TrueRecord(k, record[k])'
      BY <1>c, <2>2 DEF TInv, RecordsTrue, TrueRecord
    <2> QED BY <2>4, <2>5, <2>6 DEF RecordsTrue
  <1>1. ASSUME NEW r \in Requests, Begin(r)
        PROVE  /\ RecordsTrue' /\ KeysAccounted' /\ CallsPaid' /\ AnswersFinal'
               /\ ReplayIsOfSameCommand'
    <2>1. RecordsTrue'
      BY <1>1, <1>t
         DEF Begin, Goto, Effect, TInv, TypeOK, LocksHeld, ClaimsOwned,
             RecordsTrue, TrueRecord, CallsPaid
    <2>2. KeysAccounted'
      BY <1>1, <1>t
         DEF Begin, Goto, TInv, TypeOK, LocksHeld, ClaimsOwned, KeysAccounted,
             Accounted, Committed, AnswersFinal, RecordsTrue, TrueRecord
    <2>3. CallsPaid' /\ AnswersFinal'
      BY <1>1, <1>t DEF Begin, Goto, Effect, TInv, TypeOK, CallsPaid, AnswersFinal
    <2>4. ReplayIsOfSameCommand'
      BY <1>1, <1>t
         DEF Begin, Goto, TInv, TypeOK, RecordsTrue, TrueRecord,
             ReplayIsOfSameCommand
    <2> QED BY <2>1, <2>2, <2>3, <2>4
  <1>2. ASSUME NEW r \in Requests, InsertClaim(r)
        PROVE  /\ RecordsTrue' /\ KeysAccounted' /\ CallsPaid' /\ AnswersFinal'
               /\ ReplayIsOfSameCommand'
    <2>1. RecordsTrue'
      BY <1>2, <1>t
         DEF InsertClaim, WriteClaim, Goto, Effect, TInv, TypeOK, LocksHeld,
             ClaimsOwned, RecordsTrue, TrueRecord, CallsPaid
    <2>2. KeysAccounted'
      BY <1>2, <1>t
         DEF InsertClaim, WriteClaim, Goto, TInv, TypeOK, LocksHeld, ClaimsOwned,
             KeysAccounted, Accounted, Committed, AnswersFinal, RecordsTrue,
             TrueRecord
    <2>3. CallsPaid' /\ AnswersFinal'
      BY <1>2, <1>t
         DEF InsertClaim, WriteClaim, Goto, Effect, TInv, TypeOK, CallsPaid,
             AnswersFinal
    <2>4. ReplayIsOfSameCommand'
      BY <1>2, <1>t
         DEF InsertClaim, WriteClaim, Goto, TInv, TypeOK, RecordsTrue,
             TrueRecord, ReplayIsOfSameCommand
    <2> QED BY <2>1, <2>2, <2>3, <2>4
  <1>3. ASSUME NEW r \in Requests, InsertConflicts(r)
        PROVE  /\ RecordsTrue' /\ KeysAccounted' /\ CallsPaid' /\ AnswersFinal'
               /\ ReplayIsOfSameCommand'
    <2>1. RecordsTrue'
      BY <1>3, <1>t
         DEF InsertConflicts, Goto, Effect, TInv, TypeOK, LocksHeld, ClaimsOwned,
             RecordsTrue, TrueRecord, CallsPaid
    <2>2. KeysAccounted'
      BY <1>3, <1>t
         DEF InsertConflicts, Goto, TInv, TypeOK, LocksHeld, ClaimsOwned,
             KeysAccounted, Accounted, Committed, AnswersFinal, RecordsTrue,
             TrueRecord
    <2>3. CallsPaid' /\ AnswersFinal'
      BY <1>3, <1>t
         DEF InsertConflicts, Goto, Effect, TInv, TypeOK, CallsPaid, AnswersFinal
    <2>4. ReplayIsOfSameCommand'
      BY <1>3, <1>t
         DEF InsertConflicts, Goto, TInv, TypeOK, RecordsTrue, TrueRecord,
             ReplayIsOfSameCommand
    <2> QED BY <2>1, <2>2, <2>3, <2>4
  <1>4. ASSUME NEW r \in Requests, SelectClaim(r)
        PROVE  /\ RecordsTrue' /\ KeysAccounted' /\ CallsPaid' /\ AnswersFinal'
               /\ ReplayIsOfSameCommand'
    <2>1. RecordsTrue'
      BY <1>4, <1>t
         DEF SelectClaim, WriteClaim, Reply, Goto, SameRequest, Effect, TInv,
             TypeOK, LocksHeld, ClaimsOwned, RecordsTrue, TrueRecord, CallsPaid
    <2>2. KeysAccounted'
      BY <1>4, <1>t
         DEF SelectClaim, WriteClaim, Reply, Goto, SameRequest, TInv, TypeOK,
             LocksHeld, ClaimsOwned, KeysAccounted, Accounted, Committed,
             AnswersFinal, RecordsTrue, TrueRecord
    <2>3. CallsPaid' /\ AnswersFinal'
      BY <1>4, <1>t
         DEF SelectClaim, WriteClaim, Reply, Goto, SameRequest, Effect, TInv,
             TypeOK, CallsPaid, AnswersFinal
    <2>4. ReplayIsOfSameCommand'
      BY <1>4, <1>t
         DEF SelectClaim, WriteClaim, Reply, Goto, SameRequest, TInv, TypeOK,
             RecordsTrue, TrueRecord, ReplayIsOfSameCommand
    <2> QED BY <2>1, <2>2, <2>3, <2>4
  <1>5. ASSUME NEW r \in Requests, Perform(r)
        PROVE  /\ RecordsTrue' /\ KeysAccounted' /\ CallsPaid' /\ AnswersFinal'
               /\ ReplayIsOfSameCommand'
    <2>1. RecordsTrue'
      BY <1>5, <1>c DEF Perform, TInv, CallsPaid
    <2>2. KeysAccounted'
      BY <1>5, <1>t
         DEF Perform, Complete, EndOf, Reply, Goto, TInv, TypeOK, LocksHeld,
             ClaimsOwned, KeysAccounted, Accounted, Committed, AnswersFinal,
             RecordsTrue, TrueRecord
    <2>3. CallsPaid' /\ AnswersFinal'
      BY <1>5, <1>t
         DEF Perform, Complete, EndOf, Reply, Goto, Effect, TInv, TypeOK,
             CallsPaid, AnswersFinal
    <2>4. ReplayIsOfSameCommand'
      BY <1>5, <1>t
         DEF Perform, Complete, EndOf, Reply, Goto, TInv, TypeOK, RecordsTrue,
             TrueRecord, ReplayIsOfSameCommand
    <2> QED BY <2>1, <2>2, <2>3, <2>4
  <1>6. ASSUME NEW r \in Requests, Rollback(r)
        PROVE  /\ RecordsTrue' /\ KeysAccounted' /\ CallsPaid' /\ AnswersFinal'
               /\ ReplayIsOfSameCommand'
    <2>1. RecordsTrue'
      BY <1>6, <1>t
         DEF Rollback, Undo, EndOf, Reply, Goto, Effect, TInv, TypeOK, LocksHeld,
             ClaimsOwned, RecordsTrue, TrueRecord, CallsPaid
    <2>2. KeysAccounted'
      BY <1>6, <1>t
         DEF Rollback, Undo, EndOf, Reply, Goto, TInv, TypeOK, LocksHeld,
             ClaimsOwned, KeysAccounted, Accounted, Committed, AnswersFinal,
             RecordsTrue, TrueRecord
    <2>3. CallsPaid' /\ AnswersFinal'
      BY <1>6, <1>t
         DEF Rollback, Undo, EndOf, Reply, Goto, Effect, TInv, TypeOK, CallsPaid,
             AnswersFinal
    <2>4. ReplayIsOfSameCommand'
      BY <1>6, <1>t
         DEF Rollback, Undo, EndOf, Reply, Goto, TInv, TypeOK, RecordsTrue,
             TrueRecord, ReplayIsOfSameCommand
    <2> QED BY <2>1, <2>2, <2>3, <2>4
  <1>7. ASSUME NEW r \in Requests, CommitClaim(r)
        PROVE  /\ RecordsTrue' /\ KeysAccounted' /\ CallsPaid' /\ AnswersFinal'
               /\ ReplayIsOfSameCommand'
    <2>1. RecordsTrue'
      BY <1>7, <1>t
         DEF CommitClaim, EndOf, Goto, Effect, TInv, TypeOK, LocksHeld,
             ClaimsOwned, RecordsTrue, TrueRecord, CallsPaid
    <2>2. KeysAccounted'
      BY <1>7, <1>t
         DEF CommitClaim, EndOf, Goto, TInv, TypeOK, LocksHeld, ClaimsOwned,
             KeysAccounted, Accounted, Committed, AnswersFinal, RecordsTrue,
             TrueRecord
    <2>3. CallsPaid' /\ AnswersFinal'
      BY <1>7, <1>t
         DEF CommitClaim, EndOf, Goto, Effect, TInv, TypeOK, CallsPaid,
             AnswersFinal
    <2>4. ReplayIsOfSameCommand'
      BY <1>7, <1>t
         DEF CommitClaim, EndOf, Goto, TInv, TypeOK, RecordsTrue, TrueRecord,
             ReplayIsOfSameCommand
    <2> QED BY <2>1, <2>2, <2>3, <2>4
  <1>8. ASSUME NEW r \in Requests, CallProvider(r)
        PROVE  /\ RecordsTrue' /\ KeysAccounted' /\ CallsPaid' /\ AnswersFinal'
               /\ ReplayIsOfSameCommand'
    <2>1. RecordsTrue'
      BY <1>8, <1>t
         DEF CallProvider, Goto, Effect, TInv, TypeOK, LocksHeld, ClaimsOwned,
             RecordsTrue, TrueRecord, CallsPaid
    <2>2. KeysAccounted'
      BY <1>8, <1>t
         DEF CallProvider, Goto, TInv, TypeOK, LocksHeld, ClaimsOwned,
             KeysAccounted, Accounted, Committed, AnswersFinal, RecordsTrue,
             TrueRecord
    <2>3. CallsPaid' /\ AnswersFinal'
      BY <1>8, <1>t
         DEF CallProvider, Goto, Effect, TInv, TypeOK, CallsPaid, AnswersFinal
    <2>4. ReplayIsOfSameCommand'
      BY <1>8, <1>t
         DEF CallProvider, Goto, TInv, TypeOK, RecordsTrue, TrueRecord,
             ReplayIsOfSameCommand
    <2> QED BY <2>1, <2>2, <2>3, <2>4
  <1>9. ASSUME NEW r \in Requests, Settle(r)
        PROVE  /\ RecordsTrue' /\ KeysAccounted' /\ CallsPaid' /\ AnswersFinal'
               /\ ReplayIsOfSameCommand'
    <2>1. RecordsTrue'
      BY <1>9, <1>c DEF Settle, TInv, CallsPaid
    <2>2. KeysAccounted'
      BY <1>9, <1>t
         DEF Settle, Completable, Complete, Reply, Goto, TInv, TypeOK, LocksHeld,
             ClaimsOwned, KeysAccounted, Accounted, Committed, AnswersFinal,
             RecordsTrue, TrueRecord
    <2>3. CallsPaid' /\ AnswersFinal'
      BY <1>9, <1>t
         DEF Settle, Completable, Complete, Reply, Goto, Effect, TInv, TypeOK,
             CallsPaid, AnswersFinal
    <2>4. ReplayIsOfSameCommand'
      BY <1>9, <1>t
         DEF Settle, Completable, Complete, Reply, Goto, TInv, TypeOK,
             RecordsTrue, TrueRecord, ReplayIsOfSameCommand
    <2> QED BY <2>1, <2>2, <2>3, <2>4
  <1>10. ASSUME NEW r \in Requests, FailProvider(r)
        PROVE  /\ RecordsTrue' /\ KeysAccounted' /\ CallsPaid' /\ AnswersFinal'
               /\ ReplayIsOfSameCommand'
    <2>1. RecordsTrue'
      <3>1. CASE Complete(r)
        BY <1>10, <1>c, <3>1 DEF FailProvider, TInv, CallsPaid
      <3>2. CASE UNCHANGED record
        BY <1>10, <3>2 DEF FailProvider, TInv, RecordsTrue, TrueRecord
      <3> QED BY <1>10, <3>1, <3>2 DEF FailProvider
    <2>2. KeysAccounted'
      <3>1. /\ record[KeyOf[r]].of = r /\ KeyOf[r] \in Keys /\ pc[r] = "called"
            /\ pc' = [pc EXCEPT ![r] = "answered"] /\ UNCHANGED <<lock, saved>>
            /\ answer' = [answer EXCEPT ![r] = [kind |-> "failed", of |-> Nobody]]
            /\ lock[KeyOf[r]] = Nobody
        BY <1>10, <1>t
           DEF FailProvider, Completable, Reply, Goto, ClaimsOwned, TypeOK
      <3>2. \A k \in Keys \ {KeyOf[r]} : Committed(k)' = Committed(k)
        BY <1>10, <1>t, <3>1 DEF FailProvider, Complete, Committed, TypeOK
      <3>3. \A k \in Keys \ {KeyOf[r]} : Committed(k).status = "in_progress" => Committed(k).of # r
        BY <1>t DEF TInv, RecordsTrue, TrueRecord, Committed
      <3>4. \A k \in Keys \ {KeyOf[r]} : Accounted(k, Committed(k))'
        BY <1>t, <3>1, <3>2, <3>3 DEF TInv, KeysAccounted, Accounted, TypeOK
      <3>5. Committed(KeyOf[r]) = record[KeyOf[r]] /\ Committed(KeyOf[r])' = record'[KeyOf[r]]
        BY <3>1 DEF Committed
      <3>6. CASE Complete(r) /\ KeyOf[r] \in SettledKeys
        <4>1. record'[KeyOf[r]].status = "completed"
          BY <1>t, <3>1, <3>6 DEF Complete, TypeOK, Records
        <4> QED BY <3>4, <3>5, <4>1 DEF KeysAccounted, Accounted
      <3>7. CASE UNCHANGED record /\ KeyOf[r] \notin SettledKeys
        <4>1. KeyOf[r] \in ProviderKeys \/ record[KeyOf[r]].status # "in_progress"
          BY <3>1, <3>5 DEF TInv, KeysAccounted, Accounted
        <4> QED BY <1>t, <3>1, <3>4, <3>5, <3>7, <4>1 DEF KeysAccounted, Accounted, TypeOK
      <3> QED BY <1>10, <3>6, <3>7 DEF FailProvider
    <2>3. CallsPaid' /\ AnswersFinal'
      BY <1>10, <1>t
         DEF FailProvider, Completable, Complete, Reply, Goto, Effect, TInv,
             TypeOK, CallsPaid, AnswersFinal
    <2>4. ReplayIsOfSameCommand'
      BY <1>10, <1>t
         DEF FailProvider, Completable, Complete, Reply, Goto, TInv, TypeOK,
             RecordsTrue, TrueRecord, ReplayIsOfSameCommand
    <2> QED BY <2>1, <2>2, <2>3, <2>4
  <1>n. ASSUME NEW r \in Requests, LoseSettlement(r)
        PROVE  /\ RecordsTrue' /\ KeysAccounted' /\ CallsPaid' /\ AnswersFinal'
               /\ ReplayIsOfSameCommand'
    <2>1. RecordsTrue'
      BY <1>n DEF LoseSettlement, TInv, RecordsTrue, TrueRecord
    <2>2. KeysAccounted'
      <3>1. /\ pc' = [pc EXCEPT ![r] = "answered"] /\ UNCHANGED <<record, lock, saved>>
            /\ answer' = [answer EXCEPT ![r] = [kind |-> "unsettled", of |-> Nobody]]
        BY <1>n DEF LoseSettlement, Reply, Goto
      <3>2. \A k \in Keys : Committed(k)' = Committed(k)
        BY <3>1 DEF Committed
      <3>3. \A k \in Keys : Committed(k).status = "in_progress" => Committed(k).of \in Requests
        BY <1>t DEF TInv, RecordsTrue, TrueRecord, Committed
      <3>4. \A q \in Requests : answer'[q].kind = "unsettled" \/
               (pc'[q] = pc[q] /\ answer'[q] = answer[q])
        BY <1>t, <3>1 DEF TInv, TypeOK
      <3> QED BY <3>2, <3>3, <3>4 DEF TInv, KeysAccounted, Accounted
    <2>3. CallsPaid' /\ AnswersFinal'
      BY <1>n, <1>t
         DEF LoseSettlement, Reply, Goto, Effect, TInv, TypeOK, CallsPaid, AnswersFinal
    <2>4. ReplayIsOfSameCommand'
      BY <1>n, <1>t
         DEF LoseSettlement, Reply, Goto, TInv, TypeOK, ReplayIsOfSameCommand
    <2> QED BY <2>1, <2>2, <2>3, <2>4
  <1>11. ASSUME NEW r \in Requests, Crash(r)
        PROVE  /\ RecordsTrue' /\ KeysAccounted' /\ CallsPaid' /\ AnswersFinal'
               /\ ReplayIsOfSameCommand'
    <2>1. RecordsTrue'
      BY <1>11, <1>t
         DEF Crash, Undo, EndOf, Reply, Goto, Active, Effect, TInv, TypeOK,
             LocksHeld, ClaimsOwned, RecordsTrue, TrueRecord, CallsPaid
    <2>2. KeysAccounted'
      BY <1>11, <1>t
         DEF Crash, Undo, EndOf, Reply, Goto, Active, TInv, TypeOK, LocksHeld,
             ClaimsOwned, KeysAccounted, Accounted, Committed, AnswersFinal,
             RecordsTrue, TrueRecord
    <2>3. CallsPaid' /\ AnswersFinal'
      BY <1>11, <1>t
         DEF Crash, Undo, EndOf, Reply, Goto, Active, Effect, TInv, TypeOK,
             CallsPaid, AnswersFinal
    <2>4. ReplayIsOfSameCommand'
      BY <1>11, <1>t
         DEF Crash, Undo, EndOf, Reply, Goto, Active, TInv, TypeOK, RecordsTrue,
             TrueRecord, ReplayIsOfSameCommand
    <2> QED BY <2>1, <2>2, <2>3, <2>4
  <1>12. CASE Tick \/ UNCHANGED vars
    BY <1>12
       DEF Tick, vars, TInv, RecordsTrue, TrueRecord, KeysAccounted, Accounted,
                Committed, CallsPaid, Effect, AnswersFinal, ReplayIsOfSameCommand
  <1> QED BY <1>1, <1>2, <1>3, <1>4, <1>5, <1>6, <1>7, <1>8, <1>9, <1>10, <1>n, <1>11,
             <1>12 DEF Next, Step

\* A replay repeats the result of the same command, which has taken effect.
THEOREM ReplaysAreTrue == Spec => []ReplayIsOfSameCommand
  <1>1. TInv => ReplayIsOfSameCommand
    BY DEF TInv
  <1> QED BY <1>1, InitTInv, NextTInv, PTL DEF Spec

\* A committed key in progress is one whose request is at work, died, lost both
\* settling writes or, where failures are not settled, failed.
THEOREM KeysNeverStrand == Spec => []NoStrandedKey
  <1>1. TInv => NoStrandedKey
    BY DEF TInv, KeysAccounted, Accounted, Committed, NoStrandedKey
  <1> QED BY <1>1, InitTInv, NextTInv, PTL DEF Spec
=============================================================================
