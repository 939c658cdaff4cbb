-------------------------- MODULE JobPipelineProofs --------------------------
(***************************************************************************)
(* Proofs about JobPipeline for every set of jobs, workers, dispatchers    *)
(* and reports, every number of deliveries and user actions, and both      *)
(* kinds of engine.                                                        *)
(***************************************************************************)
EXTENDS JobPipeline, TLAPS

-----------------------------------------------------------------------------
(* What the helpers of the actions do to the typed parts of the state.      *)

\* A job writes the incident or some of its reports.
LEMMA TargetsAreDocs == \A j \in Jobs : Targets[j] \subseteq Docs
  BY JobPipelineAssumption

\* The seven parts of TypeOK hold after a step that leaves their variables alone.
LEMMA RowsStay == RowsTyped /\ UNCHANGED jobRow => RowsTyped'
  BY DEF RowsTyped, jobRow

LEMMA QueueStays == QueueTyped /\ UNCHANGED <<outbox, queue>> => QueueTyped'
  BY DEF QueueTyped, queue

LEMMA RequestsStay == RequestsTyped /\ UNCHANGED request => RequestsTyped'
  BY DEF RequestsTyped, request

LEMMA DispatchStays == DispatchTyped /\ UNCHANGED dispatch => DispatchTyped'
  BY DEF DispatchTyped, dispatch

LEMMA ContentStays == ContentTyped /\ UNCHANGED content => ContentTyped'
  BY DEF ContentTyped, content

LEMMA PeopleStay == PeopleTyped /\ UNCHANGED people => PeopleTyped'
  BY DEF PeopleTyped, people

LEMMA ObservedStays == ObservedTyped /\ UNCHANGED observed => ObservedTyped'
  BY DEF ObservedTyped, observed

\* A request that goes on, fails or ends stays well typed (Move, FailWith, Idle).
LEMMA MoveTyped ==
  ASSUME RequestsTyped, NEW w \in Workers, pc[w] # "idle",
         NEW p \in Points, Move(w, p)
  PROVE  RequestsTyped'
  BY DEF RequestsTyped, Move, Goto

LEMMA FailWithTyped ==
  ASSUME RequestsTyped, NEW w \in Workers, pc[w] # "idle",
         NEW c \in Codes, FailWith(w, c)
  PROVE  RequestsTyped'
  BY DEF RequestsTyped, FailWith, Goto, Points

LEMMA IdleTyped ==
  ASSUME RequestsTyped, NEW w \in Workers, Idle(w)
  PROVE  RequestsTyped'
  BY DEF RequestsTyped, Idle, Goto, Points, Codes

\* So do a row that is failed and the documents a result is published to.
LEMMA FailRowTyped ==
  ASSUME RowsTyped, NEW j \in Jobs, NEW c \in Codes, FailRow(j, c)
  PROVE  RowsTyped'
  BY DEF RowsTyped, FailRow, States, Terminal

LEMMA PublishTyped ==
  ASSUME RowsTyped, ContentTyped, PeopleTyped, NEW j \in Jobs, Publish(j)
  PROVE  RowsTyped' /\ ContentTyped' /\ PeopleTyped'
  <1>1. RowsTyped'
    BY DEF RowsTyped, Publish, States, Terminal
  <1>2. ContentTyped'
    BY TargetsAreDocs DEF ContentTyped, Publish, Revision
  <1>3. PeopleTyped'
    BY DEF PeopleTyped, Publish
  <1> QED BY <1>1, <1>2, <1>3

-----------------------------------------------------------------------------
(* Type correctness.                                                        *)

\* Submission starts from well typed empty tables.
LEMMA InitTyped == Init => TypeOK
  BY JobPipelineAssumption
     DEF Init, TypeOK, RowsTyped, QueueTyped, RequestsTyped, DispatchTyped,
         ContentTyped, PeopleTyped, ObservedTyped, Docs, States, Codes, Points,
         Revision, Results, Terminal

\* The steps of dispatch_pending keep the types.
LEMMA DispatcherTyped ==
  ASSUME TypeOK, NEW d \in Dispatchers, DispatcherStep(d)
  PROVE  TypeOK'
  <1> USE DEF TypeOK
  <1>0. None \notin Jobs
    BY JobPipelineAssumption
  <1>1. CASE ReadPending(d)
    <2>1. DispatchTyped'
      BY <1>1 DEF ReadPending, DispatchTyped
    <2> QED BY <1>1, <2>1, RowsStay, QueueStays, RequestsStay, ContentStays,
               PeopleStay, ObservedStays DEF ReadPending
  <1>2. CASE Mark(d)
    <2>1. DispatchTyped'
      BY <1>2 DEF Mark, DispatchTyped
    <2>2. QueueTyped'
      BY <1>2 DEF Mark, QueueTyped, DispatchTyped, Results, queue
    <2> QED BY <1>2, <2>1, <2>2, RowsStay, RequestsStay, ContentStays,
               PeopleStay, ObservedStays DEF Mark
  <1>3. CASE DispatcherCrash(d)
    <2>1. DispatchTyped'
      BY <1>3 DEF DispatcherCrash, DispatchTyped
    <2> QED BY <1>3, <2>1, RowsStay, QueueStays, RequestsStay, ContentStays,
               PeopleStay, ObservedStays DEF DispatcherCrash
  <1>4. ASSUME NEW j \in Jobs, NEW result \in Results, CreateTask(d, j, result)
        PROVE  TypeOK'
    <2>1. DispatchTyped'
      BY <1>4 DEF CreateTask, DispatchTyped
    <2>2. QueueTyped'
      BY <1>4 DEF CreateTask, QueueTyped
    <2> QED BY <1>4, <2>1, <2>2, RowsStay, RequestsStay, ContentStays,
               PeopleStay, ObservedStays DEF CreateTask
  <1> QED BY <1>1, <1>2, <1>3, <1>4 DEF DispatcherStep

\* So do submission, delivery, acknowledgment, crashes and lease expiry.
LEMMA QueueSideTyped ==
  ASSUME TypeOK, NEW w \in Workers,
         \/ \E j \in Jobs : Deliver(w, j)
         \/ Ack(w) \/ Nack(w) \/ WorkerCrash(w)
  PROVE  TypeOK'
  <1> USE DEF TypeOK
  <1>1. ASSUME NEW j \in Jobs, Deliver(w, j) PROVE TypeOK'
    <2>1. RequestsTyped'
      BY <1>1 DEF Deliver, RequestsTyped, Goto, Points
    <2>2. QueueTyped'
      BY <1>1 DEF Deliver, QueueTyped
    <2> QED BY <1>1, <2>1, <2>2, RowsStay, DispatchStays, ContentStays,
               PeopleStay, ObservedStays DEF Deliver
  <1>2. CASE Ack(w)
    <2>1. RequestsTyped'
      BY <1>2, IdleTyped DEF Ack
    <2>2. QueueTyped'
      BY <1>2 DEF Ack, QueueTyped
    <2> QED BY <1>2, <2>1, <2>2, RowsStay, DispatchStays, ContentStays,
               PeopleStay, ObservedStays DEF Ack
  <1>3. CASE Refused(w)
    <2>1. RequestsTyped'
      BY <1>3, IdleTyped DEF Refused
    <2>2. QueueTyped'
      BY <1>3 DEF Refused, QueueTyped
    <2> QED BY <1>3, <2>1, <2>2, RowsStay, DispatchStays, ContentStays,
               PeopleStay, ObservedStays DEF Refused
  <1> QED BY <1>1, <1>2, <1>3 DEF Nack, WorkerCrash

\* So do the transactions of the worker.
LEMMA WorkerTyped ==
  ASSUME TypeOK, NEW w \in Workers, WorkerStep(w) \/ DependencyError(w)
  PROVE  TypeOK'
  <1> USE DEF TypeOK
  <1> USE RowsStay, QueueStays, RequestsStay, DispatchStays, ContentStays,
          PeopleStay, ObservedStays
  <1>0. pc[w] # "idle" => at[w] \in Jobs
    BY DEF RequestsTyped
  <1>a. ASSUME pc[w] # "idle", NEW p \in Points, Move(w, p) PROVE RequestsTyped'
    BY <1>a, MoveTyped
  <1>1. CASE Claim(w)
    <2>1. RowsTyped'
      BY <1>1, <1>0 DEF Claim, RowsTyped, States
    <2>2. RequestsTyped'
      BY <1>1, <1>0 DEF Claim, RequestsTyped, RowsTyped, Goto, Points
    <2>3. ObservedTyped'
      BY <1>1, <1>0 DEF Claim, ObservedTyped, RowsTyped, observed
    <2> QED BY <1>1, <2>1, <2>2, <2>3 DEF Claim
  <1>2. CASE ClaimMiss(w) \/ MissedRead(w) \/ StaleClaim(w) \/ CheckTerminal(w)
             \/ DependencyError(w)
    <2>1. pc[w] # "idle" /\ \E p \in Points : Move(w, p)
      BY <1>2 DEF ClaimMiss, MissedRead, StaleClaim, CheckTerminal,
                  DependencyError, Points, Holding
    <2>2. RequestsTyped'
      BY <2>1, <1>a
    <2> QED BY <1>2, <2>2 DEF ClaimMiss, MissedRead, StaleClaim, CheckTerminal,
                              DependencyError
  <1>3. CASE Preflight(w)
    <2>1. RequestsTyped'
      BY <1>3, <1>a, FailWithTyped DEF Preflight, Points, Codes
    <2>2. CASE UNCHANGED jobRow
      BY <1>3, <2>1, <2>2 DEF Preflight
    <2>3. CASE FailRow(at[w], "job_result_conflict")
      BY <1>3, <1>0, <2>1, <2>3, FailRowTyped DEF Preflight, Codes
    <2>4. CASE ~UNCHANGED jobRow /\ ~FailRow(at[w], "job_result_conflict")
      <3>1. RowsTyped'
        <4> DEFINE recorded ==
              [r \in Reports |-> IF r \in Targets[at[w]] THEN cur[r] ELSE 0]
        <4>1. recorded \in [Reports -> Nat]
          BY DEF Docs, ContentTyped
        <4>2. /\ bases' = [bases EXCEPT ![at[w]] = recorded]
              /\ UNCHANGED <<state, token, expired, attempts, base, started, error>>
          BY <1>3, <2>4 DEF Preflight
        <4> HIDE DEF recorded
        <4> QED BY <4>1, <4>2 DEF RowsTyped
      <3> QED BY <1>3, <2>1, <3>1 DEF Preflight
    <2> QED BY <2>2, <2>3, <2>4
  <1>4. CASE MarkProviderStarted(w)
    <2>1. RowsTyped'
      BY <1>4, <1>0 DEF MarkProviderStarted, RowsTyped, RequestsTyped
    <2>2. RequestsTyped'
      BY <1>4, <1>a DEF MarkProviderStarted, Points
    <2> QED BY <1>4, <2>1, <2>2 DEF MarkProviderStarted
  <1>5. CASE CallEngine(w)
    <2>1. ObservedTyped'
      BY <1>5, <1>0 DEF CallEngine, ObservedTyped, RequestsTyped
    <2>2. RequestsTyped'
      BY <1>5, <1>a DEF CallEngine, Points
    <2> QED BY <1>5, <2>1, <2>2 DEF CallEngine
  <1>6. CASE EngineAnswers(w)
    <2>1. RequestsTyped'
      BY <1>6, <1>a, FailWithTyped DEF EngineAnswers, Points, Codes
    <2> QED BY <1>6, <2>1 DEF EngineAnswers
  <1>b. CASE BeginApply(w)
    <2>1. RequestsTyped'
      BY <1>b, <1>a, FailWithTyped DEF BeginApply, Points, Codes
    <2> QED BY <1>b, <2>1 DEF BeginApply
  <1>7. CASE Apply(w)
    <2>1. CASE Publish(at[w]) /\ Move(w, "ack")
      <3>1. RequestsTyped'
        BY <1>7, <2>1, <1>a DEF Apply, Points
      <3> QED BY <1>7, <1>0, <2>1, <3>1, PublishTyped DEF Apply
    <2>2. CASE Unpublished /\ UNCHANGED jobRow /\ \E c \in Codes : FailWith(w, c)
      <3>1. RequestsTyped'
        BY <1>7, <2>2, FailWithTyped DEF Apply
      <3> QED BY <1>7, <2>2, <3>1 DEF Apply, Unpublished
    <2>3. CASE Unpublished /\ Move(w, "ack") /\ FailRow(at[w], "job_result_conflict")
      <3>1. RequestsTyped'
        BY <1>7, <2>3, <1>a DEF Apply, Points
      <3> QED BY <1>7, <1>0, <2>3, <3>1, FailRowTyped DEF Apply, Unpublished, Codes
    <2>4. CASE /\ Unpublished /\ UNCHANGED <<jobRow, at, held, code>>
               /\ Goto(w, "saving")
               /\ \E r \in Targets[at[w]] : seen' = [seen EXCEPT ![w] = cur[r]]
      <3>1. RequestsTyped'
        BY <1>7, <1>0, <2>4, TargetsAreDocs
           DEF Apply, RequestsTyped, Goto, Points, ContentTyped
      <3> QED BY <1>7, <2>4, <3>1 DEF Apply, Unpublished
    <2> QED BY <1>7, <2>1, <2>2, <2>3, <2>4 DEF Apply, Codes
  <1>8. CASE SaveReport(w)
    <2>1. CASE Publish(at[w]) /\ Move(w, "ack")
      <3>1. RequestsTyped'
        BY <1>8, <2>1, <1>a DEF SaveReport, Points
      <3> QED BY <1>8, <1>0, <2>1, <3>1, PublishTyped DEF SaveReport
    <2>2. CASE Unpublished /\ UNCHANGED jobRow /\ \E c \in Codes : FailWith(w, c)
      <3>1. RequestsTyped'
        BY <1>8, <2>2, FailWithTyped DEF SaveReport
      <3> QED BY <1>8, <2>2, <3>1 DEF SaveReport, Unpublished
    <2> QED BY <1>8, <2>1, <2>2 DEF SaveReport
  <1>9. CASE MarkTerminal(w)
    <2>1. RequestsTyped'
      BY <1>9, <1>a DEF MarkTerminal, Points
    <2>2. code[w] \in Codes
      BY DEF RequestsTyped
    <2>3. RowsTyped'
      BY <1>9, <1>0, <2>2, FailRowTyped DEF MarkTerminal
    <2> QED BY <1>9, <2>1, <2>3 DEF MarkTerminal
  <1>10. CASE ReleaseTransient(w)
    <2>1. RowsTyped'
      <3>1. UNCHANGED <<attempts, base, bases, started, error>>
        BY <1>10 DEF ReleaseTransient
      <3>2. CASE ClaimHeld(w)
        <4>1. /\ state' = [state EXCEPT ![at[w]] = "queued"]
              /\ token' = [token EXCEPT ![at[w]] = 0]
              /\ expired' = [expired EXCEPT ![at[w]] = FALSE]
          BY <1>10, <3>2 DEF ReleaseTransient
        <4> QED BY <3>1, <4>1 DEF RowsTyped, States
      <3>3. CASE ~ClaimHeld(w)
        <4>1. UNCHANGED jobRow
          BY <1>10, <3>1, <3>3 DEF ReleaseTransient, jobRow
        <4> QED BY <4>1
      <3> QED BY <3>2, <3>3
    <2>2. RequestsTyped'
      BY <1>10, <1>a DEF ReleaseTransient, Points
    <2> QED BY <1>10, <2>1, <2>2 DEF ReleaseTransient
  <1> QED BY <1>1, <1>2, <1>3, <1>4, <1>5, <1>6, <1>b, <1>7, <1>8, <1>9, <1>10,
             QueueSideTyped DEF WorkerStep

\* So do the saves, transfers and deactivations of people.
LEMMA PeopleStepTyped ==
  ASSUME TypeOK, PeopleStep
  PROVE  TypeOK'
  <1> USE DEF TypeOK
  <1> USE RowsStay, QueueStays, RequestsStay, DispatchStays, ContentStays,
          PeopleStay, ObservedStays
  <1>1. ASSUME NEW d \in Docs, UserSave(d) PROVE TypeOK'
    <2>1. ContentTyped' /\ PeopleTyped'
      BY <1>1 DEF UserSave, ContentTyped, PeopleTyped, Revision
    <2> QED BY <1>1, <2>1 DEF UserSave
  <1>2. ASSUME NEW r \in Reports, Transfer(r) PROVE TypeOK'
    <2>1. ContentTyped' /\ PeopleTyped'
      BY <1>2 DEF Transfer, ContentTyped, PeopleTyped, Revision, Docs
    <2> QED BY <1>2, <2>1 DEF Transfer
  <1>3. CASE SetActor
    <2>1. PeopleTyped'
      BY <1>3 DEF SetActor, PeopleTyped
    <2> QED BY <1>3, <2>1 DEF SetActor
  <1> QED BY <1>1, <1>2, <1>3 DEF PeopleStep

\* Hence every step does.
LEMMA NextTyped == TypeOK /\ [Next]_vars => TypeOK'
  <1> SUFFICES ASSUME TypeOK, [Next]_vars PROVE TypeOK'
    OBVIOUS
  <1> USE RowsStay, QueueStays, RequestsStay, DispatchStays, ContentStays,
          PeopleStay, ObservedStays
  <1>1. ASSUME NEW j \in Jobs, Submit(j) PROVE TypeOK'
    <2>1. RowsTyped'
      BY <1>1 DEF Submit, NewJob, TypeOK, RowsTyped, ContentTyped, States, Docs
    <2>2. QueueTyped'
      BY <1>1 DEF Submit, NewJob, TypeOK, QueueTyped, queue
    <2> QED BY <1>1, <2>1, <2>2 DEF Submit, NewJob, TypeOK
  <1>2. ASSUME NEW j \in Jobs, LeaseExpires(j) PROVE TypeOK'
    <2>1. RowsTyped'
      BY <1>2 DEF LeaseExpires, TypeOK, RowsTyped
    <2> QED BY <1>2, <2>1 DEF LeaseExpires, TypeOK
  <1>3. CASE UNCHANGED vars
    BY <1>3 DEF vars, TypeOK
  <1> QED BY <1>1, <1>2, <1>3, DispatcherTyped, QueueSideTyped, WorkerTyped,
             PeopleStepTyped DEF Next

\* The rows, requests and documents always hold the values their columns and
\* control points allow, and whoever is busy is at work on a submitted job.
THEOREM TypeCorrect == Spec => []TypeOK
  <1>1. Init => TypeOK
    BY InitTyped
  <1>2. TypeOK /\ [Next]_vars => TypeOK'
    BY NextTyped
  <1> QED BY <1>1, <1>2, PTL DEF Spec

-----------------------------------------------------------------------------
(* Exactly one result.  A result is written in the step that takes its job  *)
(* from running to succeeded, and nothing leaves succeeded; the only step   *)
(* that needs more than its own guard is SaveReport, whose transaction has  *)
(* begun earlier: OpenApplicationIsolated is what its row locks keep true.  *)

Inv == TypeOK /\ OpenApplicationIsolated /\ ResultExactlyOnce

\* Nothing is submitted, open or published at the start.
LEMMA InitInv == Init => Inv
  <1> SUFFICES ASSUME Init PROVE OpenApplicationIsolated /\ ResultExactlyOnce
    BY InitTyped DEF Inv
  <1>1. OpenApplicationIsolated
    BY DEF Init, OpenApplicationIsolated, Holding
  <1>2. ResultExactlyOnce
    <2>1. \A j \in Jobs : state[j] # "succeeded"
      BY DEF Init
    <2>2. \A h \in history : h.by = User
      BY DEF Init
    <2> QED BY <2>1, <2>2, JobPipelineAssumption DEF ResultExactlyOnce
  <1> QED BY <1>1, <1>2

\* No revision is written, and no job enters or leaves succeeded.
LEMMA ResultsStay ==
  ASSUME ResultExactlyOnce, UNCHANGED history,
         \A j \in Jobs : state'[j] = "succeeded" <=> state[j] = "succeeded"
  PROVE  ResultExactlyOnce'
  BY DEF ResultExactlyOnce

\* People's revisions are not results.
LEMMA PeoplesRevision ==
  ASSUME ResultExactlyOnce, UNCHANGED state,
         NEW h, h.by = User, history' = history \cup {h}
  PROVE  ResultExactlyOnce'
  <1>1. \A j \in Jobs : h.by # j
    BY JobPipelineAssumption
  <1>2. \A j \in Jobs, d \in Docs :
          {g \in history' : g.by = j /\ g.doc = d} = {g \in history : g.by = j /\ g.doc = d}
    BY <1>1
  <1> QED BY <1>2 DEF ResultExactlyOnce

\* A job that had not succeeded publishes one revision per document.
LEMMA PublishOnce ==
  ASSUME TypeOK, ResultExactlyOnce, NEW j \in Jobs, state[j] # "succeeded", Publish(j)
  PROVE  ResultExactlyOnce'
  <1> DEFINE Rev(d) == [doc |-> d, n |-> cur[d] + 1, by |-> j]
  <1> DEFINE Own(H, i, d) == {h \in H : h.by = i /\ h.doc = d}
  <1>0. \A d \in Docs : Rev(d).doc = d /\ Rev(d).by = j
    OBVIOUS
  <1>1. history' = history \cup {Rev(d) : d \in Targets[j]}
    BY DEF Publish
  <1>2. state' = [state EXCEPT ![j] = "succeeded"] /\ state \in [Jobs -> States]
    BY DEF Publish, TypeOK, RowsTyped
  <1> HIDE DEF Rev
  <1>3. ASSUME NEW i \in Jobs, NEW d \in Docs, i # j
        PROVE  Own(history', i, d) = Own(history, i, d)
    BY <1>0, <1>1, <1>3, TargetsAreDocs
  <1>4. \A d \in Docs : Own(history, j, d) = {}
    BY DEF ResultExactlyOnce
  <1>5. ASSUME NEW d \in Docs
        PROVE  Own(history', j, d) = IF d \in Targets[j] THEN {Rev(d)} ELSE {}
    BY <1>0, <1>1, <1>4, TargetsAreDocs
  <1>6. ASSUME NEW i \in Jobs, NEW d \in Docs
        PROVE  IF state'[i] = "succeeded" /\ d \in Targets[i]
               THEN \E h \in history' : Own(history', i, d) = {h}
               ELSE Own(history', i, d) = {}
    <2>1. CASE i = j
      <3>1. d \in Targets[j] => Rev(d) \in history'
        BY <1>1
      <3> QED BY <2>1, <3>1, <1>2, <1>5
    <2>2. CASE i # j
      <3>1. state'[i] = state[i]
        BY <1>2, <2>2
      <3>2. IF state[i] = "succeeded" /\ d \in Targets[i]
            THEN \E h \in history : Own(history, i, d) = {h}
            ELSE Own(history, i, d) = {}
        BY DEF ResultExactlyOnce
      <3>3. history \subseteq history'
        BY <1>1
      <3> QED BY <2>2, <3>1, <3>2, <3>3, <1>3
    <2> QED BY <2>1, <2>2
  <1> QED BY <1>6 DEF ResultExactlyOnce

\* No request newly holds the lock of a job or, beyond that, of the incident.
NobodyOpens ==
    \A w \in Workers :
      /\ pc'[w] \in Holding => pc[w] \in Holding /\ at'[w] = at[w]
      /\ pc'[w] = "saving" => pc[w] = "saving"

\* Open applications stay isolated while nobody starts one, the jobs they
\* have locked keep their state and base, and the incident does not move.
LEMMA IsolationStays ==
  ASSUME TypeOK, OpenApplicationIsolated,
         NobodyOpens,
         \A w \in Workers : pc'[w] \in Holding =>
           state'[at[w]] = state[at[w]] /\ base'[at[w]] = base[at[w]],
         IncidentLocked => cur'[Incident] = cur[Incident]
  PROVE  OpenApplicationIsolated'
  BY DEF OpenApplicationIsolated, IncidentLocked, NobodyOpens, Holding

\* A step that publishes nothing and leaves state and saving requests alone keeps Inv.
LEMMA QuietStep ==
  ASSUME Inv, NobodyOpens, UNCHANGED <<state, base, content>>
  PROVE  OpenApplicationIsolated' /\ ResultExactlyOnce'
  <1>1. ResultExactlyOnce'
    BY ResultsStay DEF Inv, content
  <1>2. OpenApplicationIsolated'
    BY IsolationStays DEF Inv, NobodyOpens, content
  <1> QED BY <1>1, <1>2

\* A step that changes the row of one job no other open transaction has locked.
LEMMA RowStep ==
  ASSUME Inv, NobodyOpens, UNCHANGED content, NEW j \in Jobs,
         \A w \in Workers : pc'[w] \in Holding => at[w] # j,
         state[j] # "succeeded",
         NEW s \in States \ {"succeeded"}, state' = [state EXCEPT ![j] = s],
         \A i \in Jobs : i # j => base'[i] = base[i]
  PROVE  OpenApplicationIsolated' /\ ResultExactlyOnce'
  <1>1. state \in [Jobs -> States]
    BY DEF Inv, TypeOK, RowsTyped
  <1>2. ResultExactlyOnce'
    BY <1>1, ResultsStay DEF Inv, content
  <1>3. \A w \in Workers : pc'[w] \in Holding => at[w] \in Jobs /\ at[w] # j
    BY DEF NobodyOpens, Holding, Inv, TypeOK, RequestsTyped
  <1>4. OpenApplicationIsolated'
    BY <1>1, <1>3, IsolationStays DEF Inv, NobodyOpens, content
  <1> QED BY <1>2, <1>4

\* Whoever publishes leaves every other open transaction alone: those that
\* still wait for the incident are at work on other jobs, and none is further,
\* because the incident is not locked or the publisher holds the lock.
LEMMA PublishStep ==
  ASSUME Inv, NEW w \in Workers, at[w] \in Jobs, pc[w] \in Holding,
         \A v \in Workers : pc[v] = "saving" => v = w,
         Publish(at[w]), Move(w, "ack")
  PROVE  OpenApplicationIsolated' /\ ResultExactlyOnce'
  <1>1. ResultExactlyOnce'
    BY PublishOnce DEF Inv, OpenApplicationIsolated
  <1>2. \A v \in Workers : pc'[v] # "saving"
    BY DEF Move, Goto, Inv, TypeOK, RequestsTyped
  <1>3. \A v \in Workers : pc'[v] \in Holding =>
          /\ pc[v] \in Holding /\ v # w /\ at'[v] = at[v] /\ at[v] \in Jobs
    BY DEF Move, Goto, Holding, Inv, TypeOK, RequestsTyped
  <1>4. \A v \in Workers : pc'[v] \in Holding => state'[at[v]] = "running"
    BY <1>3 DEF Publish, OpenApplicationIsolated, Inv, TypeOK, RowsTyped
  <1> QED BY <1>1, <1>2, <1>3, <1>4 DEF OpenApplicationIsolated, Inv

\* What people save is never taken for the result of a job.
LEMMA PeopleInv ==
  ASSUME Inv, PeopleStep
  PROVE  OpenApplicationIsolated' /\ ResultExactlyOnce'
  <1>0. NobodyOpens /\ UNCHANGED <<state, base, at, pc>>
    BY DEF NobodyOpens, PeopleStep, UserSave, Transfer, SetActor, jobRow, request
  <1>1. ASSUME NEW d \in Docs, UserSave(d) PROVE OpenApplicationIsolated' /\ ResultExactlyOnce'
    <2>1. ResultExactlyOnce'
      <3> DEFINE h == [doc |-> d, n |-> cur[d] + 1, by |-> User]
      <3>1. h.by = User /\ history' = history \cup {h}
        BY <1>1 DEF UserSave
      <3> QED BY <1>0, <3>1, PeoplesRevision DEF Inv
    <2>2. IncidentLocked => cur'[Incident] = cur[Incident]
      BY <1>1 DEF UserSave, Inv, TypeOK, ContentTyped, Docs
    <2> QED BY <1>0, <2>1, <2>2, IsolationStays DEF Inv
  <1>2. ASSUME NEW r \in Reports, Transfer(r) PROVE OpenApplicationIsolated' /\ ResultExactlyOnce'
    <2>1. ResultExactlyOnce'
      <3> DEFINE h == [doc |-> r, n |-> cur[r] + 1, by |-> User]
      <3>1. h.by = User /\ history' = history \cup {h}
        BY <1>2 DEF Transfer
      <3> QED BY <1>0, <3>1, PeoplesRevision DEF Inv
    <2>2. cur'[Incident] = cur[Incident]
      BY <1>2, JobPipelineAssumption DEF Transfer, Inv, TypeOK, ContentTyped, Docs
    <2> QED BY <1>0, <2>1, <2>2, IsolationStays DEF Inv
  <1>3. CASE SetActor
    BY <1>0, <1>3, QuietStep DEF SetActor
  <1> QED BY <1>1, <1>2, <1>3 DEF PeopleStep

\* The actions that publish nothing and end no job.
LEMMA QuietActions ==
  ASSUME Inv,
         \/ \E d \in Dispatchers : DispatcherStep(d)
         \/ \E j \in Jobs : LeaseExpires(j)
         \/ \E w \in Workers, j \in Jobs : Deliver(w, j)
         \/ \E w \in Workers :
              \/ Ack(w) \/ Nack(w) \/ WorkerCrash(w) \/ DependencyError(w)
              \/ ClaimMiss(w) \/ MissedRead(w) \/ StaleClaim(w) \/ CheckTerminal(w)
              \/ MarkProviderStarted(w) \/ CallEngine(w) \/ EngineAnswers(w)
  PROVE  OpenApplicationIsolated' /\ ResultExactlyOnce'
  <1>0. pc \in [Workers -> Points] /\ at \in [Workers -> Jobs \cup {None}]
    BY DEF Inv, TypeOK, RequestsTyped
  <1>1. CASE \/ \E d \in Dispatchers : DispatcherStep(d)
             \/ \E j \in Jobs : LeaseExpires(j)
    <2>1. UNCHANGED <<state, base, content, at, pc>>
      BY <1>1 DEF DispatcherStep, ReadPending, Mark, DispatcherCrash, CreateTask,
                  LeaseExpires, jobRow, request
    <2> QED BY <2>1, QuietStep DEF NobodyOpens
  <1>2. ASSUME NEW w \in Workers, NEW j \in Jobs, Deliver(w, j)
        PROVE  OpenApplicationIsolated' /\ ResultExactlyOnce'
    <2>1. UNCHANGED <<state, base, content>>
      BY <1>2 DEF Deliver, jobRow
    <2>2. NobodyOpens
      BY <1>0, <1>2 DEF NobodyOpens, Deliver, Goto, Holding
    <2> QED BY <2>1, <2>2, QuietStep
  <1>3. ASSUME NEW w \in Workers, Ack(w) \/ Nack(w) \/ WorkerCrash(w)
        PROVE  OpenApplicationIsolated' /\ ResultExactlyOnce'
    <2>1. UNCHANGED <<state, base, content>> /\ Idle(w)
      BY <1>3 DEF Ack, Nack, WorkerCrash, Refused, jobRow
    <2>2. NobodyOpens
      BY <1>0, <2>1 DEF NobodyOpens, Idle, Goto, Holding
    <2> QED BY <2>1, <2>2, QuietStep
  <1>4. ASSUME NEW w \in Workers,
               \/ DependencyError(w) \/ ClaimMiss(w) \/ MissedRead(w) \/ StaleClaim(w)
               \/ CheckTerminal(w) \/ MarkProviderStarted(w) \/ CallEngine(w)
               \/ EngineAnswers(w)
        PROVE  OpenApplicationIsolated' /\ ResultExactlyOnce'
    <2>1. UNCHANGED <<state, base, content>>
      BY <1>4 DEF DependencyError, ClaimMiss, MissedRead, StaleClaim, CheckTerminal,
                  MarkProviderStarted, CallEngine, EngineAnswers, jobRow
    <2>2. UNCHANGED at /\ \E p \in Points \ Holding : Goto(w, p)
      BY <1>4
         DEF DependencyError, ClaimMiss, MissedRead, StaleClaim, CheckTerminal,
             MarkProviderStarted, CallEngine, EngineAnswers, Move, FailWith, Points,
             Holding
    <2>3. NobodyOpens
      BY <1>0, <2>2 DEF NobodyOpens, Goto, Holding
    <2> QED BY <2>1, <2>3, QuietStep
  <1> QED BY <1>1, <1>2, <1>3, <1>4

\* The actions that change the state of a job row but publish nothing.
LEMMA RowActions ==
  ASSUME Inv, NEW w \in Workers,
         Claim(w) \/ Preflight(w) \/ MarkTerminal(w) \/ ReleaseTransient(w)
  PROVE  OpenApplicationIsolated' /\ ResultExactlyOnce'
  <1>0. /\ pc \in [Workers -> Points] /\ at \in [Workers -> Jobs \cup {None}]
        /\ state \in [Jobs -> States]
    BY DEF Inv, TypeOK, RequestsTyped, RowsTyped
  <1>1. at[w] \in Jobs /\ ~JobLocked(at[w]) /\ UNCHANGED content
    BY
       DEF Claim, Preflight, MarkTerminal, ReleaseTransient, Inv, TypeOK,
           RequestsTyped
  <1>2. UNCHANGED at /\ \E p \in Points \ Holding : Goto(w, p)
    BY
       DEF Claim, Preflight, MarkTerminal, ReleaseTransient, Move, FailWith,
           Points, Holding
  <1>3. NobodyOpens
    BY <1>0, <1>2 DEF NobodyOpens, Goto, Holding
  <1>4. UNCHANGED base
    BY DEF Claim, Preflight, MarkTerminal, ReleaseTransient, FailRow, jobRow
  <1>5. CASE UNCHANGED state
    BY <1>1, <1>3, <1>4, <1>5, QuietStep
  <1>6. CASE state' # state
    <2>1. state[at[w]] # "succeeded"
      BY <1>6 DEF Claim, Preflight, MarkTerminal, ReleaseTransient, Claimable,
                  ClaimHeld, jobRow
    <2>2. \E s \in States \ {"succeeded"} : state' = [state EXCEPT ![at[w]] = s]
      BY <1>6 DEF Claim, Preflight, MarkTerminal, ReleaseTransient, FailRow, jobRow,
                  States, Terminal
    <2>3. \A v \in Workers : pc'[v] \in Holding => at[v] # at[w]
      BY <1>1, <1>3 DEF NobodyOpens, JobLocked
    <2> QED BY <1>1, <1>3, <1>4, <2>1, <2>2, <2>3, RowStep
  <1> QED BY <1>5, <1>6

\* _apply takes the lock of its job, which nobody else has.
LEMMA BeginApplyInv ==
  ASSUME Inv, NEW w \in Workers, BeginApply(w)
  PROVE  OpenApplicationIsolated' /\ ResultExactlyOnce'
  <1>0. /\ pc \in [Workers -> Points] /\ pc[w] = "apply" /\ state[at[w]] = "running"
        /\ ~JobLocked(at[w]) /\ UNCHANGED <<state, base, content, at>>
    BY DEF BeginApply, ClaimHeld, Move, FailWith, Inv, TypeOK, RequestsTyped, jobRow
  <1>1. CASE Move(w, "applying")
    <2>1. /\ pc' = [pc EXCEPT ![w] = "applying"]
          /\ \A v \in Workers : pc[v] \in Holding => at[v] # at[w]
      BY <1>0, <1>1 DEF Move, Goto, JobLocked
    <2>2. /\ \A v \in Workers : pc'[v] \in Holding => v = w \/ pc[v] \in Holding
          /\ \A v \in Workers : pc'[v] = "saving" => pc[v] = "saving"
      BY <1>0, <2>1 DEF Holding
    <2>3. OpenApplicationIsolated'
      BY <1>0, <2>1, <2>2 DEF OpenApplicationIsolated, Inv, content
    <2> QED BY <1>0, <2>3, ResultsStay DEF Inv, content
  <1>2. CASE FailWith(w, "job_authorization_invalid")
    <2>1. NobodyOpens
      BY <1>0, <1>2 DEF NobodyOpens, FailWith, Goto, Holding
    <2> QED BY <1>0, <2>1, QuietStep
  <1> QED BY <1>1, <1>2 DEF BeginApply

\* The rest of it: the whole result in one step, or up to an unlocked read.
LEMMA ApplyInv ==
  ASSUME Inv, NEW w \in Workers, Apply(w)
  PROVE  OpenApplicationIsolated' /\ ResultExactlyOnce'
  <1>0. /\ pc \in [Workers -> Points] /\ at[w] \in Jobs /\ state[at[w]] = "running"
        /\ pc[w] = "applying" /\ pc[w] \in Holding /\ ~IncidentLocked
    BY DEF Apply, OpenApplicationIsolated, Holding, Inv, TypeOK, RequestsTyped
  <1>1. CASE Publish(at[w]) /\ Move(w, "ack")
    BY <1>0, <1>1, PublishStep DEF IncidentLocked
  <1>2. CASE Unpublished /\ UNCHANGED jobRow /\ \E c \in Codes : FailWith(w, c)
    <2>1. NobodyOpens
      BY <1>0, <1>2 DEF NobodyOpens, FailWith, Goto, Holding
    <2> QED BY <1>2, <2>1, QuietStep DEF Unpublished, jobRow
  <1>3. CASE Unpublished /\ Move(w, "ack") /\ FailRow(at[w], "job_result_conflict")
    <2>1. NobodyOpens
      BY <1>0, <1>3 DEF NobodyOpens, Move, Goto, Holding
    <2>2. \A v \in Workers : pc'[v] \in Holding => pc[v] \in Holding /\ v # w
      BY <1>0, <1>3 DEF Move, Goto, Holding
    <2>3. \A v \in Workers : pc'[v] \in Holding => at[v] # at[w]
      BY <1>0, <2>2 DEF OpenApplicationIsolated, Inv
    <2> QED BY <1>0, <1>3, <2>1, <2>3, RowStep DEF Unpublished, FailRow, States, Terminal
  <1>4. CASE /\ Unpublished /\ UNCHANGED <<jobRow, at>> /\ Goto(w, "saving")
             /\ BaseIsCurrent(at[w])
    <2>1. ResultExactlyOnce'
      BY <1>4, ResultsStay DEF Inv, Unpublished, jobRow, content
    <2>2. \A v \in Workers : pc'[v] = "saving" => v = w
      BY <1>0, <1>4 DEF Goto, IncidentLocked
    <2>3. \A v \in Workers : pc'[v] \in Holding => pc[v] \in Holding
      BY <1>0, <1>4 DEF Goto, Holding
    <2> QED BY <1>0, <1>4, <2>1, <2>2, <2>3
            DEF OpenApplicationIsolated, BaseIsCurrent, Unpublished, jobRow, content, Inv
  <1> QED BY <1>1, <1>2, <1>3, <1>4 DEF Apply, Codes

\* What is left after the unlocked read: the job is still running and unpublished.
LEMMA SaveReportInv ==
  ASSUME Inv, NEW w \in Workers, SaveReport(w)
  PROVE  OpenApplicationIsolated' /\ ResultExactlyOnce'
  <1>0. /\ pc \in [Workers -> Points] /\ at[w] \in Jobs /\ pc[w] = "saving" /\ pc[w] \in Holding
        /\ state[at[w]] = "running"
        /\ \A v \in Workers : pc[v] = "saving" => v = w
    BY DEF SaveReport, Inv, TypeOK, RequestsTyped, OpenApplicationIsolated, Holding
  <1>1. CASE Publish(at[w]) /\ Move(w, "ack")
    BY <1>0, <1>1, PublishStep
  <1>2. CASE Unpublished /\ UNCHANGED jobRow /\ \E c \in Codes : FailWith(w, c)
    <2>1. NobodyOpens
      BY <1>0, <1>2 DEF NobodyOpens, FailWith, Goto, Holding
    <2> QED BY <1>2, <2>1, QuietStep DEF Unpublished, jobRow
  <1> QED BY <1>1, <1>2 DEF SaveReport

\* Every step keeps Inv.
LEMMA NextInv == Inv /\ [Next]_vars => Inv'
  <1> SUFFICES ASSUME Inv, [Next]_vars
               PROVE  OpenApplicationIsolated' /\ ResultExactlyOnce'
    BY NextTyped DEF Inv
  <1>1. ASSUME NEW j \in Jobs, Submit(j)
        PROVE  OpenApplicationIsolated' /\ ResultExactlyOnce'
    <2>1. /\ UNCHANGED content /\ UNCHANGED <<pc, at>> /\ state[j] = "none"
          /\ state' = [state EXCEPT ![j] = "queued"]
          /\ \A i \in Jobs : i # j => base'[i] = base[i]
      BY <1>1 DEF Submit, NewJob, request, Inv, TypeOK, RowsTyped
    <2>2. NobodyOpens
      BY <2>1 DEF NobodyOpens
    <2>3. \A w \in Workers : pc'[w] \in Holding => at[w] # j
      BY <2>1 DEF OpenApplicationIsolated, Inv
    <2> QED BY <2>1, <2>2, <2>3, RowStep DEF States, Terminal
  <1>2. CASE UNCHANGED vars
    BY <1>2, QuietStep DEF NobodyOpens, vars, jobRow, request
  <1> QED BY <1>1, <1>2, QuietActions, RowActions, BeginApplyInv, ApplyInv, SaveReportInv,
             PeopleInv DEF Next, WorkerStep

\* However often a job is delivered and claimed, and however its lease runs
\* out, it publishes once if it succeeded and never otherwise.
THEOREM ResultsExactlyOnce == Spec => []ResultExactlyOnce
  <1>1. Inv => ResultExactlyOnce
    BY DEF Inv
  <1> QED BY <1>1, InitInv, NextInv, PTL DEF Spec

\* The row locks keep the two-step application of a result to itself.
THEOREM ApplicationsIsolated == Spec => []OpenApplicationIsolated
  <1>1. Inv => OpenApplicationIsolated
    BY DEF Inv
  <1> QED BY <1>1, InitInv, NextInv, PTL DEF Spec

-----------------------------------------------------------------------------
(* What a step never does.  Both action properties speak of the steps that  *)
(* change a job's row; the ones that publish are Apply, whose guards say    *)
(* what is needed, and SaveReport, which relies on Inv.                     *)

RowFinal(j) == UNCHANGED <<state[j], token[j], attempts[j], bases[j], error[j]>>

\* The steps that leave the columns of RowFinal alone in every row.
LEMMA RowsUntouched ==
  ASSUME [Next]_vars,
         ~\E j \in Jobs : Submit(j),
         ~\E w \in Workers :
             \/ Claim(w) \/ Preflight(w) \/ Apply(w) \/ SaveReport(w)
             \/ MarkTerminal(w) \/ ReleaseTransient(w)
  PROVE  UNCHANGED <<state, token, attempts, bases, error>>
  <1>1. CASE \/ \E d \in Dispatchers : DispatcherStep(d)
             \/ \E j \in Jobs : LeaseExpires(j)
             \/ \E w \in Workers, j \in Jobs : Deliver(w, j)
             \/ PeopleStep
             \/ UNCHANGED vars
    BY <1>1 DEF DispatcherStep, ReadPending, Mark, DispatcherCrash, CreateTask,
                LeaseExpires, Deliver, PeopleStep, UserSave, Transfer, SetActor,
                vars, jobRow
  <1>2. ASSUME NEW w \in Workers,
               \/ Ack(w) \/ Nack(w) \/ WorkerCrash(w) \/ DependencyError(w)
               \/ ClaimMiss(w) \/ MissedRead(w) \/ StaleClaim(w) \/ CheckTerminal(w)
               \/ MarkProviderStarted(w) \/ CallEngine(w) \/ EngineAnswers(w)
               \/ BeginApply(w)
        PROVE  UNCHANGED <<state, token, attempts, bases, error>>
    BY <1>2 DEF Ack, Nack, WorkerCrash, Refused, DependencyError, ClaimMiss,
                MissedRead, StaleClaim, CheckTerminal, MarkProviderStarted,
                CallEngine, EngineAnswers, BeginApply, jobRow
  <1> QED BY <1>1, <1>2 DEF Next, WorkerStep

\* The steps that do change a row change the row of a job that has not ended.
LEMMA RowChanges ==
  ASSUME Inv, NEW w \in Workers,
         \/ Claim(w) \/ Preflight(w) \/ Apply(w) \/ SaveReport(w)
         \/ MarkTerminal(w) \/ ReleaseTransient(w)
  PROVE  \A j \in Jobs : (j = at[w] => state[j] \in Terminal) => RowFinal(j)
  <1>0. /\ state \in [Jobs -> States] /\ token \in [Jobs -> Nat]
        /\ attempts \in [Jobs -> Nat] /\ bases \in [Jobs -> [Reports -> Nat]]
        /\ error \in [Jobs -> Codes]
        /\ pc[w] \in {"applying", "saving"} => state[at[w]] = "running"
    BY DEF Inv, TypeOK, RowsTyped, OpenApplicationIsolated, Holding
  <1>1. CASE Claim(w)
    BY <1>0, <1>1 DEF Claim, Claimable, RowFinal, Terminal
  <1>2. CASE Preflight(w)
    <2>1. state[at[w]] = "running"
      BY <1>2 DEF Preflight, ClaimHeld
    <2>2. CASE UNCHANGED jobRow
      BY <2>1, <2>2 DEF RowFinal, jobRow, Terminal
    <2>3. CASE FailRow(at[w], "job_result_conflict")
      BY <1>0, <2>1, <2>3 DEF FailRow, RowFinal, Terminal
    <2>4. CASE /\ \E f : bases' = [bases EXCEPT ![at[w]] = f]
               /\ UNCHANGED <<state, token, attempts, error>>
      BY <1>0, <2>1, <2>4 DEF RowFinal, Terminal
    <2> QED BY <1>2, <2>2, <2>3, <2>4 DEF Preflight
  <1>3. CASE Apply(w)
    BY <1>0, <1>3 DEF Apply, FailRow, Publish, RowFinal, jobRow, Terminal
  <1>4. CASE SaveReport(w)
    BY <1>0, <1>4 DEF SaveReport, Publish, RowFinal, jobRow, Terminal
  <1>5. CASE MarkTerminal(w)
    <2>1. CASE UNCHANGED jobRow
      BY <2>1 DEF RowFinal, jobRow
    <2>2. CASE ClaimHeld(w) /\ FailRow(at[w], code[w])
      BY <1>0, <2>2 DEF ClaimHeld, FailRow, RowFinal, Terminal
    <2> QED BY <1>5, <2>1, <2>2 DEF MarkTerminal
  <1>6. CASE ReleaseTransient(w)
    <2>1. CASE UNCHANGED <<state, token>>
      BY <1>6, <2>1 DEF ReleaseTransient, RowFinal
    <2>2. CASE /\ state[at[w]] = "running"
               /\ state' = [state EXCEPT ![at[w]] = "queued"]
               /\ token' = [token EXCEPT ![at[w]] = 0]
      <3>1. UNCHANGED <<attempts, bases, error>>
        BY <1>6 DEF ReleaseTransient
      <3> QED BY <1>0, <2>2, <3>1 DEF RowFinal, Terminal
    <2> QED BY <1>6, <2>1, <2>2 DEF ReleaseTransient, ClaimHeld
  <1> QED BY <1>1, <1>2, <1>3, <1>4, <1>5, <1>6

\* No step changes the row of a job that ended.
LEMMA RowsFinal ==
  ASSUME Inv, [Next]_vars
  PROVE  \A j \in Jobs : state[j] \in Terminal => RowFinal(j)
  <1>1. ASSUME NEW i \in Jobs, Submit(i)
        PROVE  \A j \in Jobs : state[j] \in Terminal => RowFinal(j)
    BY <1>1 DEF Submit, NewJob, Terminal, RowFinal, Inv, TypeOK, RowsTyped
  <1>2. CASE UNCHANGED <<state, token, attempts, bases, error>>
    BY <1>2 DEF RowFinal
  <1> QED BY <1>1, <1>2, RowChanges, RowsUntouched

\* The fate of a job is written once.
THEOREM FateIsFinal == Spec => TerminalIsFinal
  <1>1. Inv /\ [Next]_vars =>
          [\A j \in Jobs : state[j] \in Terminal =>
             UNCHANGED <<state[j], token[j], attempts[j], bases[j], error[j]>>]_vars
    BY RowsFinal DEF RowFinal
  <1> QED BY <1>1, InitInv, NextInv, PTL DEF Spec, TerminalIsFinal

\* A step that makes a job succeed finds the incident at the base of the job.
LEMMA CurrentFacts ==
  ASSUME Inv, [Next]_vars, NEW j \in Jobs,
         state[j] # "succeeded", state'[j] = "succeeded"
  PROVE  cur[Incident] = base[j]
  <1>0. state \in [Jobs -> States]
    BY DEF Inv, TypeOK, RowsTyped
  <1>1. ASSUME NEW i \in Jobs, Submit(i) PROVE FALSE
    BY <1>0, <1>1 DEF Submit, NewJob
  <1>2. ASSUME NEW w \in Workers,
               Claim(w) \/ Preflight(w) \/ MarkTerminal(w) \/ ReleaseTransient(w)
        PROVE  FALSE
    BY <1>0, <1>2
       DEF Claim, Preflight, MarkTerminal, ReleaseTransient, FailRow, jobRow
  <1>3. ASSUME NEW w \in Workers, Apply(w) PROVE at[w] = j /\ BaseIsCurrent(j)
    BY <1>0, <1>3 DEF Apply, FailRow, Publish, jobRow
  <1>4. ASSUME NEW w \in Workers, SaveReport(w)
        PROVE  pc[w] = "saving" /\ at[w] = j
    BY <1>0, <1>4 DEF SaveReport, Publish, jobRow
  <1> QED BY <1>1, <1>2, <1>3, <1>4, RowsUntouched
          DEF BaseIsCurrent, Inv, OpenApplicationIsolated

\* Whatever is published was worked out from the incident as it still is.
THEOREM ResultsOnCurrentFacts == Spec => AppliedOnCurrentFacts
  <1>1. Inv /\ [Next]_vars =>
          [\A j \in Jobs : state[j] # "succeeded" /\ state'[j] = "succeeded" =>
             cur[Incident] = base[j]]_vars
    BY CurrentFacts
  <1> QED BY <1>1, InitInv, NextInv, PTL DEF Spec, AppliedOnCurrentFacts

-----------------------------------------------------------------------------
(* JobPipeline implements JobLifecycle: every transaction of the pipeline   *)
(* is a step of the lifecycle or invisible to clients.  That an application *)
(* which was split in two still publishes at the base of its job is the     *)
(* isolation part of Inv.                                                   *)

\* What clients see of a step.
ClientSees == UNCHANGED <<state, base, cur[Incident], {j \in Jobs : \E h \in history : h.by = j}>>
LifecycleStep == Lifecycle!Next \/ ClientSees

\* A step that leaves job states, bases and documents alone is invisible.
LEMMA Invisible ==
  ASSUME UNCHANGED <<state, base, content>>
  PROVE  LifecycleStep
  BY DEF LifecycleStep, ClientSees, content

\* The pipeline starts as the lifecycle does, with people's revisions only.
LEMMA InitImplements == Init => Lifecycle!Init
  <1> SUFFICES ASSUME Init PROVE Lifecycle!Init
    OBVIOUS
  <1>1. \A j \in Jobs, h \in history : h.by # j
    BY JobPipelineAssumption DEF Init
  <1>2. cur[Incident] = 1
    BY DEF Init, Docs
  <1> QED BY <1>1, <1>2 DEF Init, Lifecycle!Init

\* Publishing a result at the base of a running job is Succeed.
LEMMA PublishIsSucceed ==
  ASSUME TypeOK, NEW j \in Jobs, state[j] = "running", BaseIsCurrent(j), Publish(j)
  PROVE  LifecycleStep
  <1>1. state' = [state EXCEPT ![j] = "succeeded"] /\ UNCHANGED base
    BY DEF Publish
  <1>2. cur'[Incident] = IF j \in {i \in Jobs : Targets[i] = {Incident}}
                         THEN cur[Incident] + 1 ELSE cur[Incident]
    <2>1. Incident \in Targets[j] <=> Targets[j] = {Incident}
      BY JobPipelineAssumption
    <2> QED BY <2>1 DEF Publish, Docs
  <1>3. {i \in Jobs : \E h \in history' : h.by = i}
          = {i \in Jobs : \E h \in history : h.by = i} \cup {j}
    <2> DEFINE new == {[doc |-> d, n |-> cur[d] + 1, by |-> j] : d \in Targets[j]}
    <2>1. history' = history \cup new
      BY DEF Publish
    <2>2. \A h \in new : h.by = j
      OBVIOUS
    <2>3. \E h \in new : h.by = j
      <3>1. PICK d \in Targets[j] : TRUE
        BY JobPipelineAssumption
      <3>2. [doc |-> d, n |-> cur[d] + 1, by |-> j] \in new
        OBVIOUS
      <3> QED BY <3>2
    <2> HIDE DEF new
    <2> QED BY <2>1, <2>2, <2>3
  <1>4. Lifecycle!Succeed(j)
    BY <1>1, <1>2, <1>3 DEF Lifecycle!Succeed, Lifecycle!Moves, BaseIsCurrent
  <1> QED BY <1>4 DEF LifecycleStep, Lifecycle!Next

\* Failing the row of a running job is Fail.
LEMMA FailRowIsFail ==
  ASSUME NEW j \in Jobs, NEW c, state[j] = "running", FailRow(j, c), UNCHANGED content
  PROVE  LifecycleStep
  <1>1. Lifecycle!Fail(j)
    BY DEF Lifecycle!Fail, Lifecycle!Moves, FailRow, content
  <1> QED BY <1>1 DEF LifecycleStep, Lifecycle!Next

\* The steps of the dispatcher, the queue and the clock, and the worker's steps
\* that only move its request.
LEMMA QuietImplements ==
  ASSUME \/ \E d \in Dispatchers : DispatcherStep(d)
         \/ \E j \in Jobs : LeaseExpires(j)
         \/ \E w \in Workers, j \in Jobs : Deliver(w, j)
         \/ \E w \in Workers :
              \/ Ack(w) \/ Nack(w) \/ WorkerCrash(w) \/ DependencyError(w)
              \/ ClaimMiss(w) \/ MissedRead(w) \/ StaleClaim(w) \/ CheckTerminal(w)
              \/ MarkProviderStarted(w) \/ CallEngine(w) \/ EngineAnswers(w)
              \/ BeginApply(w)
  PROVE  LifecycleStep
  <1>1. UNCHANGED <<state, base, content>>
    BY
       DEF DispatcherStep, ReadPending, CreateTask, Mark, DispatcherCrash,
           LeaseExpires,
           Deliver, Ack, Nack, WorkerCrash, Refused, DependencyError, ClaimMiss,
           MissedRead, StaleClaim, CheckTerminal, MarkProviderStarted, CallEngine,
           EngineAnswers, BeginApply, jobRow, content
  <1> QED BY <1>1, Invisible

\* submit_job is Accept.
LEMMA SubmitImplements ==
  ASSUME NEW j \in Jobs, Submit(j)
  PROVE  LifecycleStep
  <1>1. Lifecycle!Accept(j)
    BY DEF Submit, NewJob, content, Lifecycle!Accept, Lifecycle!Moves
  <1> QED BY <1>1 DEF LifecycleStep, Lifecycle!Next

\* A claim is Start, or takes a running job over, which nobody sees.
LEMMA ClaimImplements ==
  ASSUME TypeOK, NEW w \in Workers, Claim(w)
  PROVE  LifecycleStep
  <1> DEFINE j == at[w]
  <1>1. j \in Jobs /\ state \in [Jobs -> States]
    BY DEF Claim, TypeOK, RequestsTyped, RowsTyped, Points
  <1>2. /\ state' = [state EXCEPT ![j] = "running"] /\ UNCHANGED <<base, content>>
        /\ state[j] = "queued" \/ state[j] = "running"
    BY DEF Claim, Claimable
  <1>3. CASE state[j] = "queued"
    <2>1. Lifecycle!Start(j)
      BY <1>2, <1>3 DEF content, Lifecycle!Start, Lifecycle!Moves
    <2> QED BY <1>1, <2>1 DEF LifecycleStep, Lifecycle!Next
  <1>4. CASE state[j] = "running"
    <2>1. state' = state
      BY <1>1, <1>2, <1>4
    <2> QED BY <1>2, <2>1, Invisible
  <1> QED BY <1>2, <1>3, <1>4

\* A job that fails was running; a released one goes back to the queue.
LEMMA RowsImplement ==
  ASSUME TypeOK, NEW w \in Workers,
         Preflight(w) \/ MarkTerminal(w) \/ ReleaseTransient(w)
  PROVE  LifecycleStep
  <1> DEFINE j == at[w]
  <1>1. j \in Jobs /\ UNCHANGED content
    BY DEF Preflight, MarkTerminal, ReleaseTransient, TypeOK, RequestsTyped
  <1>2. CASE Preflight(w)
    <2>1. \/ UNCHANGED <<state, base>>
          \/ state[j] = "running" /\ FailRow(j, "job_result_conflict")
      BY <1>2 DEF Preflight, ClaimHeld, jobRow
    <2> QED BY <1>1, <2>1, Invisible, FailRowIsFail
  <1>3. CASE MarkTerminal(w)
    <2>1. \/ UNCHANGED <<state, base>>
          \/ state[j] = "running" /\ FailRow(j, code[w])
      BY <1>3 DEF MarkTerminal, ClaimHeld, jobRow
    <2> QED BY <1>1, <2>1, Invisible, FailRowIsFail
  <1>4. CASE ReleaseTransient(w)
    <2>1. CASE ClaimHeld(w)
      <3>1. Lifecycle!GiveBack(j)
        BY <1>1, <1>4, <2>1 DEF ReleaseTransient, ClaimHeld, content,
                                Lifecycle!GiveBack, Lifecycle!Moves
      <3> QED BY <1>1, <3>1 DEF LifecycleStep, Lifecycle!Next
    <2>2. CASE ~ClaimHeld(w)
      <3>1. UNCHANGED <<state, base>>
        BY <1>4, <2>2 DEF ReleaseTransient
      <3> QED BY <1>1, <3>1, Invisible
    <2> QED BY <2>1, <2>2
  <1> QED BY <1>2, <1>3, <1>4

\* A result that is applied is Succeed, one that is refused Fail or not yet
\* visible.  The second half of a split application relies on Inv for its base.
LEMMA ResultsImplement ==
  ASSUME Inv, NEW w \in Workers, Apply(w) \/ SaveReport(w)
  PROVE  LifecycleStep
  <1> DEFINE j == at[w]
  <1>1. TypeOK /\ j \in Jobs /\ state[j] = "running"
    BY
       DEF Inv, TypeOK, RequestsTyped, OpenApplicationIsolated, Holding, Apply,
           SaveReport
  <1>2. CASE Apply(w)
    <2>1. \/ UNCHANGED jobRow /\ Unpublished
          \/ FailRow(j, "job_result_conflict") /\ Unpublished
          \/ BaseIsCurrent(j) /\ Publish(j)
      BY <1>2 DEF Apply
    <2> QED BY <1>1, <2>1, Invisible, FailRowIsFail, PublishIsSucceed
            DEF Unpublished, jobRow
  <1>3. CASE SaveReport(w)
    <2>1. \/ UNCHANGED jobRow /\ Unpublished
          \/ Publish(j)
      BY <1>3 DEF SaveReport
    <2>2. BaseIsCurrent(j)
      BY <1>3 DEF SaveReport, Inv, OpenApplicationIsolated, BaseIsCurrent
    <2> QED BY <1>1, <2>1, <2>2, Invisible, PublishIsSucceed DEF Unpublished, jobRow
  <1> QED BY <1>2, <1>3

\* What people save is Edit if they save the incident, and else invisible.
LEMMA PeopleImplement ==
  ASSUME TypeOK, PeopleStep
  PROVE  LifecycleStep
  <1>1. cur \in [Docs -> Nat] /\ Incident \in Docs /\ Incident \notin Reports
    BY JobPipelineAssumption DEF TypeOK, ContentTyped, Docs
  <1>2. UNCHANGED <<state, base>>
    BY DEF PeopleStep, UserSave, Transfer, SetActor, jobRow
  <1>3. ASSUME NEW h, h.by = User, history' = history \cup {h}
        PROVE  UNCHANGED {j \in Jobs : \E g \in history : g.by = j}
    BY <1>3, JobPipelineAssumption
  <1>4. ASSUME NEW d \in Docs, UserSave(d) PROVE LifecycleStep
    <2>1. UNCHANGED {j \in Jobs : \E g \in history : g.by = j}
      <3> DEFINE h == [doc |-> d, n |-> cur[d] + 1, by |-> User]
      <3>1. h.by = User /\ history' = history \cup {h}
        BY <1>4 DEF UserSave
      <3> HIDE DEF h
      <3> QED BY <1>3, <3>1
    <2>2. cur' = [cur EXCEPT ![d] = @ + 1]
      BY <1>4 DEF UserSave
    <2>3. CASE d = Incident
      <3>1. Lifecycle!Edit
        BY <1>1, <1>2, <2>1, <2>2, <2>3 DEF Lifecycle!Edit
      <3> QED BY <3>1 DEF LifecycleStep, Lifecycle!Next
    <2>4. CASE d # Incident
      BY <1>1, <1>2, <2>1, <2>2, <2>4 DEF LifecycleStep, ClientSees
    <2> QED BY <2>3, <2>4
  <1>5. ASSUME NEW r \in Reports, Transfer(r) PROVE LifecycleStep
    <2>1. UNCHANGED {j \in Jobs : \E g \in history : g.by = j}
      <3> DEFINE h == [doc |-> r, n |-> cur[r] + 1, by |-> User]
      <3>1. h.by = User /\ history' = history \cup {h}
        BY <1>5 DEF Transfer
      <3> HIDE DEF h
      <3> QED BY <1>3, <3>1
    <2>2. cur' = [cur EXCEPT ![r] = @ + 1] /\ r # Incident
      BY <1>1, <1>5 DEF Transfer
    <2> QED BY <1>1, <1>2, <2>1, <2>2 DEF LifecycleStep, ClientSees
  <1>6. ASSUME SetActor PROVE LifecycleStep
    BY <1>6, <1>2, Invisible DEF SetActor
  <1> QED BY <1>4, <1>5, <1>6 DEF PeopleStep

\* Every step of the pipeline is a step of the lifecycle or invisible.
LEMMA NextImplements ==
  Inv /\ [Next]_vars => [Lifecycle!Next]_(Lifecycle!lifecycle)
  <1> SUFFICES ASSUME Inv, [Next]_vars PROVE LifecycleStep
    BY DEF LifecycleStep, ClientSees, Lifecycle!lifecycle
  <1>1. TypeOK
    BY DEF Inv
  <1>2. CASE UNCHANGED vars
    BY <1>2, Invisible DEF vars, jobRow
  <1>3. CASE Next
    BY <1>1, <1>3, QuietImplements, SubmitImplements, ClaimImplements,
       RowsImplement, ResultsImplement, PeopleImplement
       DEF Next, WorkerStep
  <1> QED BY <1>2, <1>3

\* Redelivery, claims, leases, crashes and two-step applications stay behind
\* what get_job and the revision history show.
THEOREM PipelineImplementsLifecycle == Spec => ImplementsLifecycle
  BY InitImplements, InitInv, NextInv, NextImplements, PTL
     DEF Spec, ImplementsLifecycle, Lifecycle!Spec

-----------------------------------------------------------------------------
(* Claims, provider attempts and base revisions.  A claim is known by its    *)
(* attempt number; what a request does under a number that is no longer the  *)
(* job's is caught by ClaimHeld, what it does under the current one nobody   *)
(* else does.  Documents only move forward, so a base is never ahead of its  *)
(* document and a conflict that was met stays one.                           *)

ClaimsNumbered ==
    /\ \A j \in Jobs : state[j] = "running" => token[j] = attempts[j] /\ attempts[j] > 0
    /\ \A w \in Workers : IF pc[w] = "idle" THEN held[w] = 0
                                            ELSE held[w] <= attempts[at[w]]
    /\ \A v, w \in Workers : pc[v] # "idle" /\ pc[w] # "idle" /\ at[v] = at[w]
                             /\ held[v] = held[w] /\ held[v] > 0 => v = w

\* Who is about to call the provider under the current claim has left its mark.
MarkedBeforeCall ==
    \A w \in Workers : pc[w] = "engine" /\ ClaimHeld(w) => started[at[w]] # 0

\* A call of an earlier attempt has its risk recorded, and one of the current
\* attempt is marked in the row for the next claim to find.
CallsAccounted ==
    \A j \in Jobs :
        /\ \A a \in calls[j] : a > 0 /\ a <= attempts[j]
        /\ \A a \in calls[j] : a < attempts[j] =>
             \E c \in risks[j] : a < c /\ c <= attempts[j]
        /\ attempts[j] \in calls[j] => started[j] # 0

BasesBehind ==
    \A j \in Jobs : /\ base[j] <= cur[Incident]
                    /\ \A r \in Reports : bases[j][r] <= cur[r]

\* Only the result of an injected engine is saved in two steps, and what its
\* unlocked read found lies between the base and the current revision.
SplitReads ==
    \A w \in Workers : pc[w] = "saving" =>
        /\ InjectedContent /\ at[w] \in Bound
        /\ \A r \in Targets[at[w]] : bases[at[w]][r] <= seen[w] /\ seen[w] <= cur[r]

ReportMoved(j) == \E r \in Targets[j] \cap Reports : cur[r] > bases[j][r]

ConflictsMet ==
    \A w \in Workers :
        pc[w] = "fail" /\ code[w] = "job_result_conflict" /\ ClaimHeld(w) => ReportMoved(at[w])

ErrorsAreFinal == \A j \in Jobs : error[j] # "none" => state[j] = "failed"

Bookkept == /\ ClaimsNumbered /\ MarkedBeforeCall /\ CallsAccounted
            /\ RepeatRiskRecorded /\ BasesBehind /\ SplitReads /\ ConflictsMet
            /\ ErrorsAreFinal /\ ConflictIsReal

JInv == Inv /\ Bookkept /\ ResultsNeverOverwrite

\* Nothing is claimed, called or in conflict at the start.
LEMMA InitBookkept == Init => Bookkept
  BY DEF Init, Bookkept, ClaimsNumbered, MarkedBeforeCall, CallsAccounted,
         RepeatRiskRecorded, BasesBehind, SplitReads, ConflictsMet, ErrorsAreFinal,
         ConflictIsReal, Docs

\* What a request may do without touching the books: rest, end, be delivered a
\* job, or go on to a point that is not the provider, a split save or a conflict.
Steps(w) ==
    \/ /\ pc'[w] = pc[w] /\ at'[w] = at[w] /\ held'[w] = held[w]
       /\ code'[w] = code[w] /\ seen'[w] = seen[w]
    \/ pc'[w] = "idle" /\ held'[w] = 0
    \/ pc[w] = "idle" /\ pc'[w] = "claim" /\ held'[w] = held[w]
    \/ /\ pc[w] # "idle" /\ at'[w] = at[w] /\ held'[w] = held[w]
       /\ pc'[w] \in Points \ {"idle", "engine", "saving", "fail"}
    \/ /\ pc[w] # "idle" /\ at'[w] = at[w] /\ held'[w] = held[w]
       /\ pc'[w] = "fail" /\ code'[w] # "job_result_conflict"

EveryoneSteps == \A w \in Workers : Steps(w)
DocsAdvance   == \A d \in Docs : cur'[d] >= cur[d]
RowsKept      == UNCHANGED <<token, attempts, base, bases, started, calls, risks>>

\* The requests of Steps keep their numbers.
LEMMA NumbersStay ==
  ASSUME TypeOK, TypeOK', ClaimsNumbered, EveryoneSteps, UNCHANGED attempts,
         \A j \in Jobs : state'[j] = "running" => state[j] = "running" /\ token'[j] = token[j]
  PROVE  ClaimsNumbered'
  <1>0. /\ \A w \in Workers : held[w] \in Nat /\ held'[w] \in Nat
        /\ \A w \in Workers : pc[w] # "idle" => at[w] \in Jobs
        /\ \A w \in Workers : pc'[w] # "idle" => at'[w] \in Jobs
        /\ \A j \in Jobs : attempts[j] \in Nat
    BY DEF TypeOK, RequestsTyped, RowsTyped
  <1>1. \A w \in Workers : IF pc'[w] = "idle" THEN held'[w] = 0
                                              ELSE held'[w] <= attempts'[at'[w]]
    BY <1>0 DEF ClaimsNumbered, EveryoneSteps, Steps
  <1>2. \A w \in Workers : pc'[w] # "idle" /\ held'[w] > 0 =>
          pc[w] # "idle" /\ at'[w] = at[w] /\ held'[w] = held[w]
    BY <1>0 DEF ClaimsNumbered, EveryoneSteps, Steps
  <1>3. \A v, w \in Workers : pc'[v] # "idle" /\ pc'[w] # "idle" /\ at'[v] = at'[w]
                              /\ held'[v] = held'[w] /\ held'[v] > 0 => v = w
    BY <1>2 DEF ClaimsNumbered
  <1>4. \A j \in Jobs : state'[j] = "running" => token'[j] = attempts'[j] /\ attempts'[j] > 0
    BY DEF ClaimsNumbered
  <1> QED BY <1>1, <1>3, <1>4 DEF ClaimsNumbered

\* Steps that leave the rows and the books alone, whatever documents are saved.
LEMMA BooksStay ==
  ASSUME TypeOK, TypeOK', Bookkept, EveryoneSteps, DocsAdvance, RowsKept,
         UNCHANGED <<state, error>>
  PROVE  Bookkept'
  <1>0. /\ \A w \in Workers : pc[w] # "idle" => at[w] \in Jobs
        /\ \A j \in Jobs : base[j] \in Nat /\ \A r \in Reports : bases[j][r] \in Nat
        /\ \A d \in Docs : cur[d] \in Nat /\ cur'[d] \in Nat
        /\ Incident \in Docs /\ Reports \subseteq Docs
        /\ \A w \in Workers : seen[w] \in Nat
    BY DEF TypeOK, RequestsTyped, RowsTyped, ContentTyped, Docs
  <1>1. ClaimsNumbered'
    BY NumbersStay DEF RowsKept, Bookkept
  <1>2. MarkedBeforeCall'
    BY DEF Bookkept, MarkedBeforeCall, ClaimHeld, EveryoneSteps, Steps, RowsKept
  <1>3. CallsAccounted' /\ RepeatRiskRecorded' /\ ErrorsAreFinal'
    BY DEF Bookkept, CallsAccounted, RepeatRiskRecorded, ErrorsAreFinal, RowsKept
  <1>4. BasesBehind'
    BY <1>0 DEF Bookkept, BasesBehind, RowsKept, DocsAdvance
  <1>5. SplitReads'
    <2> SUFFICES ASSUME NEW w \in Workers, pc'[w] = "saving"
                 PROVE  /\ InjectedContent /\ at'[w] \in Bound
                        /\ \A r \in Targets[at'[w]] : bases'[at'[w]][r] <= seen'[w]
                                                      /\ seen'[w] <= cur'[r]
      BY DEF SplitReads
    <2>1. pc[w] = "saving" /\ at'[w] = at[w] /\ seen'[w] = seen[w]
      BY DEF EveryoneSteps, Steps
    <2>2. Targets[at[w]] \subseteq Docs
      BY <1>0, <2>1, TargetsAreDocs
    <2> QED BY <1>0, <2>1, <2>2 DEF Bookkept, SplitReads, DocsAdvance, RowsKept
  <1>6. \A j \in Jobs : ReportMoved(j) => ReportMoved(j)'
    BY <1>0 DEF ReportMoved, RowsKept, DocsAdvance
  <1>7. ConflictsMet'
    BY <1>0, <1>6
       DEF Bookkept, ConflictsMet, ClaimHeld, EveryoneSteps, Steps, RowsKept
  <1>8. ConflictIsReal'
    BY <1>0, <1>6 DEF Bookkept, ConflictIsReal, ReportMoved, RowsKept, DocsAdvance
  <1> QED BY <1>1, <1>2, <1>3, <1>4, <1>5, <1>7, <1>8 DEF Bookkept

\* A running job ends or is given back: nobody holds its claim any more.
LEMMA ClaimEnds ==
  ASSUME TypeOK, TypeOK', Bookkept, EveryoneSteps, DocsAdvance,
         NEW j \in Jobs, NEW s \in States \ {"running"}, NEW c \in Codes,
         state[j] = "running",
         state' = [state EXCEPT ![j] = s], token' = [token EXCEPT ![j] = 0],
         UNCHANGED <<attempts, base, bases, started, calls, risks>>,
         error' = [error EXCEPT ![j] = c],
         c # "none" => s = "failed",
         c = "job_result_conflict" => ReportMoved(j) \/ cur[Incident] > base[j]
  PROVE  Bookkept'
  <1>0. /\ \A w \in Workers : pc[w] # "idle" => at[w] \in Jobs
        /\ \A i \in Jobs : base[i] \in Nat /\ \A r \in Reports : bases[i][r] \in Nat
        /\ \A d \in Docs : cur[d] \in Nat /\ cur'[d] \in Nat
        /\ Incident \in Docs /\ Reports \subseteq Docs
        /\ \A w \in Workers : seen[w] \in Nat
        /\ state \in [Jobs -> States] /\ error \in [Jobs -> Codes] /\ token \in [Jobs -> Nat]
    BY DEF TypeOK, RequestsTyped, RowsTyped, ContentTyped, Docs
  <1>1. ClaimsNumbered'
    BY <1>0, NumbersStay DEF Bookkept
  <1>2. \A w \in Workers : at[w] \in Jobs /\ ClaimHeld(w)' /\ at'[w] = at[w] /\ held'[w] = held[w]
                           => ClaimHeld(w)
    BY <1>0 DEF ClaimHeld
  <1>3. MarkedBeforeCall'
    BY <1>0, <1>2 DEF Bookkept, MarkedBeforeCall, EveryoneSteps, Steps
  <1>4. CallsAccounted' /\ RepeatRiskRecorded' /\ ErrorsAreFinal'
    BY <1>0 DEF Bookkept, CallsAccounted, RepeatRiskRecorded, ErrorsAreFinal
  <1>5. BasesBehind'
    BY <1>0 DEF Bookkept, BasesBehind, DocsAdvance
  <1>6. SplitReads'
    <2> SUFFICES ASSUME NEW w \in Workers, pc'[w] = "saving"
                 PROVE  /\ InjectedContent /\ at'[w] \in Bound
                        /\ \A r \in Targets[at'[w]] : bases'[at'[w]][r] <= seen'[w]
                                                      /\ seen'[w] <= cur'[r]
      BY DEF SplitReads
    <2>1. pc[w] = "saving" /\ at'[w] = at[w] /\ seen'[w] = seen[w]
      BY DEF EveryoneSteps, Steps
    <2>2. Targets[at[w]] \subseteq Docs
      BY <1>0, <2>1, TargetsAreDocs
    <2> QED BY <1>0, <2>1, <2>2 DEF Bookkept, SplitReads, DocsAdvance
  <1>7. \A i \in Jobs : ReportMoved(i) => ReportMoved(i)'
    BY <1>0 DEF ReportMoved, DocsAdvance
  <1>8. ConflictsMet'
    BY <1>0, <1>2, <1>7 DEF Bookkept, ConflictsMet, EveryoneSteps, Steps
  <1>9. ConflictIsReal'
    <2> SUFFICES ASSUME NEW i \in Jobs, error'[i] = "job_result_conflict"
                 PROVE  cur'[Incident] > base'[i] \/ ReportMoved(i)'
      BY DEF ConflictIsReal, ReportMoved
    <2>1. cur[Incident] > base[i] \/ ReportMoved(i)
      BY <1>0 DEF Bookkept, ConflictIsReal, ReportMoved
    <2> QED BY <1>0, <1>7, <2>1 DEF DocsAdvance
  <1> QED BY <1>1, <1>3, <1>4, <1>5, <1>6, <1>8, <1>9 DEF Bookkept

\* claim_job takes a new number, and turns a mark left behind into a risk.
LEMMA ClaimBooks ==
  ASSUME TypeOK, TypeOK', Bookkept, NEW w \in Workers, Claim(w)
  PROVE  Bookkept'
  <1> DEFINE j == at[w]
  <1> DEFINE n == attempts[j] + 1
  <1>0. /\ \A v \in Workers : pc[v] # "idle" => at[v] \in Jobs
        /\ pc \in [Workers -> Points] /\ held \in [Workers -> Nat]
        /\ state \in [Jobs -> States] /\ token \in [Jobs -> Nat]
        /\ attempts \in [Jobs -> Nat] /\ started \in [Jobs -> Nat]
        /\ risks \in [Jobs -> SUBSET Nat] /\ calls \in [Jobs -> SUBSET Nat]
        /\ j \in Jobs /\ n \in Nat /\ attempts[j] \in Nat /\ n > attempts[j]
    BY DEF TypeOK, RequestsTyped, RowsTyped, ObservedTyped, Claim
  <1>1. /\ pc[w] = "claim" /\ Claimable(j)
        /\ state' = [state EXCEPT ![j] = "running"] /\ attempts' = [attempts EXCEPT ![j] = n]
        /\ token' = [token EXCEPT ![j] = n] /\ started' = [started EXCEPT ![j] = 0]
        /\ risks' = [risks EXCEPT ![j] = IF started[j] # 0 THEN @ \cup {n} ELSE @]
        /\ held' = [held EXCEPT ![w] = n] /\ pc' = [pc EXCEPT ![w] = "preflight"]
        /\ UNCHANGED <<base, bases, error, at, code, seen, content, people, calls>>
    BY DEF Claim, Goto
  <1> HIDE DEF n, j
  <1>2. \A v \in Workers \ {w} : pc[v] # "idle" /\ at[v] = j => held[v] < n
    BY <1>0 DEF Bookkept, ClaimsNumbered
  <1>3. ClaimsNumbered'
    <2>1. \A i \in Jobs : state'[i] = "running" => token'[i] = attempts'[i] /\ attempts'[i] > 0
      BY <1>0, <1>1 DEF Bookkept, ClaimsNumbered
    <2>2. \A v \in Workers : IF pc'[v] = "idle" THEN held'[v] = 0
                                                ELSE held'[v] <= attempts'[at'[v]]
      <3> TAKE v \in Workers
      <3>1. CASE v = w
        BY <1>0, <1>1, <3>1 DEF j
      <3>2. CASE v # w
        BY <1>0, <1>1, <3>2 DEF Bookkept, ClaimsNumbered
      <3> QED BY <3>1, <3>2
    <2>3. ASSUME NEW u \in Workers, NEW v \in Workers, pc'[u] # "idle", pc'[v] # "idle",
                 at'[u] = at'[v], held'[u] = held'[v], held'[u] > 0
          PROVE  u = v
      <3>1. CASE u # w /\ v # w
        BY <1>0, <1>1, <2>3, <3>1 DEF Bookkept, ClaimsNumbered
      <3>2. CASE u = w /\ v # w
        BY <1>0, <1>1, <1>2, <2>3, <3>2 DEF j
      <3>3. CASE v = w /\ u # w
        BY <1>0, <1>1, <1>2, <2>3, <3>3 DEF j
      <3> QED BY <3>1, <3>2, <3>3
    <2> QED BY <2>1, <2>2, <2>3 DEF ClaimsNumbered
  <1>4. \A v \in Workers \ {w} : pc[v] # "idle" /\ ClaimHeld(v)' => at[v] # j /\ ClaimHeld(v)
    BY <1>0, <1>1, <1>2 DEF ClaimHeld
  <1>5. MarkedBeforeCall'
    <2> SUFFICES ASSUME NEW v \in Workers, pc'[v] = "engine", ClaimHeld(v)'
                 PROVE  started'[at'[v]] # 0
      BY DEF MarkedBeforeCall
    <2>1. v # w /\ pc[v] = "engine"
      BY <1>0, <1>1
    <2>2. at[v] # j /\ ClaimHeld(v) /\ at[v] \in Jobs
      BY <1>0, <1>4, <2>1
    <2> QED BY <1>0, <1>1, <2>1, <2>2 DEF Bookkept, MarkedBeforeCall
  <1>6. CallsAccounted'
    <2> SUFFICES ASSUME NEW i \in Jobs
                 PROVE  /\ \A a \in calls'[i] : a > 0 /\ a <= attempts'[i]
                        /\ \A a \in calls'[i] : a < attempts'[i] =>
                             \E c \in risks'[i] : a < c /\ c <= attempts'[i]
                        /\ attempts'[i] \in calls'[i] => started'[i] # 0
      BY DEF CallsAccounted
    <2>1. CASE i # j
      BY <1>0, <1>1, <2>1 DEF Bookkept, CallsAccounted
    <2>2. CASE i = j
      <3>1. \A a \in calls[j] : a \in Nat /\ a > 0 /\ a <= attempts[j]
        BY <1>0 DEF Bookkept, CallsAccounted
      <3>2. attempts'[j] = n /\ calls'[j] = calls[j] /\ risks[j] \subseteq risks'[j]
            /\ (started[j] # 0 => n \in risks'[j]) /\ risks[j] \in SUBSET Nat
        BY <1>0, <1>1
      <3>3. ASSUME NEW a \in calls[j] PROVE \E c \in risks'[j] : a < c /\ c <= n
        <4>1. CASE a < attempts[j]
          <5>1. PICK c \in risks[j] : a < c /\ c <= attempts[j]
            BY <1>0, <4>1 DEF Bookkept, CallsAccounted
          <5> QED BY <1>0, <3>2, <5>1
        <4>2. CASE a = attempts[j]
          BY <1>0, <3>2, <4>2 DEF Bookkept, CallsAccounted
        <4> QED BY <1>0, <3>1, <4>1, <4>2
      <3> QED BY <1>0, <2>2, <3>1, <3>2, <3>3
    <2> QED BY <2>1, <2>2
  <1>7. RepeatRiskRecorded'
    <2>1. \A i \in Jobs : risks[i] \subseteq risks'[i] /\ calls'[i] = calls[i]
      BY <1>0, <1>1
    <2> QED BY <2>1 DEF Bookkept, RepeatRiskRecorded
  <1>8. BasesBehind' /\ ErrorsAreFinal' /\ ConflictIsReal'
    BY <1>0, <1>1
       DEF Bookkept, BasesBehind, ErrorsAreFinal, ConflictIsReal, content,
           Claimable
  <1>9. SplitReads'
    BY <1>0, <1>1 DEF Bookkept, SplitReads, content
  <1>10. ConflictsMet'
    <2> SUFFICES ASSUME NEW v \in Workers, pc'[v] = "fail", code'[v] = "job_result_conflict",
                        ClaimHeld(v)'
                 PROVE  ReportMoved(at[v])'
      BY <1>1 DEF ConflictsMet
    <2>1. v # w /\ pc[v] = "fail" /\ ClaimHeld(v)
      BY <1>0, <1>1, <1>4
    <2> QED BY <1>1, <2>1 DEF Bookkept, ConflictsMet, ReportMoved, content
  <1> QED BY <1>3, <1>5, <1>6, <1>7, <1>8, <1>9, <1>10 DEF Bookkept

\* Whoever holds the current claim of a job is the only one to hold it.
LEMMA OneHolder ==
  ASSUME TypeOK, ClaimsNumbered, NEW v \in Workers, NEW w \in Workers,
         pc[v] # "idle", pc[w] # "idle", ClaimHeld(v), ClaimHeld(w), at[v] = at[w]
  PROVE  v = w
  <1>1. at[w] \in Jobs /\ held[v] = held[w] /\ held[w] > 0
    BY DEF TypeOK, RequestsTyped, ClaimHeld, ClaimsNumbered
  <1> QED BY <1>1 DEF ClaimsNumbered

\* _preflight records the revisions as they are, under the current claim.
LEMMA PreflightBooks ==
  ASSUME TypeOK, TypeOK', Bookkept, NEW w \in Workers, pc[w] = "preflight",
         ClaimHeld(w), ~JobLocked(at[w]),
         bases' = [bases EXCEPT ![at[w]] =
                     [r \in Reports |-> IF r \in Targets[at[w]] THEN cur[r] ELSE 0]],
         UNCHANGED <<state, token, attempts, base, started, error, calls, risks, content>>,
         Move(w, "check")
  PROVE  Bookkept'
  <1> DEFINE j == at[w]
  <1> DEFINE recorded == [r \in Reports |-> IF r \in Targets[j] THEN cur[r] ELSE 0]
  <1>0. /\ \A v \in Workers : pc[v] # "idle" => at[v] \in Jobs
        /\ pc \in [Workers -> Points] /\ j \in Jobs
        /\ \A d \in Docs : cur[d] \in Nat
        /\ Reports \subseteq Docs
        /\ bases \in [Jobs -> [Reports -> Nat]]
        /\ state[j] = "running"
    BY DEF TypeOK, RequestsTyped, RowsTyped, ContentTyped, Docs, ClaimHeld
  <1>1. bases' = [bases EXCEPT ![j] = recorded] /\ \A r \in Reports : recorded[r] <= cur[r]
    BY <1>0
  <1>2. EveryoneSteps /\ UNCHANGED <<at, held, code, seen, cur>> /\ pc' = [pc EXCEPT ![w] = "check"]
    BY <1>0 DEF EveryoneSteps, Steps, Move, Goto, Points, content
  <1>a. recorded \in [Reports -> Nat]
    BY <1>0
  <1> HIDE DEF recorded
  <1>3. \A i \in Jobs : i # j => bases'[i] = bases[i]
    BY <1>0, <1>1
  <1>b. bases'[j] = recorded
    BY <1>0, <1>1
  <1>4. ClaimsNumbered'
    BY NumbersStay, <1>2 DEF Bookkept
  <1>5. MarkedBeforeCall'
    BY <1>0, <1>2 DEF Bookkept, MarkedBeforeCall, ClaimHeld
  <1>6. CallsAccounted' /\ RepeatRiskRecorded' /\ ErrorsAreFinal'
    BY DEF Bookkept, CallsAccounted, RepeatRiskRecorded, ErrorsAreFinal
  <1>7. BasesBehind'
    BY <1>0, <1>1, <1>2, <1>3, <1>b DEF Bookkept, BasesBehind
  <1>8. SplitReads'
    BY <1>0, <1>2, <1>3 DEF Bookkept, SplitReads, JobLocked, Holding
  <1>9. ConflictsMet'
    <2> SUFFICES ASSUME NEW v \in Workers, pc'[v] = "fail", code'[v] = "job_result_conflict",
                        ClaimHeld(v)'
                 PROVE  ReportMoved(at[v])'
      BY <1>2 DEF ConflictsMet
    <2>1. v # w /\ pc[v] = "fail" /\ ClaimHeld(v) /\ at[v] \in Jobs
      BY <1>0, <1>2 DEF ClaimHeld
    <2>2. at[v] # j
      BY <2>1, OneHolder DEF Bookkept
    <2> QED BY <1>2, <1>3, <2>1, <2>2 DEF Bookkept, ConflictsMet, ReportMoved
  <1>10. ConflictIsReal'
    <2>1. error[j] = "none" \/ error[j] # "job_result_conflict"
      BY <1>0 DEF Bookkept, ErrorsAreFinal
    <2> QED BY <1>0, <1>2, <1>3, <2>1 DEF Bookkept, ConflictIsReal
  <1> QED BY <1>4, <1>5, <1>6, <1>7, <1>8, <1>9, <1>10 DEF Bookkept

\* _mark_provider_started leaves the mark of the current claim.
LEMMA MarkBooks ==
  ASSUME TypeOK, TypeOK', Bookkept, NEW w \in Workers, MarkProviderStarted(w)
  PROVE  Bookkept'
  <1> DEFINE j == at[w]
  <1>0. /\ pc \in [Workers -> Points] /\ j \in Jobs /\ held[w] \in Nat
        /\ started \in [Jobs -> Nat] /\ pc[w] = "mark" /\ ClaimHeld(w)
        /\ \A v \in Workers : pc[v] # "idle" => at[v] \in Jobs
    BY DEF TypeOK, RequestsTyped, RowsTyped, MarkProviderStarted
  <1>1. /\ started' = [started EXCEPT ![j] = held[w]] /\ pc' = [pc EXCEPT ![w] = "engine"]
        /\ UNCHANGED <<state, token, attempts, base, bases, error, calls, risks,
                       at, held, code, seen, cur>>
    BY DEF MarkProviderStarted, Move, Goto, content, observed
  <1>2. held[w] # 0
    BY <1>0 DEF Bookkept, ClaimsNumbered, ClaimHeld
  <1>3. ClaimsNumbered'
    <2>1. \A v \in Workers : pc'[v] # "idle" <=> pc[v] # "idle"
      BY <1>0, <1>1
    <2> QED BY <1>1, <2>1 DEF Bookkept, ClaimsNumbered
  <1>4. MarkedBeforeCall'
    BY <1>0, <1>1, <1>2 DEF Bookkept, MarkedBeforeCall, ClaimHeld
  <1>5. CallsAccounted' /\ RepeatRiskRecorded'
    BY <1>0, <1>1, <1>2 DEF Bookkept, CallsAccounted, RepeatRiskRecorded
  <1>6. BasesBehind' /\ ErrorsAreFinal' /\ ConflictIsReal'
    BY <1>1 DEF Bookkept, BasesBehind, ErrorsAreFinal, ConflictIsReal
  <1>7. SplitReads' /\ ConflictsMet'
    BY <1>0, <1>1 DEF Bookkept, SplitReads, ConflictsMet, ReportMoved, ClaimHeld
  <1> QED BY <1>3, <1>4, <1>5, <1>6, <1>7 DEF Bookkept

\* _call_engine calls under the current number, which is marked; the calls of
\* earlier numbers have their risks already.
LEMMA CallBooks ==
  ASSUME TypeOK, TypeOK', Bookkept, NEW w \in Workers, CallEngine(w)
  PROVE  Bookkept'
  <1> DEFINE j == at[w]
  <1>0. /\ pc \in [Workers -> Points] /\ j \in Jobs /\ attempts[j] \in Nat
        /\ calls \in [Jobs -> SUBSET Nat] /\ risks \in [Jobs -> SUBSET Nat]
        /\ pc[w] = "engine" /\ ClaimHeld(w)
        /\ \A v \in Workers : pc[v] # "idle" => at[v] \in Jobs
    BY DEF TypeOK, RequestsTyped, RowsTyped, ObservedTyped, CallEngine
  <1>1. /\ held[w] = attempts[j] /\ attempts[j] > 0 /\ started[j] # 0
    BY <1>0 DEF Bookkept, ClaimsNumbered, MarkedBeforeCall, ClaimHeld
  <1>2. /\ calls' = [calls EXCEPT ![j] = @ \cup {attempts[j]}]
        /\ pc' = [pc EXCEPT ![w] = "calling"]
        /\ UNCHANGED <<state, token, attempts, base, bases, started, error, risks,
                       at, held, code, seen, cur>>
    BY <1>1 DEF CallEngine, Move, Goto, content, jobRow
  <1>3. ClaimsNumbered'
    <2>1. \A v \in Workers : pc'[v] # "idle" <=> pc[v] # "idle"
      BY <1>0, <1>2
    <2> QED BY <1>2, <2>1 DEF Bookkept, ClaimsNumbered
  <1>4. MarkedBeforeCall' /\ SplitReads' /\ ConflictsMet'
    BY <1>0, <1>2 DEF Bookkept, MarkedBeforeCall, SplitReads, ConflictsMet,
                      ReportMoved, ClaimHeld
  <1>5. BasesBehind' /\ ErrorsAreFinal' /\ ConflictIsReal'
    BY <1>2 DEF Bookkept, BasesBehind, ErrorsAreFinal, ConflictIsReal
  <1>6. \A i \in Jobs : calls'[i] = IF i = j THEN calls[j] \cup {attempts[j]} ELSE calls[i]
    BY <1>0, <1>2
  <1>7. CallsAccounted'
    BY <1>0, <1>1, <1>2, <1>6 DEF Bookkept, CallsAccounted
  <1>8. RepeatRiskRecorded'
    <2> SUFFICES ASSUME NEW i \in Jobs, NEW a \in calls'[i], NEW b \in calls'[i], a < b
                 PROVE  \E c \in risks[i] : a < c /\ c <= b
      BY <1>2 DEF RepeatRiskRecorded
    <2>1. CASE a \in calls[i] /\ b \in calls[i]
      BY <2>1 DEF Bookkept, RepeatRiskRecorded
    <2>2. CASE i = j /\ b = attempts[j] /\ a \in calls[j]
      BY <1>0, <2>2 DEF Bookkept, CallsAccounted
    <2>3. CASE i = j /\ a = attempts[j]
      <3>1. \A x \in calls'[j] : x \in Nat /\ x <= attempts[j]
        BY <1>0, <1>6 DEF Bookkept, CallsAccounted
      <3> QED BY <1>0, <2>3, <3>1
    <2> QED BY <1>6, <2>1, <2>2, <2>3
  <1> QED BY <1>3, <1>4, <1>5, <1>7, <1>8 DEF Bookkept

\* A conflict that an application met in a report is carried to the row.
LEMMA ConflictCarried ==
  ASSUME TypeOK, TypeOK', Bookkept, NEW w \in Workers, pc[w] # "idle", ReportMoved(at[w]),
         FailWith(w, "job_result_conflict"), UNCHANGED <<jobRow, content, observed>>
  PROVE  Bookkept'
  <1>0. /\ pc \in [Workers -> Points] /\ code \in [Workers -> Codes]
        /\ \A v \in Workers : pc[v] # "idle" => at[v] \in Jobs
    BY DEF TypeOK, RequestsTyped
  <1>1. /\ pc' = [pc EXCEPT ![w] = "fail"] /\ code' = [code EXCEPT ![w] = "job_result_conflict"]
        /\ UNCHANGED <<state, token, attempts, base, bases, started, error, calls, risks,
                       at, held, seen, cur>>
    BY DEF FailWith, Goto, content, observed, jobRow
  <1>2. ClaimsNumbered'
    <2>1. \A v \in Workers : pc'[v] # "idle" <=> pc[v] # "idle"
      BY <1>0, <1>1
    <2> QED BY <1>1, <2>1 DEF Bookkept, ClaimsNumbered
  <1>3. MarkedBeforeCall' /\ SplitReads'
    BY <1>0, <1>1 DEF Bookkept, MarkedBeforeCall, SplitReads, ClaimHeld
  <1>4. ConflictsMet'
    BY <1>0, <1>1 DEF Bookkept, ConflictsMet, ReportMoved, ClaimHeld
  <1>5. CallsAccounted' /\ RepeatRiskRecorded' /\ BasesBehind' /\ ErrorsAreFinal' /\ ConflictIsReal'
    BY <1>1
       DEF Bookkept, CallsAccounted, RepeatRiskRecorded, BasesBehind, ErrorsAreFinal,
           ConflictIsReal
  <1> QED BY <1>2, <1>3, <1>4, <1>5 DEF Bookkept

\* An injected engine's report is read at or after its base.
LEMMA OpeningBooks ==
  ASSUME TypeOK, TypeOK', Bookkept, NEW w \in Workers, pc[w] = "applying", at[w] \in Bound,
         InjectedContent, NEW r \in Targets[at[w]], seen' = [seen EXCEPT ![w] = cur[r]],
         Goto(w, "saving"), UNCHANGED <<jobRow, at, held, code, content, observed>>
  PROVE  Bookkept'
  <1>0. /\ pc \in [Workers -> Points] /\ seen \in [Workers -> Nat]
        /\ \A v \in Workers : pc[v] # "idle" => at[v] \in Jobs
        /\ at[w] \in Jobs /\ Targets[at[w]] = {r} /\ r \in Reports
        /\ cur[r] \in Nat
    BY JobPipelineAssumption DEF TypeOK, RequestsTyped, ContentTyped, Docs
  <1>1. /\ pc' = [pc EXCEPT ![w] = "saving"]
        /\ UNCHANGED <<state, token, attempts, base, bases, started, error, calls, risks,
                       at, held, code, cur>>
    BY DEF Goto, content, observed, jobRow
  <1>2. ClaimsNumbered'
    <2>1. \A v \in Workers : pc'[v] # "idle" <=> pc[v] # "idle"
      BY <1>0, <1>1
    <2> QED BY <1>1, <2>1 DEF Bookkept, ClaimsNumbered
  <1>3. SplitReads'
    <2>1. bases[at[w]][r] <= cur[r]
      BY <1>0 DEF Bookkept, BasesBehind
    <2>2. \A v \in Workers : v # w /\ pc'[v] = "saving" => pc[v] = "saving" /\ seen'[v] = seen[v]
      BY <1>0, <1>1
    <2>3. seen'[w] = cur[r]
      BY <1>0
    <2> QED BY <1>0, <1>1, <2>1, <2>2, <2>3 DEF Bookkept, SplitReads
  <1>4. MarkedBeforeCall' /\ ConflictsMet'
    BY <1>0, <1>1
       DEF Bookkept, MarkedBeforeCall, ConflictsMet, ReportMoved, ClaimHeld
  <1>5. CallsAccounted' /\ RepeatRiskRecorded' /\ BasesBehind' /\ ErrorsAreFinal' /\ ConflictIsReal'
    BY <1>1
       DEF Bookkept, CallsAccounted, RepeatRiskRecorded, BasesBehind, ErrorsAreFinal,
           ConflictIsReal
  <1> QED BY <1>2, <1>3, <1>4, <1>5 DEF Bookkept

\* A document that is published, saved or left alone does not go back.
LEMMA PublishAdvances ==
  ASSUME TypeOK, NEW j \in Jobs, Publish(j)
  PROVE  DocsAdvance
  BY DEF TypeOK, ContentTyped, Publish, DocsAdvance

LEMMA DocsRest == TypeOK /\ UNCHANGED content => DocsAdvance
  BY DEF TypeOK, ContentTyped, content, DocsAdvance

\* Publishing ends the claim.
LEMMA PublishBooks ==
  ASSUME Inv, TypeOK', Bookkept, NEW w \in Workers, pc[w] # "idle", state[at[w]] = "running",
         Publish(at[w]), Move(w, "ack"), UNCHANGED observed
  PROVE  Bookkept'
  <1> DEFINE j == at[w]
  <1>0. j \in Jobs /\ pc \in [Workers -> Points] /\ error \in [Jobs -> Codes] /\ TypeOK
    BY DEF Inv, TypeOK, RequestsTyped, RowsTyped
  <1>1. EveryoneSteps
    BY <1>0 DEF EveryoneSteps, Steps, Move, Goto, Points
  <1>2. DocsAdvance
    BY <1>0, PublishAdvances
  <1>3. error[j] = "none"
    BY <1>0 DEF Bookkept, ErrorsAreFinal
  <1>4. error' = [error EXCEPT ![j] = "none"]
    BY <1>0, <1>3 DEF Publish
  <1>5. /\ state' = [state EXCEPT ![j] = "succeeded"] /\ token' = [token EXCEPT ![j] = 0]
        /\ UNCHANGED <<attempts, base, bases, started, calls, risks>>
    BY DEF Publish, observed
  <1>6. "succeeded" \in States \ {"running"} /\ "none" \in Codes
    BY DEF States, Terminal, Codes
  <1> HIDE DEF j
  <1> QED BY <1>0, <1>1, <1>2, <1>4, <1>5, <1>6, ClaimEnds DEF j

\* Failing the row of a running job ends the claim too.
LEMMA FailRowBooks ==
  ASSUME Inv, TypeOK', Bookkept, NEW w \in Workers, pc[w] # "idle", state[at[w]] = "running",
         NEW c \in Codes, FailRow(at[w], c), NEW p \in {"ack", "check"}, Move(w, p),
         UNCHANGED <<content, observed>>,
         c = "job_result_conflict" => ReportMoved(at[w]) \/ cur[Incident] > base[at[w]]
  PROVE  Bookkept'
  <1> DEFINE j == at[w]
  <1>0. j \in Jobs /\ pc \in [Workers -> Points] /\ TypeOK
    BY DEF Inv, TypeOK, RequestsTyped
  <1>1. EveryoneSteps
    BY <1>0 DEF EveryoneSteps, Steps, Move, Goto, Points
  <1>2. DocsAdvance
    BY <1>0, DocsRest
  <1>3. /\ state' = [state EXCEPT ![j] = "failed"] /\ token' = [token EXCEPT ![j] = 0]
        /\ error' = [error EXCEPT ![j] = c]
        /\ UNCHANGED <<attempts, base, bases, started, calls, risks>>
    BY DEF FailRow, observed
  <1>4. "failed" \in States \ {"running"}
    BY DEF States, Terminal
  <1>5. c = "job_result_conflict" => ReportMoved(j) \/ cur[Incident] > base[j]
    OBVIOUS
  <1>6. state[j] = "running"
    OBVIOUS
  <1> HIDE DEF j
  <1> QED BY <1>0, <1>1, <1>2, <1>3, <1>4, <1>5, <1>6, ClaimEnds

\* The incident is never behind the base of a job, so a base that is not
\* current has been passed.
LEMMA BasePassed ==
  ASSUME TypeOK, BasesBehind, NEW j \in Jobs, ~BaseIsCurrent(j)
  PROVE  cur[Incident] > base[j]
  <1>1. Incident \in Docs
    BY DEF Docs
  <1>2. cur[Incident] \in Nat /\ base[j] \in Nat
    BY <1>1 DEF TypeOK, RowsTyped, ContentTyped
  <1>3. base[j] <= cur[Incident] /\ cur[Incident] # base[j]
    BY DEF BasesBehind, BaseIsCurrent
  <1> QED BY <1>2, <1>3

\* Whatever save_report is refused as a conflict has moved past its base.
LEMMA RefusalMeetsConflict ==
  ASSUME TypeOK, BasesBehind, NEW j \in Jobs, Targets[j] \subseteq Reports,
         NEW rev \in [Reports -> Nat],
         \A r \in Targets[j] : bases[j][r] <= rev[r] /\ rev[r] <= cur[r],
         Refusal(j, rev, "job_result_conflict")
  PROVE  ReportMoved(j)
  <1>0. \A r \in Reports : cur[r] \in Nat /\ bases[j][r] \in Nat /\ rev[r] \in Nat
    BY DEF TypeOK, RowsTyped, ContentTyped, Docs
  <1>1. CASE Unrecorded(j)
    BY <1>0, <1>1 DEF Unrecorded, ReportMoved
  <1>2. CASE Moved(j, rev)
    BY <1>0, <1>2 DEF Moved, ReportMoved
  <1> QED BY <1>1, <1>2 DEF Refusal

\* A request that only goes on, without touching rows and documents.
LEMMA MovesOn ==
  ASSUME Inv, TypeOK', Bookkept, NEW w \in Workers, pc[w] # "idle",
         UNCHANGED <<jobRow, content, observed>>,
         \/ \E p \in Points \ {"idle", "engine", "saving", "fail"} : Move(w, p)
         \/ \E c \in Codes \ {"job_result_conflict"} : FailWith(w, c)
  PROVE  Bookkept'
  <1>0. pc \in [Workers -> Points] /\ code \in [Workers -> Codes] /\ TypeOK
    BY DEF Inv, TypeOK, RequestsTyped
  <1>1. EveryoneSteps
    BY <1>0 DEF EveryoneSteps, Steps, Move, FailWith, Goto
  <1>2. DocsAdvance
    BY <1>0, DocsRest
  <1> QED BY <1>0, <1>1, <1>2, BooksStay DEF RowsKept, jobRow, observed

\* What the application does to the books once it has the incident.
LEMMA ApplyBooks ==
  ASSUME Inv, TypeOK', Bookkept, NEW w \in Workers, Apply(w)
  PROVE  Bookkept'
  <1> DEFINE j == at[w]
  <1>0. /\ TypeOK /\ pc[w] = "applying" /\ j \in Jobs /\ state[j] = "running"
        /\ UNCHANGED observed /\ BasesBehind
    BY
       DEF Apply, OpenApplicationIsolated, Holding, Inv, TypeOK, RequestsTyped,
           Bookkept
  <1>1. CASE Publish(j) /\ Move(w, "ack")
    BY <1>0, <1>1, PublishBooks
  <1>2. CASE Unpublished /\ UNCHANGED jobRow /\ FailWith(w, "job_authorization_invalid")
    BY <1>0, <1>2, MovesOn DEF Unpublished, Codes
  <1>3. CASE Unpublished /\ Move(w, "ack") /\ FailRow(j, "job_result_conflict")
             /\ ~BaseIsCurrent(j)
    BY <1>0, <1>3, BasePassed, FailRowBooks DEF Unpublished, Codes
  <1>4. ASSUME NEW c \in Codes, Refusal(j, cur, c), FailWith(w, c), UNCHANGED jobRow, Unpublished,
               Targets[j] # {Incident}
        PROVE  Bookkept'
    <2>1. CASE c # "job_result_conflict"
      BY <1>0, <1>4, <2>1, MovesOn DEF Unpublished
    <2>2. CASE c = "job_result_conflict"
      <3> DEFINE rev == [r \in Reports |-> cur[r]]
      <3>0. Targets[j] \subseteq Reports
        BY <1>0, <1>4, JobPipelineAssumption
      <3>1. \A r \in Reports : cur[r] \in Nat /\ bases[j][r] \in Nat
        BY <1>0 DEF TypeOK, ContentTyped, RowsTyped, Docs
      <3>2. /\ rev \in [Reports -> Nat] /\ Refusal(j, rev, c)
            /\ \A r \in Targets[j] : bases[j][r] <= rev[r] /\ rev[r] <= cur[r]
        BY <1>0, <1>4, <3>0, <3>1 DEF Refusal, Moved, BasesBehind
      <3> HIDE DEF rev
      <3>3. ReportMoved(j)
        BY <1>0, <2>2, <3>0, <3>2, RefusalMeetsConflict
      <3> QED BY <1>0, <1>4, <2>2, <3>3, ConflictCarried DEF Unpublished
    <2> QED BY <2>1, <2>2
  <1>5. CASE /\ InjectedContent /\ j \in Bound /\ Goto(w, "saving")
             /\ \E r \in Targets[j] : seen' = [seen EXCEPT ![w] = cur[r]]
             /\ UNCHANGED <<jobRow, at, held, code>> /\ Unpublished
    BY <1>0, <1>5, OpeningBooks DEF Unpublished
  <1> QED BY <1>1, <1>2, <1>3, <1>4, <1>5 DEF Apply

LEMMA SaveReportBooks ==
  ASSUME Inv, TypeOK', Bookkept, NEW w \in Workers, SaveReport(w)
  PROVE  Bookkept'
  <1> DEFINE j == at[w]
  <1> DEFINE rev == [r \in Reports |-> seen[w]]
  <1>0. /\ TypeOK /\ pc[w] = "saving" /\ j \in Jobs /\ state[j] = "running"
        /\ UNCHANGED observed /\ BasesBehind
        /\ rev \in [Reports -> Nat] /\ Targets[j] \subseteq Reports
        /\ \A r \in Targets[j] : bases[j][r] <= rev[r] /\ rev[r] <= cur[r]
    BY JobPipelineAssumption
       DEF SaveReport, Inv, TypeOK, RequestsTyped, OpenApplicationIsolated,
           Holding, Bookkept, SplitReads
  <1>1. CASE Publish(j) /\ Move(w, "ack")
    BY <1>0, <1>1, PublishBooks
  <1>2. ASSUME NEW c \in Codes, Refusal(j, rev, c), FailWith(w, c), UNCHANGED jobRow, Unpublished
        PROVE  Bookkept'
    <2> HIDE DEF rev
    <2>1. CASE c # "job_result_conflict"
      BY <1>0, <1>2, <2>1, MovesOn DEF Unpublished
    <2>2. CASE c = "job_result_conflict"
      <3>1. ReportMoved(j)
        BY <1>0, <1>2, <2>2, RefusalMeetsConflict
      <3> QED BY <1>0, <1>2, <2>2, <3>1, ConflictCarried DEF Unpublished
    <2> QED BY <2>1, <2>2
  <1> QED BY <1>1, <1>2 DEF SaveReport

\* The worker's transactions keep the books.
LEMMA WorkerBooks ==
  ASSUME Inv, TypeOK', Bookkept, NEW w \in Workers, WorkerStep(w) \/ DependencyError(w)
  PROVE  Bookkept'
  <1>0. /\ TypeOK /\ pc \in [Workers -> Points] /\ code[w] \in Codes
        /\ pc[w] # "idle" => at[w] \in Jobs
    BY DEF Inv, TypeOK, RequestsTyped
  <1>1. CASE ClaimMiss(w) \/ MissedRead(w) \/ StaleClaim(w) \/ CheckTerminal(w)
             \/ DependencyError(w) \/ EngineAnswers(w) \/ BeginApply(w)
    <2>1. /\ pc[w] # "idle" /\ UNCHANGED <<jobRow, content, observed>>
          /\ \/ \E p \in Points \ {"idle", "engine", "saving", "fail"} : Move(w, p)
             \/ \E c \in Codes \ {"job_result_conflict"} : FailWith(w, c)
      BY <1>1 DEF ClaimMiss, MissedRead, StaleClaim, CheckTerminal, DependencyError,
                  EngineAnswers, BeginApply, Points, Codes, Holding
    <2> QED BY <2>1, MovesOn
  <1>2. CASE Ack(w) \/ Nack(w)
    <2>1. Idle(w) /\ UNCHANGED <<jobRow, content, observed>>
      BY <1>2 DEF Ack, Nack, Refused
    <2>2. EveryoneSteps
      BY <1>0, <2>1 DEF EveryoneSteps, Steps, Idle, Goto, Inv, TypeOK, RequestsTyped
    <2> QED BY <1>0, <2>1, <2>2, DocsRest, BooksStay DEF RowsKept, jobRow, observed
  <1>3. CASE Preflight(w)
    <2>1. /\ pc[w] = "preflight" /\ ClaimHeld(w) /\ ~JobLocked(at[w])
          /\ UNCHANGED <<content, observed>>
      BY <1>3 DEF Preflight
    <2>2. state[at[w]] = "running" /\ BasesBehind
      BY <2>1 DEF ClaimHeld, Bookkept
    <2>3. CASE FailWith(w, "job_authorization_invalid") /\ UNCHANGED jobRow
      BY <2>1, <2>3, MovesOn DEF Codes
    <2>4. CASE /\ ~BaseIsCurrent(at[w]) /\ FailRow(at[w], "job_result_conflict")
               /\ Move(w, "check")
      BY <1>0, <2>1, <2>2, <2>4, BasePassed, FailRowBooks DEF Codes
    <2>5. CASE /\ bases' = [bases EXCEPT ![at[w]] =
                              [r \in Reports |-> IF r \in Targets[at[w]] THEN cur[r] ELSE 0]]
               /\ Move(w, "check")
               /\ UNCHANGED <<state, token, expired, attempts, base, started, error>>
      BY <1>0, <2>1, <2>5, PreflightBooks DEF observed
    <2> QED BY <1>3, <2>3, <2>4, <2>5 DEF Preflight
  <1>4. CASE MarkTerminal(w)
    <2>1. pc[w] = "fail" /\ UNCHANGED <<content, observed>>
      BY <1>4 DEF MarkTerminal
    <2>2. CASE UNCHANGED jobRow /\ (Move(w, "ack") \/ Move(w, "nack"))
      BY <2>1, <2>2, MovesOn DEF Points
    <2>3. CASE ClaimHeld(w) /\ FailRow(at[w], code[w]) /\ Move(w, "ack")
      <3>1. code[w] = "job_result_conflict" => ReportMoved(at[w])
        BY <2>1, <2>3 DEF Bookkept, ConflictsMet
      <3> QED BY <1>0, <2>1, <2>3, <3>1, FailRowBooks DEF ClaimHeld
    <2> QED BY <1>4, <2>2, <2>3 DEF MarkTerminal
  <1>5. CASE ReleaseTransient(w)
    <2> DEFINE j == at[w]
    <2>1. /\ pc[w] = "release" /\ Move(w, "nack") /\ j \in Jobs
          /\ UNCHANGED <<attempts, base, bases, started, error, content, observed>>
      BY <1>0, <1>5 DEF ReleaseTransient
    <2>2. CASE ~ClaimHeld(w)
      <3>1. UNCHANGED jobRow
        BY <1>5, <2>1, <2>2 DEF ReleaseTransient, jobRow
      <3> QED BY <2>1, <3>1, MovesOn DEF Points
    <2>3. CASE ClaimHeld(w)
      <3>1. EveryoneSteps
        BY <1>0, <2>1 DEF EveryoneSteps, Steps, Move, Goto, Points
      <3>2. DocsAdvance
        BY <1>0, <2>1, DocsRest
      <3>3. /\ state' = [state EXCEPT ![j] = "queued"] /\ token' = [token EXCEPT ![j] = 0]
            /\ state[j] = "running"
        BY <1>5, <2>3 DEF ReleaseTransient, ClaimHeld
      <3>4. error[j] = "none" /\ error' = [error EXCEPT ![j] = "none"]
        BY <1>0, <2>1, <3>3 DEF Bookkept, ErrorsAreFinal, TypeOK, RowsTyped
      <3>5. "queued" \in States \ {"running"} /\ "none" \in Codes
        BY DEF States, Terminal, Codes
      <3>6. UNCHANGED <<attempts, base, bases, started, calls, risks>>
        BY <2>1 DEF observed
      <3> HIDE DEF j
      <3> QED BY <1>0, <2>1, <3>1, <3>2, <3>3, <3>4, <3>5, <3>6, ClaimEnds
    <2> QED BY <2>2, <2>3
  <1> QED BY <1>0, <1>1, <1>2, <1>3, <1>4, <1>5, ClaimBooks, MarkBooks, CallBooks,
             ApplyBooks, SaveReportBooks DEF WorkerStep

\* What people do moves documents forward and nothing else.
LEMMA PeopleBooks ==
  ASSUME TypeOK, TypeOK', Bookkept, PeopleStep
  PROVE  Bookkept'
  <1>1. UNCHANGED <<jobRow, request, observed>>
    BY DEF PeopleStep, UserSave, Transfer, SetActor
  <1>2. DocsAdvance
    BY DEF PeopleStep, UserSave, Transfer, SetActor, TypeOK, ContentTyped, Docs,
           DocsAdvance, content
  <1>3. EveryoneSteps
    BY <1>1 DEF EveryoneSteps, Steps, request
  <1> QED BY <1>1, <1>2, <1>3, BooksStay DEF RowsKept, jobRow, observed

\* Every step keeps the books.
LEMMA NextBooks ==
  ASSUME Inv, Inv', Bookkept, [Next]_vars
  PROVE  Bookkept'
  <1>0. /\ TypeOK /\ TypeOK' /\ pc \in [Workers -> Points] /\ at \in [Workers -> Jobs \cup {None}]
        /\ held \in [Workers -> Nat]
    BY DEF Inv, TypeOK, RequestsTyped
  <1>1. ASSUME NEW j \in Jobs, Submit(j) PROVE Bookkept'
    <2>1. /\ state[j] = "none" /\ state' = [state EXCEPT ![j] = "queued"]
          /\ base' = [base EXCEPT ![j] = cur[Incident]]
          /\ UNCHANGED <<token, attempts, bases, started, error, calls, risks, pc, at, held,
                         code, seen, cur>>
      BY <1>1 DEF Submit, NewJob, request, content, observed
    <2>2. /\ state \in [Jobs -> States] /\ base \in [Jobs -> Nat] /\ error[j] = "none"
          /\ Incident \in Docs /\ cur \in [Docs -> Nat]
      BY <1>0, <2>1
         DEF TypeOK, RowsTyped, ContentTyped, Docs, Bookkept, ErrorsAreFinal
    <2>3. \A w \in Workers : pc[w] # "idle" => at[w] \in Jobs
      BY <1>0 DEF TypeOK, RequestsTyped
    <2>4. \A i \in Jobs : state'[i] = "running" <=> state[i] = "running"
      BY <2>1, <2>2
    <2>5. ClaimsNumbered' /\ MarkedBeforeCall' /\ ConflictsMet' /\ SplitReads'
      BY <2>1, <2>3, <2>4
         DEF Bookkept, ClaimsNumbered, MarkedBeforeCall, ConflictsMet,
                              SplitReads, ClaimHeld, ReportMoved
    <2>6. CallsAccounted' /\ RepeatRiskRecorded' /\ ErrorsAreFinal'
      BY <2>1, <2>2 DEF Bookkept, CallsAccounted, RepeatRiskRecorded, ErrorsAreFinal
    <2>7. BasesBehind' /\ ConflictIsReal'
      BY <2>1, <2>2 DEF Bookkept, BasesBehind, ConflictIsReal
    <2> QED BY <2>5, <2>6, <2>7 DEF Bookkept
  <1>2. CASE \/ \E d \in Dispatchers : DispatcherStep(d)
             \/ \E j \in Jobs : LeaseExpires(j)
             \/ UNCHANGED vars
    <2>1. UNCHANGED <<state, token, attempts, base, bases, started, error, request,
                      content, observed>>
      BY <1>2 DEF DispatcherStep, ReadPending, Mark, DispatcherCrash, CreateTask,
                  LeaseExpires, vars, jobRow
    <2>2. EveryoneSteps
      BY <2>1 DEF EveryoneSteps, Steps, request
    <2> QED BY <1>0, <2>1, <2>2, DocsRest, BooksStay DEF RowsKept, observed
  <1>3. ASSUME NEW w \in Workers, NEW j \in Jobs, Deliver(w, j)
        PROVE  Bookkept'
    <2>1. EveryoneSteps
      BY <1>0, <1>3 DEF Deliver, EveryoneSteps, Steps, Goto
    <2> QED BY <1>0, <1>3, <2>1, DocsRest, BooksStay
               DEF Deliver, RowsKept, jobRow, observed
  <1>4. ASSUME NEW w \in Workers, WorkerCrash(w) PROVE Bookkept'
    <2>1. Idle(w) /\ UNCHANGED <<jobRow, content, observed>>
      BY <1>4 DEF WorkerCrash, Refused
    <2>2. EveryoneSteps
      BY <1>0, <2>1 DEF EveryoneSteps, Steps, Idle, Goto, TypeOK, RequestsTyped
    <2> QED BY <1>0, <2>1, <2>2, DocsRest, BooksStay DEF RowsKept, jobRow, observed
  <1> QED BY <1>0, <1>1, <1>2, <1>3, <1>4, WorkerBooks, PeopleBooks DEF Next

-----------------------------------------------------------------------------
(* Results on their bases, and for whom they are applied.                   *)

\* The base of a job and the bases of its reports, once it has succeeded.
FinalBase(j, d) == IF d = Incident THEN base[j] ELSE bases[j][d]

\* Who has a result among the revisions has succeeded.
LEMMA PublishedSucceeded ==
  ASSUME Inv, NEW h \in history, h.by \in Jobs
  PROVE  state[h.by] = "succeeded"
  <1>1. h.doc \in Docs /\ h \in {g \in history : g.by = h.by /\ g.doc = h.doc}
    BY DEF Inv, TypeOK, ContentTyped, Revision
  <1> QED BY <1>1 DEF Inv, ResultExactlyOnce

\* A step that writes no result leaves the results on their bases.
LEMMA OldResults ==
  ASSUME Inv, [Next]_vars, ResultsNeverOverwrite,
         NEW h \in history, h.by \in Jobs, ~(InjectedContent /\ h.by \in Bound)
  PROVE  h.n = 1 + FinalBase(h.by, h.doc)'
  <1>1. state[h.by] = "succeeded"
    BY PublishedSucceeded
  <1>2. bases'[h.by] = bases[h.by]
    BY <1>1, RowsFinal DEF RowFinal, Terminal
  <1>3. base'[h.by] = base[h.by]
    <2>1. ASSUME NEW j \in Jobs, Submit(j) PROVE base'[h.by] = base[h.by]
      BY <1>1, <2>1 DEF Submit, NewJob, Inv, TypeOK, RowsTyped
    <2>2. ASSUME ~\E j \in Jobs : Submit(j) PROVE UNCHANGED base
      <3>1. CASE \/ \E d \in Dispatchers : DispatcherStep(d)
                 \/ \E j \in Jobs : LeaseExpires(j)
                 \/ \E w \in Workers, j \in Jobs : Deliver(w, j)
                 \/ PeopleStep
                 \/ UNCHANGED vars
        BY <3>1 DEF DispatcherStep, ReadPending, Mark, DispatcherCrash, CreateTask,
                    LeaseExpires, Deliver, PeopleStep, UserSave, Transfer, SetActor,
                    vars, jobRow
      <3>2. ASSUME NEW w \in Workers, WorkerStep(w) \/ DependencyError(w) \/ WorkerCrash(w)
            PROVE  UNCHANGED base
        BY <3>2
           DEF WorkerStep, Claim, ClaimMiss, MissedRead, StaleClaim, Preflight,
               CheckTerminal, MarkProviderStarted, CallEngine, EngineAnswers,
               BeginApply, Apply, SaveReport, MarkTerminal, ReleaseTransient, Ack,
               Nack, DependencyError, WorkerCrash, Refused, FailRow, Publish, jobRow
      <3> QED BY <2>2, <3>1, <3>2 DEF Next
    <2> QED BY <2>1, <2>2
  <1> QED BY <1>2, <1>3 DEF ResultsNeverOverwrite, FinalBase

\* What a result saved in one step is put on is its base.
LEMMA PublishedOnBase ==
  ASSUME Inv, NEW j \in Jobs, Publish(j), BaseIsCurrent(j),
         Targets[j] = {Incident} \/ \A c \in Codes : ~Refusal(j, cur, c),
         NEW h \in history', h \notin history
  PROVE  h.by = j /\ h.n = 1 + FinalBase(j, h.doc)'
  <1>1. PICK d \in Targets[j] : h = [doc |-> d, n |-> cur[d] + 1, by |-> j]
    BY DEF Publish
  <1>2. cur \in [Docs -> Nat] /\ d \in Docs /\ cur[d] \in Nat
    BY TargetsAreDocs DEF Inv, TypeOK, ContentTyped
  <1>3. FinalBase(j, d)' = FinalBase(j, d)
    BY DEF Publish, FinalBase
  <1>4. cur[d] = FinalBase(j, d)
    <2>1. CASE d = Incident
      BY <2>1 DEF BaseIsCurrent, FinalBase
    <2>2. CASE d # Incident
      <3>1. \A c \in Codes : ~Refusal(j, cur, c)
        BY <2>2
      <3>2. ~Denied(j) /\ ~Moved(j, cur)
        BY <3>1 DEF Refusal, Codes
      <3> QED BY <2>2, <3>2 DEF Moved, FinalBase
    <2> QED BY <2>1, <2>2
  <1> QED BY <1>1, <1>2, <1>3, <1>4

\* New revisions are people's, an injected result's, or follow their base.
LEMMA NewResults ==
  ASSUME Inv, Bookkept, [Next]_vars, NEW h \in history', h \notin history, h.by \in Jobs,
         ~(InjectedContent /\ h.by \in Bound)
  PROVE  h.n = 1 + FinalBase(h.by, h.doc)'
  <1>1. ASSUME NEW w \in Workers, Apply(w)
        PROVE  h.n = 1 + FinalBase(h.by, h.doc)'
    <2>1. at[w] \in Jobs
      BY <1>1 DEF Apply, Inv, TypeOK, RequestsTyped
    <2>2. /\ Publish(at[w]) /\ BaseIsCurrent(at[w])
          /\ Targets[at[w]] = {Incident} \/ \A c \in Codes : ~Refusal(at[w], cur, c)
      BY <1>1 DEF Apply, Unpublished, content
    <2> QED BY <2>1, <2>2, PublishedOnBase
  <1>2. ASSUME NEW w \in Workers, SaveReport(w) PROVE FALSE
    <2>1. InjectedContent /\ at[w] \in Bound
      BY <1>2 DEF SaveReport, Bookkept, SplitReads
    <2>2. h.by = at[w]
      BY <1>2 DEF SaveReport, Unpublished, content, Publish
    <2> QED BY <2>1, <2>2
  <1>3. ASSUME PeopleStep PROVE FALSE
    BY <1>3, JobPipelineAssumption
       DEF PeopleStep, UserSave, Transfer, SetActor, content
  <1>4. ASSUME ~PeopleStep, ~\E w \in Workers : Apply(w) \/ SaveReport(w) PROVE FALSE
    <2>1. ASSUME NEW w \in Workers, WorkerStep(w) \/ DependencyError(w) \/ WorkerCrash(w)
          PROVE  UNCHANGED history
      BY <1>4, <2>1
         DEF WorkerStep, Claim, ClaimMiss, MissedRead, StaleClaim, Preflight,
             CheckTerminal, MarkProviderStarted, CallEngine, EngineAnswers,
             BeginApply, MarkTerminal, ReleaseTransient, Ack, Nack, DependencyError,
             WorkerCrash, Refused, content
    <2>2. UNCHANGED history
      BY <1>4, <2>1
         DEF Next, Submit, NewJob, LeaseExpires, DispatcherStep, ReadPending, Mark,
             DispatcherCrash, CreateTask, Deliver, vars, content
    <2> QED BY <2>2
  <1> QED BY <1>1, <1>2, <1>3, <1>4

\* The whole invariant.
LEMMA InitJInv == Init => JInv
  <1>1. Init => ResultsNeverOverwrite
    BY JobPipelineAssumption DEF Init, ResultsNeverOverwrite
  <1> QED BY <1>1, InitInv, InitBookkept DEF JInv

LEMMA NextJInv == JInv /\ [Next]_vars => JInv'
  <1> SUFFICES ASSUME JInv, [Next]_vars PROVE JInv'
    OBVIOUS
  <1>1. Inv' /\ Bookkept'
    BY NextInv, NextBooks DEF JInv
  <1>2. \A h \in history' : h.by \in Jobs /\ ~(InjectedContent /\ h.by \in Bound) =>
          h.n = 1 + FinalBase(h.by, h.doc)'
    BY OldResults, NewResults DEF JInv
  <1>3. ResultsNeverOverwrite'
    BY <1>2 DEF ResultsNeverOverwrite, FinalBase
  <1> QED BY <1>1, <1>3 DEF JInv

\* No second call of the provider for a job goes without a recorded risk, in
\* whatever order deliveries, claims, leases and crashes come.
THEOREM RepeatedCallsAreRecorded == Spec => []RepeatRiskRecorded
  <1>1. JInv => RepeatRiskRecorded
    BY DEF JInv, Bookkept
  <1> QED BY <1>1, InitJInv, NextJInv, PTL DEF Spec

\* A job that failed as a conflict met newer work, also when it was met by the
\* unlocked read of a split application or recorded by a later transaction.
THEOREM ConflictsAreReal == Spec => []ConflictIsReal
  <1>1. JInv => ConflictIsReal
    BY DEF JInv, Bookkept
  <1> QED BY <1>1, InitJInv, NextJInv, PTL DEF Spec

\* No result overwrites a save made since its base, by a user or by another job.
THEOREM ResultsStandOnTheirBase == Spec => []ResultsNeverOverwrite
  <1>1. JInv => ResultsNeverOverwrite
    BY DEF JInv
  <1> QED BY <1>1, InitJInv, NextJInv, PTL DEF Spec

\* A step that makes a job succeed finds its requester entitled.
LEMMA Entitled ==
  ASSUME Inv, [Next]_vars, NEW j \in Jobs,
         state[j] # "succeeded", state'[j] = "succeeded"
  PROVE  /\ \/ IncidentAuthorized
            \/ \E w \in Workers : pc[w] = "saving" /\ at[w] = j
         /\ \A r \in Targets[j] \cap Reports : cur[r] > 0 => access[r]
  <1>0. /\ state \in [Jobs -> States]
        /\ \A r \in Reports : bases[j][r] \in Nat
    BY DEF Inv, TypeOK, RowsTyped
  <1>1. ASSUME NEW i \in Jobs, Submit(i) PROVE FALSE
    BY <1>0, <1>1 DEF Submit, NewJob
  <1>2. ASSUME NEW w \in Workers,
               Claim(w) \/ Preflight(w) \/ MarkTerminal(w) \/ ReleaseTransient(w)
        PROVE  FALSE
    BY <1>0, <1>2
       DEF Claim, Preflight, MarkTerminal, ReleaseTransient, FailRow, jobRow
  <1>3. ASSUME NEW rev, \A c \in Codes : ~Refusal(j, rev, c)
        PROVE  \A r \in Targets[j] \cap Reports : cur[r] > 0 => access[r]
    <2>1. ~Denied(j) /\ ~Unrecorded(j)
      BY <1>3 DEF Refusal, Codes
    <2> QED BY <1>0, <2>1 DEF Denied, Unrecorded
  <1>4. ASSUME NEW w \in Workers, Apply(w)
        PROVE  /\ IncidentAuthorized
               /\ Targets[j] = {Incident} \/ \A c \in Codes : ~Refusal(j, cur, c)
    BY <1>0, <1>4 DEF Apply, FailRow, Publish, jobRow
  <1>5. ASSUME NEW w \in Workers, SaveReport(w)
        PROVE  /\ pc[w] = "saving" /\ at[w] = j
               /\ \A c \in Codes : ~Refusal(j, [r \in Reports |-> seen[w]], c)
    BY <1>0, <1>5 DEF SaveReport, Publish, jobRow
  <1> QED BY <1>1, <1>2, <1>3, <1>4, <1>5, RowsUntouched, JobPipelineAssumption

\* A request that takes its job's lock for the application finds the account active.
LEMMA BegunWhileActive ==
  ASSUME Inv, [Next]_vars, NEW w \in Workers, pc[w] \notin Holding, pc'[w] \in Holding
  PROVE  actorActive
  <1>0. pc \in [Workers -> Points]
    BY DEF Inv, TypeOK, RequestsTyped
  <1>1. ASSUME NEW v \in Workers, WorkerStep(v) \/ DependencyError(v) \/ WorkerCrash(v)
        PROVE  actorActive
    <2>1. CASE BeginApply(v)
      BY <1>0, <2>1 DEF BeginApply, FailWith, Goto, Holding
    <2>2. CASE Apply(v)
      <3>1. pc[v] \in Holding /\ \E p \in Points : Goto(v, p)
        BY <2>2 DEF Apply, Move, FailWith, Points, Holding
      <3> QED BY <1>0, <3>1 DEF Goto
    <2>3. CASE ~BeginApply(v) /\ ~Apply(v)
      <3>1. \E p \in Points \ Holding : Goto(v, p)
        BY <1>1, <2>3
           DEF WorkerStep, Claim, ClaimMiss, MissedRead, StaleClaim, Preflight,
               CheckTerminal, MarkProviderStarted, CallEngine, EngineAnswers,
               SaveReport, MarkTerminal, ReleaseTransient, Ack, Nack, DependencyError,
               WorkerCrash, Refused, Idle, Move, FailWith, Points, Holding
      <3> QED BY <1>0, <3>1 DEF Goto, Holding
    <2> QED BY <2>1, <2>2, <2>3
  <1>2. ASSUME NEW v \in Workers, NEW j \in Jobs, Deliver(v, j) PROVE FALSE
    BY <1>0, <1>2 DEF Deliver, Goto, Holding
  <1>3. ASSUME ~\E v \in Workers : WorkerStep(v) \/ DependencyError(v) \/ WorkerCrash(v),
               ~\E v \in Workers, j \in Jobs : Deliver(v, j)
        PROVE  UNCHANGED pc
    BY <1>3
       DEF Next, Submit, LeaseExpires, DispatcherStep, ReadPending, Mark,
           DispatcherCrash, CreateTask, PeopleStep, UserSave, Transfer, SetActor,
           vars, request
  <1> QED BY <1>1, <1>2, <1>3

\* Whoever was deactivated before the application began, or has lost access by
\* the time the locks are granted, gets no result applied.
THEOREM ResultsOnlyForTheEntitled == Spec => AppliedOnlyWhenEntitled
  <1>1. Inv /\ [Next]_vars =>
          [/\ \A w \in Workers : pc[w] \notin Holding /\ pc'[w] \in Holding => actorActive
           /\ \A j \in Jobs : state[j] # "succeeded" /\ state'[j] = "succeeded" =>
                /\ \/ IncidentAuthorized
                   \/ \E w \in Workers : pc[w] = "saving" /\ at[w] = j
                /\ \A r \in Targets[j] \cap Reports : cur[r] > 0 => access[r]]_vars
    BY Entitled, BegunWhileActive
  <1> QED BY <1>1, InitInv, NextInv, PTL DEF Spec, AppliedOnlyWhenEntitled

-----------------------------------------------------------------------------
(* No job is stranded while deliveries do not overlap.  A task is deleted    *)
(* only by an answer that was earned by an ended job; with overlapping       *)
(* deliveries the second read of _claim can earn it for a job that has just  *)
(* been given back, which is what the run job_duplicate_delivery shows.      *)

OneAtATime == \A v, w \in Workers : v = w

TasksKnown ==
    /\ \A j \in Jobs : state[j] # "none" <=> outbox[j] # "none"
    /\ \A j \in Jobs : task[j] # "none" => outbox[j] # "none"
    /\ \A j \in Jobs : outbox[j] = "dispatched" => task[j] # "none"
    /\ \A d \in Dispatchers : \A j \in batch[d] : outbox[j] # "none"
    /\ \A d \in Dispatchers : sent[d] # None =>
         /\ outbox[sent[d]] # "none"
         /\ outcome[d] = "dispatched" => task[sent[d]] # "none"

AcksEarned ==
    /\ \A j \in Jobs : task[j] = "acked" => state[j] \in Terminal
    /\ \A w \in Workers : pc[w] # "idle" => state[at[w]] # "none"
    /\ \A w \in Workers : pc[w] = "ack" => state[at[w]] \in Terminal
    /\ \A w \in Workers : pc[w] = "missed" => state[at[w]] \in Terminal \cup {"running"}

SInv == Inv /\ TasksKnown /\ AcksEarned

\* A job that was submitted stays so.
LEMMA SubmittedStays ==
  ASSUME Inv, [Next]_vars, NEW j \in Jobs, state[j] # "none"
  PROVE  state'[j] # "none"
  <1>0. state \in [Jobs -> States]
    BY DEF Inv, TypeOK, RowsTyped
  <1>1. ASSUME NEW i \in Jobs, Submit(i) PROVE state'[j] # "none"
    BY <1>0, <1>1 DEF Submit, NewJob
  <1>2. ASSUME NEW w \in Workers, Apply(w) \/ SaveReport(w) PROVE state'[j] # "none"
    BY <1>0, <1>2 DEF Apply, SaveReport, Publish, FailRow, jobRow
  <1>3. ASSUME NEW w \in Workers,
               Claim(w) \/ Preflight(w) \/ MarkTerminal(w) \/ ReleaseTransient(w)
        PROVE  state'[j] # "none"
    BY <1>0, <1>3
       DEF Claim, Preflight, MarkTerminal, ReleaseTransient, FailRow, jobRow
  <1> QED BY <1>1, <1>2, <1>3, RowsUntouched

\* A row is sent only when it exists, and dispatched only when its task does.
LEMMA NextTasksKnown ==
  ASSUME Inv, Inv', TasksKnown, [Next]_vars
  PROVE  TasksKnown'
  <1>0. /\ outbox \in [Jobs -> {"none", "pending", "dispatched", "failed"}]
        /\ task \in [Jobs -> {"none", "queued", "acked", "exhausted"}]
        /\ state \in [Jobs -> States] /\ at \in [Workers -> Jobs \cup {None}]
        /\ batch \in [Dispatchers -> SUBSET Jobs] /\ sent \in [Dispatchers -> Jobs \cup {None}]
        /\ outcome \in [Dispatchers -> Results \cup {"none"}] /\ None \notin Jobs
        /\ \A w \in Workers : pc[w] # "idle" => at[w] \in Jobs
    BY JobPipelineAssumption
       DEF Inv, TypeOK, QueueTyped, RowsTyped, RequestsTyped, DispatchTyped
  <1>1. ASSUME NEW j \in Jobs, Submit(j) PROVE TasksKnown'
    BY <1>0, <1>1 DEF Submit, NewJob, TasksKnown, queue, dispatch
  <1>2. ASSUME NEW d \in Dispatchers, DispatcherStep(d) PROVE TasksKnown'
    <2>0. UNCHANGED state
      BY <1>2
         DEF DispatcherStep, ReadPending, Mark, DispatcherCrash, CreateTask,
             jobRow
    <2>1. CASE ReadPending(d)
      BY <1>0, <2>1 DEF ReadPending, TasksKnown, queue, jobRow
    <2>2. CASE Mark(d)
      <3>1. sent[d] \in Jobs /\ outbox[sent[d]] # "none"
            /\ (outcome[d] = "dispatched" => task[sent[d]] # "none")
        BY <1>0, <2>2 DEF Mark, TasksKnown
      <3>2. outcome[d] \in {"dispatched", "retry", "failed"}
        BY <2>2 DEF Mark, Inv, TypeOK, DispatchTyped, Results
      <3>3. /\ \A j \in Jobs : outbox'[j] # "none" <=> outbox[j] # "none"
            /\ \A j \in Jobs : outbox'[j] = "dispatched" => task[j] # "none"
        BY <1>0, <2>2, <3>1, <3>2 DEF Mark, TasksKnown
      <3>4. UNCHANGED <<task, state, batch>> /\ sent' = [sent EXCEPT ![d] = None]
            /\ outcome' = [outcome EXCEPT ![d] = "none"]
        BY <2>0, <2>2 DEF Mark, queue
      <3> QED BY <1>0, <3>3, <3>4 DEF TasksKnown
    <2>3. CASE DispatcherCrash(d)
      BY <1>0, <2>3 DEF DispatcherCrash, TasksKnown, queue, jobRow
    <2>4. ASSUME NEW j \in Jobs, NEW result \in Results, CreateTask(d, j, result)
          PROVE  TasksKnown'
      <3>1. /\ sent' = [sent EXCEPT ![d] = j] /\ batch' = [batch EXCEPT ![d] = @ \ {j}]
            /\ outcome' = [outcome EXCEPT ![d] = result] /\ outbox[j] # "none"
            /\ UNCHANGED <<outbox, state>>
        BY <2>4 DEF CreateTask, TasksKnown, jobRow
      <3>2. /\ \A i \in Jobs : task'[i] = task[i] \/ (i = j /\ task'[i] = "queued")
            /\ result = "dispatched" => task'[j] # "none"
        BY <1>0, <2>4 DEF CreateTask
      <3> QED BY <1>0, <3>1, <3>2 DEF TasksKnown
    <2> QED BY <1>2, <2>1, <2>2, <2>3, <2>4 DEF DispatcherStep
  <1>3. ASSUME UNCHANGED <<outbox, dispatch>>,
               \A j \in Jobs : task'[j] = "none" <=> task[j] = "none",
               \A j \in Jobs : state[j] = "none" <=> state'[j] = "none"
        PROVE  TasksKnown'
    BY <1>0, <1>3 DEF TasksKnown, dispatch
  <1>4. ASSUME ~\E j \in Jobs : Submit(j), ~\E d \in Dispatchers : DispatcherStep(d)
        PROVE  TasksKnown'
    <2>1. UNCHANGED <<outbox, dispatch>>
      <3>1. ASSUME NEW w \in Workers, BeginApply(w) \/ Apply(w) \/ SaveReport(w)
            PROVE  UNCHANGED <<outbox, dispatch>>
        BY <3>1 DEF BeginApply, Apply, SaveReport
      <3> QED BY <1>4, <3>1
                 DEF Next, LeaseExpires, Deliver, WorkerStep, Claim, ClaimMiss,
                     MissedRead, StaleClaim, Preflight, CheckTerminal,
                     MarkProviderStarted, CallEngine, EngineAnswers, MarkTerminal,
                     ReleaseTransient, Ack, Nack, DependencyError, WorkerCrash,
                     Refused, PeopleStep, UserSave, Transfer, SetActor, vars
    <2>2. CASE \E w \in Workers : Ack(w) \/ Nack(w) \/ WorkerCrash(w)
      <3>1. PICK w \in Workers : Ack(w) \/ Nack(w) \/ WorkerCrash(w)
        BY <2>2
      <3>2. /\ at[w] \in Jobs /\ UNCHANGED state
            /\ \/ UNCHANGED task
               \/ /\ task[at[w]] = "queued"
                  /\ \E t \in {"acked", "exhausted"} : task' = [task EXCEPT ![at[w]] = t]
        BY <1>0, <3>1 DEF Ack, Nack, WorkerCrash, Refused, jobRow
      <3>3. \A j \in Jobs : task'[j] = "none" <=> task[j] = "none"
        BY <1>0, <3>2
      <3> QED BY <1>3, <2>1, <3>2, <3>3
    <2>3. CASE ~\E w \in Workers : Ack(w) \/ Nack(w) \/ WorkerCrash(w)
      <3>1. UNCHANGED task
        <4>1. ASSUME NEW w \in Workers, BeginApply(w) \/ Apply(w) \/ SaveReport(w)
              PROVE  UNCHANGED task
          BY <4>1 DEF BeginApply, Apply, SaveReport, queue
        <4> QED BY <1>4, <2>3, <4>1
                DEF Next, LeaseExpires, Deliver, WorkerStep, Claim, ClaimMiss, MissedRead,
                    StaleClaim, Preflight, CheckTerminal, MarkProviderStarted, CallEngine,
                    EngineAnswers, MarkTerminal, ReleaseTransient, DependencyError,
                    PeopleStep, UserSave, Transfer, SetActor, vars, queue
      <3>2. \A j \in Jobs : state[j] = "none" => state'[j] = "none"
        <4> SUFFICES ASSUME NEW j \in Jobs, state[j] = "none" PROVE state'[j] = "none"
          OBVIOUS
        <4>1. ASSUME NEW w \in Workers, Apply(w) \/ SaveReport(w) PROVE state'[j] = "none"
          BY <1>0, <4>1
             DEF Apply, SaveReport, Publish, FailRow, Holding, jobRow, Inv,
                            OpenApplicationIsolated
        <4>2. ASSUME NEW w \in Workers,
                     Claim(w) \/ Preflight(w) \/ MarkTerminal(w) \/ ReleaseTransient(w)
              PROVE  state'[j] = "none"
          BY <1>0, <4>2
             DEF Claim, Claimable, Preflight, MarkTerminal, ReleaseTransient,
                            FailRow, ClaimHeld, jobRow
        <4> QED BY <1>4, <4>1, <4>2, RowsUntouched
      <3> QED BY <1>3, <2>1, <3>1, <3>2, SubmittedStays
    <2> QED BY <2>2, <2>3
  <1> QED BY <1>1, <1>2, <1>4

\* Only a request that found its job ended answers so that the task is deleted.
LEMMA NextAcksEarned ==
  ASSUME OneAtATime, SInv, Inv', [Next]_vars
  PROVE  AcksEarned'
  <1>0. /\ task \in [Jobs -> {"none", "queued", "acked", "exhausted"}]
        /\ state \in [Jobs -> States] /\ at \in [Workers -> Jobs \cup {None}]
        /\ pc \in [Workers -> Points]
        /\ \A w \in Workers : pc[w] # "idle" => at[w] \in Jobs
        /\ \A w \in Workers : pc'[w] # "idle" => at'[w] \in Jobs
    BY DEF SInv, Inv, TypeOK, QueueTyped, RowsTyped, RequestsTyped
  <1>1. \A j \in Jobs : state[j] \in Terminal => state'[j] \in Terminal
    BY RowsFinal DEF SInv, RowFinal
  <1>2. \A j \in Jobs : state[j] # "none" => state'[j] # "none"
    BY SubmittedStays DEF SInv
  <1>3. \A j \in Jobs : task[j] # "none" => state[j] # "none"
    BY DEF SInv, TasksKnown
  \* a step of the one request there may be
  <1>4. ASSUME NEW w \in Workers, WorkerStep(w) \/ DependencyError(w) \/ WorkerCrash(w)
        PROVE  AcksEarned'
    <2> DEFINE j == at[w]
    <2>0. /\ pc[w] # "idle" /\ j \in Jobs /\ state[j] # "none" /\ state'[j] # "none"
          /\ Workers = {w}
      <3>1. pc[w] # "idle"
        BY <1>4
           DEF WorkerStep, Claim, ClaimMiss, MissedRead, StaleClaim, Preflight,
               CheckTerminal, MarkProviderStarted, CallEngine, EngineAnswers,
               BeginApply, Apply, SaveReport, MarkTerminal, ReleaseTransient, Ack,
               Nack, DependencyError, WorkerCrash, Holding
      <3> QED BY <1>0, <1>2, <3>1 DEF SInv, AcksEarned, OneAtATime
    <2>1. /\ pc'[w] # "idle" => at'[w] = j
          /\ \A i \in Jobs : task'[i] = "acked" => task[i] = "acked" \/ (i = j /\ pc[w] = "ack")
      BY <1>0, <1>4, <2>0
         DEF WorkerStep, Claim, ClaimMiss, MissedRead, StaleClaim, Preflight,
             CheckTerminal, MarkProviderStarted, CallEngine, EngineAnswers,
             BeginApply, Apply, SaveReport, MarkTerminal, ReleaseTransient, Ack, Nack,
             DependencyError, WorkerCrash, Refused, Idle, Move, FailWith, Goto, queue
    <2>2. pc'[w] = "missed" => state'[j] = state[j] /\ state[j] # "queued"
      BY <1>0, <1>4, <2>0
         DEF WorkerStep, Claim, ClaimMiss, MissedRead, StaleClaim, Preflight,
             CheckTerminal, MarkProviderStarted, CallEngine, EngineAnswers,
             BeginApply, Apply, SaveReport, MarkTerminal, ReleaseTransient, Ack, Nack,
             DependencyError, WorkerCrash, Refused, Idle, Move, FailWith, Goto, jobRow
    <2>3. pc'[w] = "ack" => state'[j] \in Terminal
      <3> SUFFICES ASSUME pc'[w] = "ack" PROVE state'[j] \in Terminal
        OBVIOUS
      <3>1. CASE MissedRead(w)
        BY <1>0, <1>1, <2>0, <3>1 DEF MissedRead, Move, Goto, SInv, AcksEarned
      <3>2. CASE CheckTerminal(w)
        BY <1>0, <1>1, <2>0, <3>2 DEF CheckTerminal, Move, Goto
      <3>3. CASE Apply(w)
        BY <1>0, <2>0, <3>3
           DEF Apply, Move, FailWith, Goto, FailRow, Publish, Terminal
      <3>4. CASE SaveReport(w)
        BY <1>0, <2>0, <3>4
           DEF SaveReport, Move, FailWith, Goto, FailRow, Publish, Terminal
      <3>5. CASE MarkTerminal(w)
        BY <1>0, <1>1, <2>0, <3>5 DEF MarkTerminal, Move, Goto, FailRow, Terminal
      <3> QED BY <1>0, <1>4, <2>0, <3>1, <3>2, <3>3, <3>4, <3>5
                 DEF WorkerStep, Claim, ClaimMiss, StaleClaim, Preflight,
                     MarkProviderStarted, CallEngine, EngineAnswers, BeginApply,
                     ReleaseTransient, Ack, Nack, DependencyError, WorkerCrash,
                     Refused, Idle, Move, FailWith, Goto
    <2>4. \A i \in Jobs : task'[i] = "acked" => state'[i] \in Terminal
      BY <1>1, <2>0, <2>1 DEF SInv, AcksEarned
    <2>5. pc'[w] = "missed" => state'[j] \in Terminal \cup {"running"}
      <3>1. state[j] \in {"queued", "running"} \cup Terminal
        BY <1>0, <2>0 DEF States
      <3> QED BY <2>2, <3>1
    <2> HIDE DEF j
    <2> QED BY <2>0, <2>1, <2>3, <2>4, <2>5 DEF AcksEarned
  <1>5. ASSUME NEW w \in Workers, NEW j \in Jobs, Deliver(w, j) PROVE AcksEarned'
    <2>1. /\ pc' = [pc EXCEPT ![w] = "claim"] /\ at' = [at EXCEPT ![w] = j]
          /\ task[j] = "queued" /\ UNCHANGED <<state, task>>
      BY <1>5 DEF Deliver, Goto, jobRow
    <2> QED BY <1>0, <1>3, <2>1 DEF SInv, AcksEarned
  <1>6. ASSUME ~\E w \in Workers : WorkerStep(w) \/ DependencyError(w) \/ WorkerCrash(w),
               ~\E w \in Workers, j \in Jobs : Deliver(w, j)
        PROVE  AcksEarned'
    <2>1. UNCHANGED request
      BY <1>6
         DEF Next, Submit, LeaseExpires, DispatcherStep, ReadPending, Mark,
             DispatcherCrash, CreateTask, PeopleStep, UserSave, Transfer, SetActor,
             vars
    <2>2. \A j \in Jobs : task'[j] = "acked" => task[j] = "acked"
      BY <1>0, <1>6
         DEF Next, Submit, LeaseExpires, DispatcherStep, ReadPending, Mark,
                  DispatcherCrash, CreateTask, PeopleStep, UserSave, Transfer, SetActor,
                  vars, queue
    <2>3. \A j \in Jobs : state[j] # "none" => state'[j] = state[j]
      BY <1>0, <1>6
         DEF Next, Submit, NewJob, LeaseExpires, DispatcherStep, ReadPending, Mark,
             DispatcherCrash, CreateTask, PeopleStep, UserSave, Transfer, SetActor,
             vars, jobRow
    <2>4. Terminal \cup {"running"} \subseteq States \ {"none"}
      BY DEF States, Terminal
    <2> QED BY <1>0, <1>1, <1>2, <2>1, <2>2, <2>3, <2>4 DEF SInv, AcksEarned, request
  <1> QED BY <1>4, <1>5, <1>6

\* A job that has not ended has a row the dispatcher will send or a task the
\* queue still has, whatever dispatchers, the queue and one worker do.
THEOREM NoJobIsStranded == OneAtATime /\ Spec => []NoStrandedJob
  <1>1. Init => SInv
    BY InitInv DEF Init, SInv, TasksKnown, AcksEarned
  <1>2. OneAtATime /\ SInv /\ [Next]_vars => SInv'
    BY NextInv, NextTasksKnown, NextAcksEarned DEF SInv
  <1>3. SInv => NoStrandedJob
    BY
       DEF SInv, Inv, TypeOK, QueueTyped, TasksKnown, AcksEarned, NoStrandedJob,
           Terminal
  <1>4. CASE OneAtATime
    BY <1>1, <1>2, <1>3, <1>4, PTL DEF Spec
  <1> QED BY <1>4
=============================================================================
