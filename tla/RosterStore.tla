----------------------------- MODULE RosterStore -----------------------------
(***************************************************************************)
(* The unit roster: one JSON object in a bucket, edited by several server  *)
(* instances (backend/reports/roster_store.py), from the roster page       *)
(* (webapp/routes/roster.py) and from answers to gap questions             *)
(* (reports/roster.py).                                                    *)
(*                                                                         *)
(* An edit downloads the object, applies itself to the copy and uploads it *)
(* on condition that the object's generation is still the one downloaded;  *)
(* when it is not, it starts over.  The upload's answer may be lost: the   *)
(* client library sends it again, and the repeated upload finds a newer    *)
(* generation, its own.  Every instance serves reads from a cache.         *)
(*                                                                         *)
(* A staff entry is a person and an employee number.                       *)
(***************************************************************************)
EXTENDS Naturals, Sequences, FiniteSets

CONSTANTS
    Instances,      \* server processes
    ServesReads,    \* those of them that serve reads
    Edits,          \* requests
    Wanted,         \* what they may ask: a set of [Edits -> [op, who, number, new]]
    Seed,           \* the packaged roster
    MaxAttempts,    \* _MAX_ATTEMPTS
    NoCopy

\* templates/staff_roster.json lists each number once; a request is one of the
\* four that change the roster
ASSUME RosterAssumption ==
    /\ \A s \in Seed : s = [who |-> s.who, number |-> s.number]
    /\ \A s, t \in Seed : s.number = t.number => s = t
    /\ \A w \in Wanted, e \in Edits : w[e].op \in {"add", "learn", "renumber", "remove"}

VARIABLES
    object,     \* [generation, staff]; generation 0 is no object yet
    want,       \* what each edit asks
    edit,       \* [e \in Edits |-> the state of its request]
    cache,      \* [i \in Instances |-> cached roster and its generation]
    reading,    \* [i \in Instances |-> the copy a locked read has fetched]
    accepted    \* edits written to the object, in that order, and the staff each left

rosterVars == <<object, want, edit, cache, reading, accepted>>

NoEdit == [at |-> "idle", instance |-> NoCopy, copy |-> NoCopy, tries |-> 0, says |-> "nothing"]

RosterInit ==
    /\ object = [generation |-> 0, staff |-> Seed]
    /\ want \in Wanted /\ edit = [e \in Edits |-> NoEdit]
    /\ cache = [i \in Instances |-> NoCopy]
    /\ reading = [i \in Instances |-> NoCopy]
    /\ accepted = <<>>

-----------------------------------------------------------------------------
(* The edits: what each makes of a copy of the roster, and what it answers *)

Has(staff, number) == \E s \in staff : s.number = number

\* add_staff: the duplicate check runs on the copy at hand
AddTo(staff, w) ==
    IF Has(staff, w.number) THEN [says |-> "duplicate", staff |-> staff]
    ELSE [says |-> "added", staff |-> staff \cup {[who |-> w.who, number |-> w.number]}]

\* _add_to_roster_file: known by number or by name, nothing is written
LearnIn(staff, w) ==
    IF Has(staff, w.number) \/ \E s \in staff : s.who = w.who
    THEN [says |-> "known", staff |-> staff]
    ELSE [says |-> "added", staff |-> staff \cup {[who |-> w.who, number |-> w.number]}]

\* Faulty: the duplicate check compares with the page's copy, not this one
RenumberUnchecked(staff, w) ==
    IF ~Has(staff, w.number) THEN [says |-> "missing", staff |-> staff]
    ELSE LET s == CHOOSE x \in staff : x.number = w.number IN
         [says |-> "updated", staff |-> (staff \ {s}) \cup {[s EXCEPT !.number = w.new]}]

\* update_staff: the number may change, but not to another person's
RenumberIn(staff, w) ==
    IF ~Has(staff, w.number) THEN [says |-> "missing", staff |-> staff]
    ELSE LET s == CHOOSE x \in staff : x.number = w.number IN
         IF \E other \in staff \ {s} : other.number = w.new
         THEN [says |-> "duplicate", staff |-> staff]
         ELSE [says |-> "updated", staff |-> (staff \ {s}) \cup {[s EXCEPT !.number = w.new]}]

\* delete_staff
RemoveFrom(staff, w) ==
    LET kept == {s \in staff : s.number # w.number} IN
    [says |-> IF kept = staff THEN "unknown" ELSE "removed", staff |-> kept]

Mutated(e, staff) ==
    LET w == want[e] IN
    CASE w.op = "add" -> AddTo(staff, w)
      [] w.op = "learn" -> LearnIn(staff, w)
      [] w.op = "renumber" -> RenumberIn(staff, w)
      [] w.op = "remove" -> RemoveFrom(staff, w)

\* the mutation returned None: "nothing changed, and no write is issued"
NothingToWrite(says) == says \in {"known", "unknown"}

-----------------------------------------------------------------------------
(* update()                                                                *)

\* _fetch: the object and its generation, the packaged seed when there is none
Fetched == object

Fetch(e, i) ==
    /\ edit[e].at \in {"idle", "again"}
    /\ edit[e].at = "again" => edit[e].instance = i
    /\ LET copy == Fetched
           says == Mutated(e, copy.staff).says IN
       edit' = [edit EXCEPT ![e] = [at |-> IF NothingToWrite(says) THEN "answered" ELSE "write",
                                    instance |-> i, copy |-> copy, tries |-> @.tries + 1,
                                    says |-> says]]
    /\ UNCHANGED <<object, want, cache, reading, accepted>>

\* Faulty: the upload is unconditional
MayAlwaysWrite(e) == TRUE

\* if_generation_match
MayWrite(e) == object.generation = edit[e].copy.generation

Stored(e) ==
    LET left == Mutated(e, edit[e].copy.staff).staff IN
    /\ MayWrite(e)
    /\ object' = [generation |-> object.generation + 1, staff |-> left]
    /\ accepted' = Append(accepted, [by |-> e, left |-> left])

Write(e) ==
    /\ edit[e].at = "write" /\ Stored(e)
    /\ edit' = [edit EXCEPT ![e].at = "written"]
    /\ UNCHANGED <<want, cache, reading>>

\* the upload arrived but its answer did not; sent again it is refused
WriteUnanswered(e) ==
    /\ edit[e].at = "write" /\ Stored(e)
    /\ edit' = [edit EXCEPT ![e].at = "conflict"]
    /\ UNCHANGED <<want, cache, reading>>

Conflict(e) ==
    /\ edit[e].at = "write" /\ ~MayWrite(e)
    /\ edit' = [edit EXCEPT ![e].at = "conflict"]
    /\ UNCHANGED <<object, want, cache, reading, accepted>>

\* _clear_cache_unlocked waits for a read under the lock
Invalidate(i) == reading[i] = NoCopy /\ cache' = [cache EXCEPT ![i] = NoCopy]

\* invalidate() after the edit
AfterWrite(i) == Invalidate(i)

Answer(e) ==
    /\ edit[e].at = "written"
    /\ AfterWrite(edit[e].instance)
    /\ edit' = [edit EXCEPT ![e].at = "answered", ![e].copy.staff = {}]
    /\ UNCHANGED <<object, want, reading, accepted>>

\* a lost race: start over from a fresh copy, or give up after the last attempt
Retry(e) ==
    /\ edit[e].at = "conflict" /\ edit[e].tries < MaxAttempts
    /\ Invalidate(edit[e].instance)
    /\ edit' = [edit EXCEPT ![e].at = "again", ![e].copy = NoCopy]
    /\ UNCHANGED <<object, want, reading, accepted>>

GiveUp(e) ==
    /\ edit[e].at = "conflict" /\ edit[e].tries >= MaxAttempts
    /\ edit' = [edit EXCEPT ![e].at = "failed", ![e].copy = NoCopy]
    /\ UNCHANGED <<object, want, cache, reading, accepted>>

-----------------------------------------------------------------------------
(* read(): under the lock of the instance, from the cache while it is fresh *)

StartRead(i) ==
    /\ reading[i] = NoCopy /\ cache[i] = NoCopy
    /\ reading' = [reading EXCEPT ![i] = object]
    /\ UNCHANGED <<object, want, edit, cache, accepted>>

FinishRead(i) ==
    /\ reading[i] # NoCopy
    /\ cache' = [cache EXCEPT ![i] = reading[i]]
    /\ reading' = [reading EXCEPT ![i] = NoCopy]
    /\ UNCHANGED <<object, want, edit, accepted>>

Expire(i) ==
    /\ cache[i] # NoCopy /\ reading[i] = NoCopy
    /\ cache' = [cache EXCEPT ![i] = NoCopy]
    /\ UNCHANGED <<object, want, edit, reading, accepted>>

RosterNext ==
    \/ \E e \in Edits, i \in Instances : Fetch(e, i)
    \/ \E e \in Edits :
          Write(e) \/ WriteUnanswered(e) \/ Conflict(e) \/ Answer(e) \/ Retry(e) \/ GiveUp(e)
    \/ \E i \in ServesReads : StartRead(i) \/ FinishRead(i) \/ Expire(i)

RosterSpec == RosterInit /\ [][RosterNext]_rosterVars

-----------------------------------------------------------------------------
(* Properties                                                              *)

\* the staff that the first n accepted edits left
Left(n) == IF n = 0 THEN Seed ELSE accepted[n].left

\* The roster is what the accepted edits make of the seed when they are applied
\* one after the other: no edit is dropped or half undone by another writer's
\* whole-document write.
NoEditIsDropped ==
    /\ \A n \in 1 .. Len(accepted) :
          Left(n) = Mutated(accepted[n].by, Left(n - 1)).staff
    /\ object.staff = Left(Len(accepted))

\* No employee number is on the roster twice, however adds and renumberings race
\* and however often an edit is applied again.
OneEntryPerNumber ==
    \A s, t \in object.staff : s.number = t.number => s = t
=============================================================================
