----------------------------- MODULE PolicySearch -----------------------------
(***************************************************************************)
(* One policy question, from the gate to the cited answer                  *)
(* (backend/pipeline/query.py, retrieval.py, citations.py, retry.py).      *)
(*                                                                         *)
(* The search service and the generator are outside.  Each is shown a list *)
(* of passages and cites them by their number in that list: the search     *)
(* service numbers all results of the search, the generator the passages   *)
(* of its prompt.  The officer is shown the answer with the numbers        *)
(* rewritten and the cited passages beside it.                             *)
(*                                                                         *)
(* A passage is its text and source; an unreadable result has no text.     *)
(***************************************************************************)
EXTENDS Naturals, SequencesExt

CONSTANTS
    Passages,       \* [text, source, size], the readable results
    Unreadable,     \* a result no text can be read from
    MaxResults,     \* bound on the results of a search
    MaxMarks,       \* bound on the markers of an answer
    MaxPassages, MaxPerSource, MaxChars,    \* MAX_CONTEXT_PASSAGES and so on
    Summaries       \* AGENT_BUILDER_GENERATIVE_ANSWERS

\* the bounds are lengths, those of the selection positive, and an unreadable
\* result is no passage
ASSUME SearchAssumption ==
    /\ MaxResults \in Nat /\ MaxMarks \in Nat
    /\ MaxPassages \in Nat \ {0} /\ MaxPerSource \in Nat \ {0}
    /\ Unreadable \notin Passages

VARIABLES
    asking,     \* the question as the gate sees it, the caller's deadline
    at,         \* control point
    expired,    \* the deadline has passed
    tries,      \* attempts of the generator
    results,    \* raw results of the search
    summary,    \* the summary that came with them
    reply       \* what the officer is shown, and what it was made from

searchVars == <<asking, at, expired, tries, results, summary, reply>>

Searches == {"search", "without_summary", "snippets_only"}
UpTo(S, n) == UNION {[1 .. k -> S] : k \in 0 .. n}
\* what a model writes: its markers, the passages its sentences were taken from
ModelTexts == [marks : UpTo(0 .. MaxResults, MaxMarks), support : UpTo(0 .. 1, 1)]
NoText == [marks |-> <<>>, support |-> <<>>]
NoReply == [kind |-> "none", marks |-> <<>>, cited |-> <<>>, warned |-> FALSE,
            written |-> NoText, shown |-> <<>>]

SearchInit ==
    /\ asking \in [history : {"none", "empty", "turns"}, short : BOOLEAN,
                   words : {"work", "off_topic", "undecided"}, deadline : BOOLEAN]
    /\ at = "gate" /\ expired = FALSE /\ tries = 0
    /\ results = <<>> /\ summary = NoText /\ reply = NoReply

-----------------------------------------------------------------------------
(* Passages and citations                                                  *)

\* a sequence's elements at some of its positions, in order
Elements(s, places) ==
    [n \in 1 .. Cardinality(places) |->
        s[CHOOSE i \in places : Cardinality({j \in places : j < i}) = n - 1]]

\* parse_search_results, extract_passage_text
Readable(rs) == Elements(rs, {i \in DOMAIN rs : rs[i] # Unreadable})

CharsOf(ps, places) == MapThenSumSet(LAMBDA i : ps[i].size, places)

\* select_passages: duplicates and a source's surplus are skipped, but the
\* first passage too long for the budget ends the selection
SelectPassages(ps) ==
    LET fresh == {i \in DOMAIN ps : \A j \in 1 .. i - 1 : ps[j] # ps[i]}
        usable == {i \in fresh :
            Cardinality({j \in fresh : j < i /\ ps[j].source = ps[i].source}) < MaxPerSource}
        before(i) == {j \in usable : j < i}
        fits(i) == before(i) # {} =>
            /\ Cardinality(before(i)) < MaxPassages
            /\ MaxChars > 0 => CharsOf(ps, before(i)) + ps[i].size <= MaxChars
    IN Elements(ps, {i \in usable : \A j \in usable : j <= i => fits(j)})

\* cited_indices: the valid numbers, each where it comes first
CitedIndices(marks, n) ==
    Elements(marks, {j \in DOMAIN marks :
                        marks[j] \in 1 .. n /\ \A i \in 1 .. j - 1 : marks[i] # marks[j]})

\* infer_citations: support[s] is the passage that best supports sentence s,
\* 0 when none does
InferCitations(support, n) ==
    LET supported == {s \in DOMAIN support : support[s] \in 1 .. n} IN
    IF support = <<>> \/ 2 * Cardinality(supported) < Len(support) THEN <<>>
    ELSE CitedIndices(support, n)

\* renumber, _repl
Renumber(marks, cited) ==
    [j \in DOMAIN marks |->
        IF Contains(cited, marks[j])
        THEN CHOOSE k \in DOMAIN cited : cited[k] = marks[j] ELSE marks[j]]

\* build_grounded: grounded when something is cited
BuildGrounded(w, ps) ==
    LET marked == CitedIndices(w.marks, Len(ps))
        cited  == IF marked # <<>> THEN marked ELSE InferCitations(w.support, Len(ps)) IN
    [marks |-> IF marked # <<>> THEN Renumber(w.marks, marked) ELSE w.marks,
     cited |-> [k \in DOMAIN cited |-> ps[cited[k]]]]

-----------------------------------------------------------------------------
(* The question                                                            *)

\* format_history: a history without questions gives no block
HistoryBlock == asking.history = "turns"
WantsSummary == Summaries /\ ~HistoryBlock

GoTo(step) == at' = step /\ UNCHANGED <<asking, expired, tries, results, summary, reply>>
EndQuestion(kind, w, shown, built) ==
    /\ at' = "done"
    /\ reply' = [kind |-> kind, marks |-> built.marks, cited |-> built.cited,
                 warned |-> kind = "answer" /\ built.cited = <<>>,
                 written |-> w, shown |-> shown]
    /\ UNCHANGED <<asking, expired, tries, results, summary>>
Stop(kind) == EndQuestion(kind, NoText, <<>>, [marks |-> <<>>, cited |-> <<>>])

\* _remaining_seconds: the caller's deadline passes
RunOutOfTime ==
    /\ asking.deadline /\ ~expired /\ at # "done"
    /\ expired' = TRUE
    /\ UNCHANGED <<asking, at, tries, results, summary, reply>>

\* is_short_followup, classify_by_keyword
Gate ==
    /\ at = "gate"
    /\ IF expired THEN Stop("timeout")
       ELSE IF asking.short /\ asking.history # "none" THEN GoTo("search")
       ELSE CASE asking.words = "work" -> GoTo("search")
              [] asking.words = "off_topic" -> Stop("off_topic")
              [] OTHER -> GoTo("classify")

\* _classify_query asks the model: a failure lets the question through, a
\* timeout does not
Classify ==
    /\ at = "classify"
    /\ \/ Stop("timeout")
       \/ ~expired /\ (GoTo("search") \/ Stop("off_topic"))

\* _search_with_stats, _search_without_summary, _search_snippets_only
Search ==
    /\ at \in Searches
    /\ \/ expired /\ Stop("timeout")
       \/ /\ ~expired
          /\ \E rs \in UpTo(Passages \cup {Unreadable}, MaxResults) :
             \E w \in IF at = "search" /\ WantsSummary THEN ModelTexts ELSE {NoText} :
                /\ results' = rs /\ summary' = w /\ at' = "read"
          /\ UNCHANGED <<asking, expired, tries, reply>>
       \* the service rejects the shape of the request (400)
       \/ /\ ~expired
          /\ CASE at = "search" /\ WantsSummary -> GoTo("without_summary")
               [] at = "snippets_only" -> Stop("search_error")
               [] OTHER -> GoTo("snippets_only")
       \* a credential, transport or service error
       \/ ~expired /\ (Stop("search_error") \/ Stop("timeout"))

\* Faulty: uses the summary although results were dropped.
UsesAnySummary == ~HistoryBlock /\ BuildGrounded(summary, Readable(results)).cited # <<>>
UsesSummary ==
    /\ ~HistoryBlock /\ Len(results) = Len(Readable(results))
    /\ BuildGrounded(summary, Readable(results)).cited # <<>>

\* answer_question with the results of the search
Read ==
    /\ at = "read"
    /\ IF Readable(results) = <<>>
       THEN Stop(IF results = <<>> THEN "nothing_found" ELSE "unreadable")
       ELSE IF UsesSummary
       THEN EndQuestion("answer", summary, results, BuildGrounded(summary, Readable(results)))
       ELSE GoTo("answer")

\* with_retries around the generator: one attempt under a deadline
Attempts == IF asking.deadline THEN 1 ELSE 3
Draft ==
    LET contexts == SelectPassages(Readable(results)) IN
    /\ at = "answer"
    /\ \/ expired /\ Stop("timeout")
       \/ /\ ~expired
          /\ \E w \in ModelTexts :
                EndQuestion("answer", w, contexts, BuildGrounded(w, contexts))
       \/ ~expired /\ Stop("answer_error")
       \/ /\ ~expired /\ tries + 1 < Attempts       \* transient: once more
          /\ tries' = tries + 1
          /\ UNCHANGED <<asking, at, expired, results, summary, reply>>

SearchNext == RunOutOfTime \/ Gate \/ Classify \/ Search \/ Read \/ Draft
SearchSpec == SearchInit /\ [][SearchNext]_searchVars

-----------------------------------------------------------------------------
(* Properties                                                              *)

\* A number in the answer leads the officer to the passage its writer cited
\* by it, whoever wrote the answer, whatever results were dropped, skipped or
\* cited twice; a number of no passage leads nowhere; and an answer that
\* nothing supports is marked so.
CitationsAreMeant ==
    reply.kind = "answer" =>
        /\ \A j \in DOMAIN reply.marks :
              LET m == reply.written.marks[j]  n == reply.marks[j] IN
              IF m \in DOMAIN reply.shown
              THEN n \in DOMAIN reply.cited /\ reply.cited[n] = reply.shown[m]
              ELSE n \notin DOMAIN reply.cited
        /\ reply.cited = <<>> => reply.warned
=============================================================================
