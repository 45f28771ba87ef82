------------------------------ MODULE Advisory ------------------------------
(***************************************************************************)
(* The optional model-assisted localization, tracewake/llm.py: which steps *)
(* of a run are sent, how texts are cut to their budgets and how that is   *)
(* reported, how the answer of a provider is read, and which answers are   *)
(* accepted.  A text is its length.                                        *)
(***************************************************************************)
EXTENDS Integers, Sequences, FiniteSets, SequencesExt, FiniteSetsExt

CONSTANTS
    MaxEvidenceSteps, \* MAX_EVIDENCE_STEPS
    Ends,             \* steps always kept at either end of the run: 20
    Around,           \* steps kept on either side of the candidate: 50
    ArgumentLimit,    \* characters of a step's arguments: 1000
    ReasonLimit,      \* characters of a step's reasoning: 1200
    StepBudget,       \* characters of observations per step
    ContextBudget,    \* characters of task context
    MessageLimit,     \* characters of one message of it
    ErrorLimit,       \* characters of the recorded error
    SummaryLimit,     \* characters of the recorded test summary
    MaxResponseBytes, \* MAX_RESPONSE_BYTES
    MaxTimeout        \* seconds: 300

ASSUME EvidenceAssumption ==
    /\ MaxEvidenceSteps \in Nat /\ Ends \in Nat /\ Around \in Nat
    /\ 2 * Ends + 2 * Around + 1 <= MaxEvidenceSteps
    /\ {ArgumentLimit, ReasonLimit, StepBudget, ContextBudget, MessageLimit, ErrorLimit, SummaryLimit,
        MaxResponseBytes, MaxTimeout} \subseteq Nat

-----------------------------------------------------------------------------
\* Python's round() of n / d: to the nearest, halves to the even neighbour.
Round(n, d) ==
    LET q == n \div d
        r == n % d
    IN CASE 2 * r < d -> q
         [] 2 * r > d -> q + 1
         [] 2 * r = d -> IF q % 2 = 0 THEN q ELSE q + 1

AtLeast1(n) == IF n > 1 THEN n ELSE 1
AtMost(n, limit) == IF n < limit THEN n ELSE limit

\* The steps around the deterministic candidate.
Window(count, candidate) == AtLeast1(candidate - Around) .. AtMost(count, candidate + Around)

\* _chosen_indices: both ends, the window, and the rest spread over the run.
ChosenIndices(count, candidate) ==
    IF count <= MaxEvidenceSteps THEN 1 .. count
    ELSE LET kept == (1 .. Ends) \cup ((count - Ends + 1) .. count) \cup Window(count, candidate)
             remaining == MaxEvidenceSteps - Cardinality(kept)
         IN kept \cup {1 + Round(o * (count - 1), AtLeast1(remaining - 1)) : o \in 0 .. remaining - 1}

\* _omitted_ranges: the maximal runs of omitted steps.
OmittedRanges(count, included) ==
    LET missing == (1 .. count) \ included
        starts == {a \in missing : a - 1 \notin missing}
    IN {<<a, Min({b \in a .. count : b + 1 \notin missing})>> : a \in starts}

-----------------------------------------------------------------------------
\* _clip: what is kept of a text of some length, and whether it was cut.
Clip(length, limit) ==
    IF limit <= 0 THEN [kept |-> 0, cut |-> length > 0]
    ELSE IF length <= limit THEN [kept |-> length, cut |-> FALSE]
    ELSE [kept |-> limit, cut |-> TRUE]

\* Fault: results that no longer fit are left out without a word.
ObserveQuietly(b, length) ==
    IF b.left <= 0 THEN b
    ELSE LET c == Clip(length, b.left)
         IN [left |-> b.left - c.kept, cut |-> b.cut \/ c.cut, kept |-> Append(b.kept, c.kept)]

\* _step_evidence: the results of a step share one budget.
Observe(b, length) ==
    IF b.left <= 0 THEN [b EXCEPT !.cut = TRUE]
    ELSE LET c == Clip(length, b.left)
         IN [left |-> b.left - c.kept, cut |-> b.cut \/ c.cut, kept |-> Append(b.kept, c.kept)]

Observations(lengths) ==
    FoldLeft(Observe, [left |-> StepBudget, cut |-> FALSE, kept |-> <<>>], lengths)

\* The arguments and the reasoning of the step have limits of their own; a step
\* is [args, reason |-> lengths, results |-> the lengths of its results].
StepCut(step) ==
    \/ Clip(step.args, ArgumentLimit).cut
    \/ Clip(step.reason, ReasonLimit).cut
    \/ Observations(step.results).cut

\* _task_context: user messages before system messages, each within its limit
\* and all of them within the budget; a message is <<role, length>>.
Prioritised(messages) ==
    SelectSeq(messages, LAMBDA m : m[1] = "user") \o SelectSeq(messages, LAMBDA m : m[1] = "system")

AddMessage(b, m) ==
    IF b.left <= 0 THEN b
    ELSE LET c == Clip(m[2], AtMost(MessageLimit, b.left))
         IN [left |-> b.left - c.kept, cut |-> b.cut \/ c.cut, kept |-> Append(b.kept, c.kept)]

TaskContext(messages) ==
    FoldLeft(AddMessage, [left |-> ContextBudget, cut |-> FALSE, kept |-> <<>>],
             Prioritised(messages))

\* _recorded_outcome: the last outcome event decides, its texts are cut.
OutcomeCut(outcomes) ==
    outcomes # <<>> /\ (Clip(Last(outcomes).error, ErrorLimit).cut
                        \/ Clip(Last(outcomes).summary, SummaryLimit).cut)

\* The reference step next to which the reference run is sampled: the one the
\* candidate is aligned with, or the middle of the run.
Mapped(cols, candidate, count) ==
    LET with == {k \in DOMAIN cols : cols[k][1] # 0 /\ cols[k][2] = candidate}
    IN IF with # {} THEN cols[Min(with)][1] ELSE AtLeast1(count \div 2)

\* The columns of an alignment whose present sides were both sent.
Columns(cols, failing, reference) ==
    SelectSeq(cols, LAMBDA c : (c[2] = 0 \/ c[2] \in failing) /\ (c[1] = 0 \/ c[1] \in reference))

\* build_localization_evidence.  A run is [steps, messages, outcomes];
\* the reference run may be missing (no steps).
BuildEvidence(failing, reference, cols, candidate) ==
    LET n == Len(failing.steps)
        m == Len(reference.steps)
        sent == ChosenIndices(n, candidate)
        shown == IF m = 0 THEN {} ELSE ChosenIndices(m, Mapped(cols, candidate, m))
        context == TaskContext(failing.messages)
        cut == \/ context.cut
               \/ \E k \in sent : StepCut(failing.steps[k])
               \/ \E k \in shown : StepCut(reference.steps[k])
               \/ OutcomeCut(failing.outcomes)
               \/ m > 0 /\ OutcomeCut(reference.outcomes)
    IN [sent |-> sent,
        shown |-> shown,
        columns |-> Columns(cols, sent, shown),
        truncated |-> cut \/ Cardinality(sent) < n \/ Cardinality(shown) < m]

-----------------------------------------------------------------------------
\* _completion_endpoint: a URL is [scheme, host, extras]; plain HTTP stays on
\* this machine unless it was allowed.
EndpointAllowed(url, insecure) ==
    /\ url.scheme \in {"http", "https"} /\ url.host # "none"
    /\ ~url.extras
    /\ url.scheme = "http" => insecure \/ url.host = "loopback"

\* _read_response_before_deadline: a chunk is <<bytes asked for at most, the
\* time left when it has arrived>>; the last one is empty.
ReadChunk(r, chunk) ==
    IF r.state # "reading" THEN r
    ELSE IF r.received > MaxResponseBytes THEN [r EXCEPT !.state = "read"]
    ELSE IF r.left <= 0 \/ chunk[2] < 0 THEN [r EXCEPT !.state = "timeout"]
    ELSE IF chunk[1] = 0 THEN [r EXCEPT !.state = "read"]
    ELSE [r EXCEPT !.left = chunk[2],
                   !.received = @ + AtMost(chunk[1], MaxResponseBytes + 1 - @)]

\* What was read is refused when it is over the limit.
TooLong(r) == r.received > MaxResponseBytes

\* OpenAICompatibleProvider.complete: a reply has a status, the length it
\* declares (0: none), its chunks and, if all of them arrive, a body.
Complete(timeout, reply) ==
    LET r == FoldLeft(ReadChunk, [state |-> "reading", left |-> timeout, received |-> 0],
                      reply.chunks)
    IN IF \/ reply.status # "ok"
          \/ reply.declared > MaxResponseBytes
          \/ r.state # "read"
          \/ TooLong(r)
          \/ reply.body # "text"
       THEN [state |-> "error", received |-> 0, left |-> 0]
       ELSE r

-----------------------------------------------------------------------------
\* LLMLocalizationDecision: an answer is [step |-> 0 or a step, cites |-> a
\* sequence of steps, abstain |-> BOOLEAN].
Consistent(d) ==
    /\ d.abstain => d.step = 0
    /\ ~d.abstain => d.step > 0 /\ d.cites # <<>>
    /\ IsInjective(d.cites)

\* localize_with_llm: the answer speaks only of steps it was shown.
Grounded(d, included) == (d.step = 0 \/ d.step \in included) /\ Range(d.cites) \subseteq included

Accepted(d, included) == Consistent(d) /\ Grounded(d, included)

\* localize_with_llm: nothing is sent when the settings are wrong, and an
\* answer that was not accepted is an error, never a result.
LocalizeWithLLM(settings, included, reply, decision) ==
    IF settings.model /\ settings.prompt /\ settings.timeout \in 1 .. MaxTimeout
       /\ Complete(settings.timeout, reply).state # "error"
       /\ Accepted(decision, included)
    THEN [result |-> TRUE, decision |-> [decision EXCEPT !.cites = SortSeq(@, <)]]
    ELSE [result |-> FALSE, decision |-> decision]
=============================================================================
