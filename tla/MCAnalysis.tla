----------------------------- MODULE MCAnalysis -----------------------------
(***************************************************************************)
(* The pure algorithms of the analysis, each evaluated on every input of a *)
(* bounded set: a state is the kind of an input and, once chosen, the input. *)
(***************************************************************************)
EXTENDS Alignment, Divergence, Advisory

CONSTANT None
VARIABLES kind, input

Of(k) == kind = k /\ input # None

-----------------------------------------------------------------------------
\* Event logs: two parallel tools of one call, one tool of another, and what
\* the parallel tools write, in any order and with any of them missing.
Tool(parent, id, batch, name) ==
    [type |-> "tool", parent |-> parent, id |-> id, batch |-> batch, name |-> name,
     target |-> <<{id}>>, rest |-> 0]
Write(tool, path) == [type |-> "write", tool |-> tool, path |-> path]
LogEvents ==
    {Tool("c1", "t1", 0, "edit"), Tool("c1", "t2", 1, "run"), Tool("c2", "t3", 0, "edit"),
     Write("t1", "p"), Write("t2", "q")}
Logs == UNION {{log \in [1 .. n -> LogEvents] : IsInjective(log)} : n \in 0 .. 5}

\* Completion order is not sequence: exchanging two neighbouring events of one
\* batch, results or writes, changes no step (extract_traces).
ParentOf(log, e) ==
    LET tools == {x \in Range(log) : x.type = "tool" /\ x.id = (IF e.type = "tool" THEN e.id ELSE e.tool)}
    IN {x.parent : x \in tools}
Exchanged(log, k) == [log EXCEPT ![k] = log[k + 1], ![k + 1] = log[k]]
StepsIgnoreCompletionOrder ==
    Of("log") =>
        \A k \in 1 .. Len(input.log) - 1 :
            ParentOf(input.log, input.log[k]) = ParentOf(input.log, input.log[k + 1])
                => WithSubmit(ExtractSteps(Exchanged(input.log, k))) = WithSubmit(ExtractSteps(input.log))

-----------------------------------------------------------------------------
\* Every way to align n steps with m steps, and what it scores.
Alignments(n, m) ==
    LET all[i \in 0 .. n, j \in 0 .. m] ==
            IF i = 0 /\ j = 0 THEN {<<>>}
            ELSE (IF i > 0 /\ j > 0 THEN {Append(a, <<i, j>>) : a \in all[i - 1, j - 1]} ELSE {})
                 \cup (IF i > 0 THEN {Append(a, <<i, 0>>) : a \in all[i - 1, j]} ELSE {})
                 \cup (IF j > 0 THEN {Append(a, <<0, j>>) : a \in all[i, j - 1]} ELSE {})
    IN all[n, m]

Side(col) == IF col[1] = 0 THEN "Y" ELSE IF col[2] = 0 THEN "X" ELSE "M"
ColumnScore(scores, cols, k) ==
    IF Side(cols[k]) = "M" THEN scores[cols[k][1]][cols[k][2]]
    ELSE IF k > 1 /\ Side(cols[k - 1]) = Side(cols[k]) THEN GapExtend ELSE GapOpen
Score(scores, cols) == MapThenSumSet(LAMBDA k : ColumnScore(scores, cols, k), DOMAIN cols)

\* The program keeps three tables and none leads from a gap on one side
\* straight to a gap on the other.
Plain(cols) ==
    \A k \in 1 .. Len(cols) - 1 : {Side(cols[k]), Side(cols[k + 1])} # {"X", "Y"}

Matrices(n, m, s) == [1 .. n -> [1 .. m -> s]]

\* The traceback returns an alignment of all steps, it is worth what the tables
\* say, and no alignment of its shape is worth more (gotoh).
GotohIsOptimal ==
    Of("matrix") =>
        LET scores == input.scores
            all == {c \in Alignments(Len(scores), Len(scores[1])) : Plain(c)}
            found == Gotoh(scores)
        IN /\ found.cols \in all
           /\ found.score = Score(scores, found.cols)
           /\ \A c \in all : Score(scores, c) <= found.score

-----------------------------------------------------------------------------
\* Two short runs over two actions and a complete alignment of them.
Action(name) == [names |-> <<name>>, targets |-> <<<<{name}>>>>, rest |-> <<0>>]
Traces(lo, hi) == UNION {[1 .. n -> {Action("edit"), Action("run")}] : n \in lo .. hi}

\* A step is in the loop a run ends in when it and all later ones are equal to
\* some step before the last.
InLoop(bad, j) == \E k \in 1 .. Len(bad) - 1 : k <= j /\ \A l \in k .. Len(bad) : bad[l] = bad[k]

\* divergence_step names the first step of the failing run from which it never
\* again agrees with the other run, agreement inside a closing loop excepted.
DivergenceStands ==
    Of("pair") =>
        LET good == input.good
            bad == input.bad
            last == Max({0} \cup {j \in DOMAIN bad :
                        ~InLoop(bad, j) /\ \E c \in Range(input.cols) :
                            c[1] # 0 /\ c[2] = j /\ good[c[1]] = bad[j]})
        IN DivergenceStep(input.cols, good, bad) = IF last = Len(bad) THEN 0 ELSE last + 1

\* The baselines answer with a step of the failing run, and the first
\* difference comes directly after the common prefix if the runs differ at all.
BaselinesAgree ==
    Of("pair") =>
        LET first == FirstTargetDifference(input.good, input.bad)
            prefix == LastCommonPrefix(input.good, input.bad)
        IN /\ {first, prefix} \subseteq DOMAIN input.bad
           /\ first \in {prefix, prefix + 1}

-----------------------------------------------------------------------------
\* Steps to compare: single actions on a path, on a query or on nothing, and
\* batches.
Paths == {<<>>, <<{"a"}>>, <<{"d"}, {"a"}>>, <<{"d", "b"}>>}
Reasonings == {[blank |-> TRUE, words |-> {}], [blank |-> FALSE, words |-> {}],
          [blank |-> FALSE, words |-> {"x"}], [blank |-> FALSE, words |-> {"x", "y"}]}
NoArgs == [key \in {} |-> 0]
Tide == <<"t", "i", "d", "e">>
Diet == <<"d", "i", "e", "t">>
TextArgs == {[new |-> t] : t \in {<<>>, <<"t", "i">>, Tide, Diet}}
            \cup {[new |-> t, around |-> n] : t \in {Tide, Diet}, n \in {10, 30}}
Singles ==
    {[names |-> <<n>>, targets |-> <<t>>, kind |-> k, args |-> g, files |-> f, reasoning |-> r] :
        n \in {"edit"}, t \in Paths, k \in {"path", "query"},
        g \in {NoArgs, [around |-> 10], [around |-> 90]},
        f \in {{}, {"a"}}, r \in {[blank |-> FALSE, words |-> {"x"}]}}
    \cup {[names |-> <<"edit">>, targets |-> <<<<{"a"}>>>>, kind |-> "path", args |-> g, files |-> {},
           reasoning |-> [blank |-> TRUE, words |-> {}]] : g \in TextArgs}
    \cup {[names |-> <<n>>, targets |-> <<<<>>>>, kind |-> "none", args |-> NoArgs, files |-> f,
           reasoning |-> r] : n \in {"edit", "run"}, f \in {{"a"}, {"a", "b"}}, r \in Reasonings}
Batches ==
    {[names |-> <<"edit", "run">>, targets |-> <<t, u>>, kind |-> "none", args |-> NoArgs,
      files |-> {}, reasoning |-> [blank |-> TRUE, words |-> {}]] : t \in Paths, u \in Paths}

\* Whole of the weights the two parts can reach.
ActionWhole == 1000 * (WeightTool + WeightArgs + WeightFiles) * One

\* The steps are compared by the texts they write.
ComparesTexts(a, b) ==
    /\ Len(a.names) = 1 /\ Len(b.names) = 1
    /\ "new" \in DOMAIN a.args \cap DOMAIN b.args
    /\ a.args["new"] # b.args["new"]

\* The score of two steps stays within its scale, and is full for identical
\* steps, the reasoning part only if there is a word in it or it is blank.  It
\* does not depend on which run is called the good one unless different texts
\* are compared: difflib's ratio does depend on it, and then the score moves by
\* no more than the share of the texts (step_similarity).
SimilarityIsAScale ==
    Of("steps") =>
        LET a == input.a
            b == input.b
            there == ActionSimilarity(a, b)
            back == ActionSimilarity(b, a)
            share == WeightArgs * WeightArgRest * One
        IN /\ there # back => ComparesTexts(a, b) /\ there - back \in -share .. share
           /\ ReasoningSimilarity(a, b) = ReasoningSimilarity(b, a)
           /\ ActionSimilarity(a, b) \in 0 .. ActionWhole
           /\ ReasoningSimilarity(a, b) \in 0 .. One
           /\ a = b => ActionSimilarity(a, b) = ActionWhole
           /\ a = b /\ (a.reasoning.blank \/ a.reasoning.words # {})
                => ReasoningSimilarity(a, b) = One

\* Two runs are compared soundly: the steps do not depend on how the tools of a
\* batch were scheduled, their similarity is a scale, the alignment is the best
\* one, and the divergence read off it stands (align.py from log to answer).
AlignmentIsSound ==
    /\ StepsIgnoreCompletionOrder
    /\ SimilarityIsAScale
    /\ GotohIsOptimal
    /\ DivergenceStands
    /\ BaselinesAgree

-----------------------------------------------------------------------------
\* Runs on two paths: steps of one tool, and batches of which only one tool
\* writes or creates.
Does(c, v, t) == [creates |-> c, verb |-> v, target |-> t]
Shape(w, tools) == [writes |-> w, tools |-> tools]
OneTool == {Shape(w, <<Does(c, v, t)>>) :
                c \in BOOLEAN, w \in SUBSET {1, 2}, v \in BOOLEAN, t \in {NoPath, 1, 2}}
TwoTools == {Shape(w, <<Does(c, TRUE, 1), Does(FALSE, v, t)>>) :
                c \in BOOLEAN, w \in {{}, {2}}, v \in BOOLEAN, t \in {NoPath, 2}}
            \cup {Shape({}, <<Does(FALSE, FALSE, 1), Does(c, TRUE, 2)>>) : c \in BOOLEAN}
OneFile == {Shape(w, <<Does(c, FALSE, t)>>) :
                c \in BOOLEAN, w \in {{}, {1}, {2}}, t \in {NoPath, 1, 2}}
Runs == [1 .. 1 -> OneTool \cup TwoTools] \cup [1 .. 2 -> OneTool \cup TwoTools]
        \cup [1 .. 3 -> OneFile]

\* A path belongs to the run when the first step that mentions it creates it.
Mentions(step, p) == p \in WrittenPaths(step) \cup Targets(step)
Own(steps, p, k) ==
    \E l \in 1 .. k - 1 :
        /\ Creates(steps[l]) /\ p \in WrittenPaths(steps[l])
        /\ \A e \in 1 .. l - 1 : ~Mentions(steps[e], p)
Fresh(steps, p, k) == Creates(steps[k]) /\ \A e \in 1 .. k - 1 : ~Mentions(steps[e], p)

\* _commitments lists exactly the steps that change a path which the run did
\* not create, whatever it read, wrote or created in between.
CommitmentsAreForeign ==
    Of("run") =>
        LET steps == input.steps
        IN Range(Commitments(steps)) =
               {k \in DOMAIN steps :
                    \E p \in WrittenPaths(steps[k]) : ~Own(steps, p, k) /\ ~Fresh(steps, p, k)}

\* A path is looked at by a step that names it and does not write it; the first
\* step that writes names the scratch file.
LookedAt(steps, p, k) == \E l \in 1 .. k - 1 : p \in Targets(steps[l]) \ WrittenPaths(steps[l])
Writing(steps) == {k \in DOMAIN steps : WrittenPaths(steps[k]) # {}}
Scratch(steps, p, k) ==
    LET first == Min(Writing(steps)) IN k = first \/ p = Min(WrittenPaths(steps[first]))

\* The step that is named and the class that says how far to trust it come from
\* two rules, and the steps on which they part are exactly these: the rule that
\* names a step passes over a foreign path only while it takes it for scratch
\* work (never looked at, and written by the first writing step or the one file
\* named by it), and names a step that commits to nothing only for paths that are
\* the run's own: looked at after they were created, or a second file that was
\* created.  Everywhere else the named step is the first commitment
\* (first_nonscratch_write against _commitments).
RulesPartOverScratch ==
    Of("run") =>
        LET steps == input.steps
            foreign == Range(Commitments(steps))
            named == RuleFires(steps)
            before == IF named = 0 THEN DOMAIN steps ELSE 1 .. named - 1
        IN /\ \A k \in before : \A p \in WrittenPaths(steps[k]) :
                  ~LookedAt(steps, p, k) /\ Scratch(steps, p, k)
           /\ named # 0 => \E p \in WrittenPaths(steps[named]) :
                  /\ LookedAt(steps, p, named) \/ ~Scratch(steps, p, named)
                  /\ Own(steps, p, named) \/ Fresh(steps, p, named) \/ named \in foreign
           /\ FirstNonscratchWrite(steps) \in DOMAIN steps

\* The localization from one run gives its answer for a reason that stands: its
\* commitments are the writes to paths the run did not make itself, and the step
\* it names is the first of them unless scratch files are involved (diverge.py).
LocalizationIsSound == CommitmentsAreForeign /\ RulesPartOverScratch

-----------------------------------------------------------------------------
\* Long runs and candidates near their ends, in their middle and everywhere
\* around the limit.
TraceLengths == {1, 2, 40, 159, 160, 161, 162, 200, 260, 400, 1000}
Selections ==
    UNION {{[count |-> n, candidate |-> c] :
                c \in (1 .. n) \cap ({1, 2, 19, 20, 21, 49, 50, 51, 70, 71, 80, 120, 160, 161}
                                     \cup {n - 71, n - 70, n - 51, n - 50, n - 20, n - 1, n})} :
           n \in TraceLengths}

\* _chosen_indices keeps to the limit without its last resort, and always shows
\* the candidate with its neighbours and both ends; the ranges reported as
\* omitted are exactly the steps that were (_omitted_ranges).
EvidenceIsBounded ==
    Of("choice") =>
        LET n == input.count
            c == input.candidate
            sent == ChosenIndices(n, c)
            ranges == OmittedRanges(n, sent)
        IN /\ Cardinality(sent) <= MaxEvidenceSteps
           /\ sent \subseteq 1 .. n
           /\ {1, n} \cup ((c - Around .. c + Around) \cap (1 .. n)) \subseteq sent
           /\ UNION {r[1] .. r[2] : r \in ranges} = (1 .. n) \ sent
           /\ \A r, q \in ranges : r # q => r[2] + 1 < q[1] \/ q[2] + 1 < r[1]

\* What was sent of a pair of short runs with arguments, reasoning, results and
\* messages that just fit their budgets, just exceed them, or use them up.
StepWith(args, reason, results) == [args |-> args, reason |-> reason, results |-> results]
Results(lengths) == StepWith(ArgumentLimit, ReasonLimit, lengths)
Lengths == {0, 1, StepBudget - 1, StepBudget, StepBudget + 1}
StepTexts == UNION {[1 .. n -> Lengths] : n \in 1 .. 3}
Messages == UNION {[1 .. n -> {"user", "system"} \X {0, MessageLimit, MessageLimit + 1}] : n \in 0 .. 3}
Outcomes == {<<>>, <<[error |-> 0, summary |-> SummaryLimit]>>,
             <<[error |-> ErrorLimit, summary |-> 0], [error |-> ErrorLimit + 1, summary |-> 0]>>,
             <<[error |-> ErrorLimit + 1, summary |-> 0], [error |-> 0, summary |-> 0]>>}
NoRun == [steps |-> <<>>, messages |-> <<>>, outcomes |-> <<>>]
TraceOf(steps, messages, outcomes) == [steps |-> steps, messages |-> messages, outcomes |-> outcomes]
Evidences ==
    {[failing |-> TraceOf(<<Results(s)>>, <<>>, o), reference |-> NoRun] :
        s \in StepTexts, o \in Outcomes}
    \cup {[failing |-> TraceOf(<<Results(<<1>>), StepWith(a, r, <<1>>)>>, <<>>, <<>>),
           reference |-> TraceOf(<<StepWith(b, r, <<1>>)>>, <<>>, <<>>)] :
        a, b \in {0, ArgumentLimit, ArgumentLimit + 1}, r \in {0, ReasonLimit, ReasonLimit + 1}}
    \cup {[failing |-> TraceOf(<<Results(<<1>>)>>, m, <<>>),
           reference |-> TraceOf(<<Results(s)>>, <<>>, o)] :
        m \in Messages, s \in {<<1>>, <<StepBudget, 1>>}, o \in Outcomes}

\* Something is missing of a list of texts when less of it was kept, or when a
\* text was left out.
Lost(lengths, kept) ==
    Len(kept) < Len(lengths) \/ \E k \in DOMAIN kept : kept[k] < lengths[k]

\* The text of a step is incomplete.
Shortened(step) ==
    \/ step.args > ArgumentLimit \/ step.reason > ReasonLimit
    \/ Lost(step.results, Observations(step.results).kept)

\* The evidence says that it was cut exactly when arguments, reasoning, a result,
\* an outcome or a message in it are shorter than recorded or a result is missing
\* (build_localization_evidence).  A message that finds the context budget
\* used up is left out of the comparison, as the code leaves it out.
TruncationIsReported ==
    Of("evidence") =>
        LET f == input.failing
            r == input.reference
            context == TaskContext(f.messages).kept
            asked == Prioritised(f.messages)
            long(o) == o # <<>> /\ (Last(o).error > ErrorLimit \/ Last(o).summary > SummaryLimit)
            lost == \/ \E k \in DOMAIN f.steps : Shortened(f.steps[k])
                    \/ \E k \in DOMAIN r.steps : Shortened(r.steps[k])
                    \/ \E k \in DOMAIN context : context[k] < asked[k][2]
                    \/ long(f.outcomes) \/ long(r.outcomes)
            cols == IF r = NoRun THEN <<<<0, 1>>>> ELSE <<<<1, 1>>>>
        IN BuildEvidence(f, r, cols, 1).truncated = lost

-----------------------------------------------------------------------------
\* Answers of a provider: chunks that arrive in time or late and add up to
\* less, exactly or more than the limit, and what they say.
ReplyChunks == {<<n, t>> : n \in {0, 1, MaxResponseBytes}, t \in {-1, 0, 1}}
Replies ==
    {[status |-> s, declared |-> d, chunks |-> Append(c, <<0, t>>), body |-> b] :
        s \in {"ok", "redirect", "timeout"}, d \in {0, MaxResponseBytes, MaxResponseBytes + 1},
        c \in UNION {[1 .. n -> ReplyChunks] : n \in 0 .. 2}, t \in {-1, 0}, b \in {"text", "malformed"}}
Decisions ==
    {[step |-> s, cites |-> c, abstain |-> a] :
        s \in 0 .. 3, c \in UNION {[1 .. n -> 1 .. 3] : n \in 0 .. 2}, a \in BOOLEAN}
Settings == [model : BOOLEAN, prompt : {TRUE}, timeout : {0, 1, MaxTimeout, MaxTimeout + 1}]
Fine == [model |-> TRUE, prompt |-> TRUE, timeout |-> 1]
FineReply == [status |-> "ok", declared |-> 0, chunks |-> <<<<1, 1>>, <<0, 0>>>>, body |-> "text"]
FineDecision == [step |-> 1, cites |-> <<1>>, abstain |-> FALSE]
Requests ==
    {[settings |-> Fine, reply |-> r, decision |-> FineDecision] : r \in Replies}
    \cup {[settings |-> s, reply |-> FineReply, decision |-> d] :
        s \in Settings, d \in Decisions}

\* How much arrives before the reader stops asking, and whether all of it came
\* before the deadline.
Arrived(chunks) ==
    LET stop == Min({k \in DOMAIN chunks : chunks[k][1] = 0})
    IN MapThenSumSet(LAMBDA k : chunks[k][1], 1 .. stop - 1)
InTime(chunks) ==
    \A k \in DOMAIN chunks :
        (\A l \in 1 .. k - 1 : chunks[l][1] # 0 /\ chunks[l][2] > 0) => chunks[k][2] >= 0

\* A result is never made of an answer that came late, that is over the limit
\* or that speaks of steps which were not sent; it cites steps in order, and it
\* names a step exactly when it does not abstain (localize_with_llm, complete,
\* _read_response_before_deadline).
AdviceIsGrounded ==
    Of("request") =>
        LET sent == {1, 3}
            out == LocalizeWithLLM(input.settings, sent, input.reply, input.decision)
            d == out.decision
        IN out.result =>
            /\ input.settings.timeout \in 1 .. MaxTimeout
            /\ Arrived(input.reply.chunks) <= MaxResponseBytes
            /\ InTime(input.reply.chunks)
            /\ Range(d.cites) \cup ({d.step} \ {0}) \subseteq sent
            /\ \A k \in 1 .. Len(d.cites) - 1 : d.cites[k] < d.cites[k + 1]
            /\ d.abstain <=> d.step = 0

\* What the model was shown and what is taken from its answer: evidence within
\* its limits around the candidate, cut openly, and an answer in time that speaks
\* only of what was sent (llm.py from trace to result).
AdviceIsSound == EvidenceIsBounded /\ TruncationIsReported /\ AdviceIsGrounded

-----------------------------------------------------------------------------
\* One disjunct per algorithm: its inputs, one per state.
Logged == kind = "log" /\ input' \in [log : Logs]
Scored ==
    kind = "matrix"
        /\ input' \in [scores : UNION {Matrices(n, m, {-10, 0, 10}) : n \in 1 .. 3, m \in 1 .. 2}
                                \cup Matrices(2, 3, {-10, 0, 10}) \cup Matrices(3, 3, {-6, 10})]
Aligned == kind = "pair" /\ \E g \in Traces(0, 3), b \in Traces(1, 3) :
    input' \in [good : {g}, bad : {b}, cols : Alignments(Len(g), Len(b))]
Compared == kind = "steps" /\ input' \in [a : Singles \cup Batches, b : Singles \cup Batches]
Localized == kind = "run" /\ input' \in [steps : Runs]
Selected == kind = "choice" /\ input' \in Selections
Evidenced == kind = "evidence" /\ input' \in Evidences
Asked == kind = "request" /\ input' \in Requests

\* An input of this module is chosen.
AnalysisKinds == {"log", "matrix", "pair", "steps", "run", "choice", "evidence", "request"}
AnalysisInput ==
    Logged \/ Scored \/ Aligned \/ Compared \/ Localized \/ Selected \/ Evidenced \/ Asked
=============================================================================
