----------------------------- MODULE MCPrograms -----------------------------
(***************************************************************************)
(* Every algorithm of the analysis and of the artifacts on its inputs, and *)
(* the small programs of the project: the agent of the benchmark, a batch  *)
(* of attempts, the label sheet, the stored objects, an idempotency key    *)
(* and a token; and the contract of requests and results.  A behaviour is  *)
(* one input or one of those programs.                                     *)
(***************************************************************************)
EXTENDS MCArtifacts, BenchAgent, BenchBatch, BenchCompare, LabelSheet,
        HostedObjects, IdempotencyKeys, TokenRotation, ResultContract

MCActions == {[name |-> "edit", arg |-> 1], [name |-> "read", arg |-> 1], [name |-> "read", arg |-> 2]}
MCPlanned == <<"k1", "k2", "k3">>
MCSamples == {<<1, 2>>, <<2, 1>>, <<1, 3>>, <<1, 2, 3>>}
\* Requests are alike, and so are the versions of an object.
Symmetry == Permutations(Callers) \cup Permutations(Versions)

-----------------------------------------------------------------------------
\* Runs of up to three steps: two names, two targets, and arguments that may
\* differ although the target does not.
BenchSteps ==
    {[name |-> n, target |-> t, hash |-> <<t, h>>] : n \in {"read", "edit"}, t \in {"a", "b"}, h \in {0, 1}}
BenchRuns == UNION {[1 .. n -> {[name |-> "read", target |-> t, hash |-> <<t, h>>] : t \in {"a", "b"}, h \in {0, 1}}] : n \in 1 .. 3}
             \cup UNION {[1 .. n -> {s \in BenchSteps : s.hash[2] = 0}] : n \in 1 .. 2}
AsAction(s) == [names |-> <<s.name>>, targets |-> <<<<{s.target}>>>>, rest |-> <<s.hash>>]

\* The three readings of where two runs part agree with each other: a wider key
\* parts later; the analysis names the same first difference; and "a backward
\* divergence definition and a forward one pick the same step" exactly when the
\* runs do not realign (Comparison.realigns).
ComparisonsAgree ==
    Of("compare") =>
        LET l == input.left
            r == input.right
            at == Parting("target", l, r)
            last(w) == Max({0} \cup Agreeing(w, l, r))
        IN /\ Survived("strict", l, r) <= Survived("target", l, r)
           /\ Survived("target", l, r) <= Survived("name", l, r)
           /\ at \in DOMAIN r =>
                  FirstTargetDifference([k \in DOMAIN l |-> AsAction(l[k])], [k \in DOMAIN r |-> AsAction(r[k])]) = at
           /\ at = 0 <=> /\ Len(l) = Len(r)
                         /\ \A k \in DOMAIN l : l[k].name = r[k].name /\ l[k].target = r[k].target
           /\ \A w \in {"strict", "target", "name"} :
                  Parting(w, l, r) # 0 => (Realigns(w, l, r) <=> last(w) + 1 # Parting(w, l, r))

Labels == UNION {[1 .. n -> {1, 2, 3, 4, 6, 9}] : n \in 1 .. 4}

\* "Best single index on this label set": no constant, listed or not, is within
\* the tolerance of more labels, and none that is as good is nearer the median
\* (oracle_constant).
OracleIsACeiling ==
    Of("labels") =>
        LET best == OracleConstant(input.labels)
            far(c) == Apart(2 * c, TwiceMedian(input.labels))
        IN \A c \in 0 .. 12 :
               /\ Hits(c, input.labels) <= Hits(best, input.labels)
               /\ Hits(c, input.labels) = Hits(best, input.labels) => far(best) <= far(c)

HitSeqs(n) == [1 .. n -> BOOLEAN]

\* "Exact binomial two-sided": the p value counts the outcomes of the discordant
\* pairs that are at least as uneven as the observed one, and does not depend on
\* which method comes first (mcnemar).
McNemarIsExact ==
    Of("hits") =>
        LET n == Cardinality({k \in DOMAIN input.a : input.a[k] # input.b[k]})
            k == Min({Discordant(input.a, input.b), Discordant(input.b, input.a)})
        IN /\ McNemar(input.a, input.b) = McNemar(input.b, input.a)
           /\ n > 0 => McNemar(input.a, input.b) =
                  Cardinality({S \in SUBSET (1 .. n) : Cardinality(S) <= k \/ n - Cardinality(S) <= k})

\* The evaluation computes the quantities it reports (fidelity.py, aligneval.py).
EvaluationIsExact == ComparisonsAgree /\ OracleIsACeiling /\ McNemarIsExact

-----------------------------------------------------------------------------
\* Requests with every operation, known and unknown, up to three runs in every
\* spelling, and every profile.
Spellings == {[uuid |-> "r1", form |-> f] : f \in {"canonical", "upper", "other"}}
             \cup {Spelled("r2"), [uuid |-> "", form |-> "none"]}
JobRequests ==
    [op : {"validate", "diff", "localize", "otlp", "pprof", "other"},
     runs : UNION {[1 .. n -> Spellings] : n \in 0 .. 3},
     profile : {"none", "align-v1", "align-v2", "localize-v1"}]

\* "One table so the request validator, the worker dispatch, and the control
\* plane cannot drift into disagreeing about which pairs are legal": they agree
\* on every request whose runs are spelled with hyphens, a worker performs what
\* was accepted on as many inputs as the claim hands out, and the client asks for
\* nothing else unless the runs are wrong (PublicJobRequest, validID,
\* normalizedDigest, _operation, claim, analyze).
RequestsAgree == Of("wanted") => RequestAgrees(input)

\* Two uploaded runs, ready after the validation of their bundles.
BundleOf(digest, steps, sound) ==
    [digest |-> digest, sound |-> sound, logical |-> [r1 |-> "l1", r2 |-> "l2"][digest], formats |-> <<1, 2, 3>>, events |-> 1,
     steps |-> steps, step |-> steps, spans |-> 1, shares |-> 0]
UploadedRow(run, digest) ==
    [run |-> Spelled(run), object |-> <<run, "v">>, bundle |-> digest, logical |-> "none", formats |-> <<1, -1, -1>>]
ValidationOf(run, digest) ==
    [id |-> <<"validate", run>>, op |-> "validate", attempt |-> 1, rows |-> <<UploadedRow(run, digest)>>]
ReadyRun(run, digest) ==
    ReadyRow(UploadedRow(run, digest), Completion(ValidationOf(run, digest), <<BundleOf(digest, 0, TRUE)>>, <<1, 1>>))
AnalysisOf(op, runs, attempt) ==
    [id |-> <<op, runs>>, op |-> op, attempt |-> attempt,
     rows |-> [k \in DOMAIN runs |-> ReadyRun(runs[k], runs[k])]]
HostedJobs ==
    {ValidationOf("r1", "r1"), ValidationOf("r2", "r2"), AnalysisOf("diff", <<"r1", "r2">>, 1),
     AnalysisOf("diff", <<"r2", "r1">>, 1), AnalysisOf("localize", <<"r1">>, 1),
     AnalysisOf("localize", <<"r1">>, 2), AnalysisOf("otlp", <<"r1">>, 1), AnalysisOf("pprof", <<"r1">>, 1)}

\* The bundle behind each input: as declared, another one or not valid at all,
\* with and without steps; outputs within and beyond the limit.
Executions ==
    UNION {[job : {job}, sizes : {1, MaxArtifact + 1} \X {1, MaxArtifact + 1},
            bundles : [DOMAIN job.rows -> {BundleOf(d, n, ok) : d \in {"r1", "r2"}, n \in {0, 2}, ok \in BOOLEAN}]]
           : job \in HostedJobs}

\* What a worker sends is valid by the contract and accepted by the control
\* plane, for an analysis on what a validation by the same worker has recorded;
\* and it sends something unless an input is not the declared and valid bundle,
\* there is no step to speak of, or an output is too large (_attempt, complete).
HonestResultIsAccepted ==
    Of("execution") =>
        LET bad == input.bundles[Len(input.bundles)]
        IN /\ HonestIsAccepted(input.job, input.bundles, input.sizes)
           /\ Completes(input.job, input.bundles, input.sizes) <=>
                  /\ \A k \in DOMAIN input.bundles :
                         input.bundles[k].sound /\ input.bundles[k].digest = input.job.rows[k].bundle
                  /\ input.job.op \in {"diff", "localize"} => bad.steps > 0
                  /\ input.sizes[1] <= MaxArtifact
                  /\ input.job.op = "validate" \/ input.sizes[2] <= MaxArtifact

HonestBundles(job) == [k \in DOMAIN job.rows |-> BundleOf(job.rows[k].bundle, 2, TRUE)]
Honest(job) == Completion(job, HonestBundles(job), <<1, 1>>)
\* Every result and companion, stored under the key of every other one.
StoredAnywhere ==
    LET all == UNION {Objects(Honest(job)) : job \in HostedJobs}
    IN {[o EXCEPT !.digest = p.digest] : o \in all, p \in all}
Mixed(c, d, fields) == [f \in DOMAIN c |-> IF f \in fields THEN d[f] ELSE c[f]]

\* A result is committed only for the job, the attempt and the inputs that it
\* was computed from, in their order: whatever is mixed from the completions of
\* two attempts and whatever is stored where, only the own one is accepted
\* (validateResultBindings, CompleteAttempt).  The identifier of the result is
\* the worker's choice.
ResultsAreBound ==
    Of("exchange") =>
        \A fields \in SUBSET (DOMAIN Honest(input.job) \ {"id", "media", "version", "size", "schema"}) :
            LET c == Mixed(Honest(input.job), Honest(input.other), fields)
            IN AcceptsCompletion(input.job, StoredAnywhere, c) => c = Honest(input.job)

\* Completions with one or two fields changed.
FieldChanges ==
    [attempt : {0, 1, 3, 4}] \cup [kind : Range(ResultKind) \cup {"diff_html"}] \cup [media : {"html"}]
    \cup [schema : {"none"}] \cup [size : {0, MaxArtifact, MaxArtifact + 1}]
    \cup [events : {0, MaxEventCount, MaxEventCount + 1}] \cup [logical : {"none", "l"}] \cup [bundle : {"none", "b"}]
    \cup [id : {[uuid |-> <<"x">>, form |-> f] : f \in {"upper", "other", "none"}}]
    \cup [formats : {<<0, 0, 0>>, <<1, 1, 1>>, <<1, 0, 1>>}]
    \cup [companions : {<<>>} \cup {<<x, x>> : x \in {Honest(job).companions[1] : job \in {j \in HostedJobs : j.op = "otlp"}}}
                       \cup {<<[Honest(job).companions[1] EXCEPT !.size = n, !.media = t, !.schema = s, !.id.form = f]>> :
                                job \in {j \in HostedJobs : j.op \in {"diff", "pprof"}}, n \in {0, MaxArtifact + 1},
                                t \in {"html", "octets"}, s \in {"none", "s"}, f \in {"canonical", "upper", "other"}}]
ChangedBodies ==
    {e2 @@ (e1 @@ Honest(job)) : job \in {j \in HostedJobs : j.op \in {"validate", "diff"}}, e1 \in FieldChanges, e2 \in FieldChanges}

\* The contract and the control plane agree on completions whose identifiers are
\* spelled with hyphens (ArtifactCommit, ValidWorkerRequest).
CompletionsAgree == Of("body") => CompletionAgrees(input.body)

\* The contract, the worker and the control plane agree on what may be asked for
\* and on what may be committed, identifiers spelled with hyphens, and a result is
\* committed for what it was computed from (contracts.py, worker.py, lifecycle.go, attempts.go,
\* workerapi/api.go).
ContractsAgree ==
    /\ RequestsAgree
    /\ HonestResultIsAccepted
    /\ ResultsAreBound
    /\ CompletionsAgree

-----------------------------------------------------------------------------
Ordering == kind = "wanted" /\ input' \in JobRequests
Executed == kind = "execution" /\ input' \in Executions
Paired == kind = "exchange" /\ input' \in [job : HostedJobs, other : HostedJobs]
Filled == kind = "body" /\ input' \in [body : ChangedBodies]
Sided == kind = "compare" /\ input' \in [left : BenchRuns, right : BenchRuns]
Labelled == kind = "labels" /\ input' \in [labels : Labels]
Judged == kind = "hits" /\ \E n \in 1 .. 5 : input' \in [a : HitSeqs(n), b : HitSeqs(n)]

InputKinds == AnalysisKinds \cup ArtifactKinds \cup {"compare", "labels", "hits", "wanted", "execution", "exchange", "body"}
ProgramKinds == {"agent", "batch", "sheet", "objects", "key", "token"}

benchVars == <<agentVars, batchVars, labelVars>>
hostedVars == <<objectVars, keyVars, tokenVars>>

Init ==
    /\ kind \in InputKinds \cup ProgramKinds
    /\ input = None
    /\ AgentInit /\ BatchInit /\ LabelInit /\ ObjectInit /\ KeyInit /\ TokenInit

ChooseInput ==
    /\ input = None
    /\ AnalysisInput \/ ArtifactInput \/ Sided \/ Labelled \/ Judged
       \/ Ordering \/ Executed \/ Paired \/ Filled
    /\ UNCHANGED <<kind, benchVars, hostedVars>>
AgentSteps ==
    kind = "agent" /\ AgentNext /\ UNCHANGED <<kind, input, batchVars, labelVars, hostedVars>>
BatchSteps ==
    kind = "batch" /\ BatchNext /\ UNCHANGED <<kind, input, agentVars, labelVars, hostedVars>>
SheetSteps ==
    kind = "sheet" /\ LabelNext /\ UNCHANGED <<kind, input, agentVars, batchVars, hostedVars>>
ObjectSteps ==
    kind = "objects" /\ ObjectNext /\ UNCHANGED <<kind, input, benchVars, keyVars, tokenVars>>
KeySteps ==
    kind = "key" /\ KeyNext /\ UNCHANGED <<kind, input, benchVars, objectVars, tokenVars>>
TokenSteps ==
    kind = "token" /\ TokenNext /\ UNCHANGED <<kind, input, benchVars, objectVars, keyVars>>

Next ==
    \/ ChooseInput \/ AgentSteps \/ BatchSteps \/ SheetSteps
    \/ ObjectSteps \/ KeySteps \/ TokenSteps
Spec == Init /\ [][Next]_<<kind, input, benchVars, hostedVars>>
=============================================================================
