--------------------------- MODULE ResultContract ---------------------------
(***************************************************************************)
(* What is asked for and what is committed: the request for an analysis    *)
(* and the completion of an attempt, as the contract states them           *)
(* (tracewake/contracts.py), as the worker fills them in (worker.py,       *)
(* remote.py) and as the control plane judges them (lifecycle.go,          *)
(* attempts.go, workerapi/api.go).  The three are written separately.      *)
(*                                                                         *)
(* A digest is the content it stands for, so the digest of a result is its *)
(* envelope.  An object is [key, version, digest, size] with its key made  *)
(* of job, attempt and kind.  The number 0 and "none" stand for null.      *)
(* An identifier is the UUID that is meant and the form in which it is     *)
(* spelled: "canonical" (lower case, hyphens), "upper" (hyphens, capital   *)
(* letters), "other" (no hyphens, in braces, a URN) or "none" (no UUID).   *)
(***************************************************************************)
EXTENDS Integers, Sequences, SequencesExt, Functions

CONSTANTS
    MaxArtifact,    \* MAX_ARTIFACT_BYTES, MaxResultSize
    MaxEventCount   \* event_count of a completion

ASSUME LimitsAssumption == MaxArtifact \in Nat /\ MaxEventCount \in Nat

-----------------------------------------------------------------------------
\* The request.  contracts.py is "authoritative": one table of profiles and
\* one of the number of runs.
RequiredProfile == [diff |-> "align-v2", localize |-> "localize-v1", otlp |-> "none", pprof |-> "none"]
RequiredRuns == [diff |-> 2, localize |-> 1, otlp |-> 1, pprof |-> 1]

Spelled(uuid) == [uuid |-> uuid, form |-> "canonical"]

\* A field of type UUID takes every spelling and keeps the value, which is
\* written again in the canonical form; so does a column of that type.
IsUuid(id) == id.form # "none"
Canonical(id) == Spelled(id.uuid)

\* validID of the control plane, which keeps the text and compares texts.
ValidID(id) == id.form \in {"canonical", "upper"}

\* PublicJobRequest
PublicRequestValid(request) ==
    /\ request.op \in DOMAIN RequiredRuns
    /\ Len(request.runs) = RequiredRuns[request.op]
    /\ \A k \in DOMAIN request.runs : IsUuid(request.runs[k])
    /\ IsInjective([k \in DOMAIN request.runs |-> request.runs[k].uuid])
    /\ request.profile = RequiredProfile[request.op]

\* remote.py analyze: the profile is looked up, nothing else is; the runs are sent
\* as they were typed.
AnalyzeRequest(op, runs) ==
    [op |-> op, runs |-> runs,
     profile |-> IF op \in DOMAIN RequiredProfile THEN RequiredProfile[op] ELSE "none"]

AnalysisOperations ==
    [diff |-> [profile |-> "align-v2", runs |-> 2], localize |-> [profile |-> "localize-v1", runs |-> 1],
     otlp |-> [profile |-> "none", runs |-> 1], pprof |-> [profile |-> "none", runs |-> 1]]

\* CreateJob and normalizedDigest, for runs that are ready.  One run under two
\* spellings passes both and is refused by the row of the input.
RequestVerdict(request) ==
    LET shape == AnalysisOperations[request.op]
    IN IF \E k \in DOMAIN request.runs : ~ValidID(request.runs[k]) THEN "invalid"
       ELSE IF request.op \notin DOMAIN AnalysisOperations THEN "unsupported"
       ELSE IF request.profile # shape.profile THEN "unsupported"
       ELSE IF Len(request.runs) # shape.runs THEN "invalid"
       ELSE IF shape.runs = 2 /\ request.runs[1] = request.runs[2] THEN "invalid"
       ELSE IF shape.runs = 2 /\ request.runs[1].uuid = request.runs[2].uuid THEN "error"
       ELSE "accepted"

\* _operation: the worker performs the claim exactly as asked, or refuses it.
WorkerSupports(op, profile) ==
    /\ op \in {"validate", "diff", "localize", "otlp", "pprof"}
    /\ profile = IF op \in DOMAIN RequiredProfile THEN RequiredProfile[op] ELSE "none"

\* claim: the number of inputs that it insists on.
ClaimedInputs(op) == IF op \in DOMAIN AnalysisOperations THEN AnalysisOperations[op].runs ELSE 1

-----------------------------------------------------------------------------
\* The worker.  A job is [id, op, attempt, rows]; a row is a run as the control
\* plane has it, [run, object, bundle, logical, formats], its last two fields
\* empty until it is validated.  The bundle behind an input is [digest, sound,
\* logical, formats, events, steps, step, spans, shares], where step is the
\* answer of localize and formats are those of bundle, cassette and events.
ResultKind ==
    [validate |-> "validation_json", diff |-> "diff_json", localize |-> "localize_result_json",
     otlp |-> "otlp_result_json", pprof |-> "pprof_result_json"]
CompanionKind == [diff |-> "diff_html", localize |-> "localize_json", otlp |-> "otlp_json", pprof |-> "pprof"]
MediaType ==
    [diff_html |-> "html", localize_json |-> "json", otlp_json |-> "json", pprof |-> "octets"]

\* _download_input: the bytes are what was declared, and a valid bundle.
Downloads(row, bundle) == bundle.digest = row.bundle /\ bundle.sound

\* RunProvenance, from the claim and the bundle; ResultInputs has the same
\* fields from the row.
Origin(row, bundle) ==
    [run |-> Canonical(row.run), object |-> row.object, bundle |-> bundle.digest,
     logical |-> bundle.logical, formats |-> bundle.formats]

\* _result_provenance
Origins(job, bundles) == [k \in DOMAIN job.rows |-> Origin(job.rows[k], bundles[k])]

\* _upload: declared, stored under the attempt, and named by a new identifier.
Uploaded(job, kind, media, schema, digest, size) ==
    [id |-> Spelled(<<job.id, job.attempt, kind>>), kind |-> kind, media |-> media, schema |-> schema,
     key |-> <<job.id, job.attempt, kind>>, version |-> "v", digest |-> digest, size |-> size]
Companion(job, bundles, size) ==
    Uploaded(job, CompanionKind[job.op], MediaType[CompanionKind[job.op]], "none", <<job.op, bundles>>, size)

\* _reference, and what artifactReferenceMatches compares with it as texts.
Referred(id, o) ==
    [id |-> id, media |-> o.media, key |-> o.key, version |-> o.version, digest |-> o.digest, size |-> o.size]
Reference(o) == Referred(Canonical(o.id), o)

\* The semantic results of _validate, _diff, _localize, _otlp and _pprof.
Semantic(job, bundles, size) ==
    LET bad == bundles[Len(bundles)]
        blank == [kind |-> job.op, run |-> "none", bundle |-> "none", logical |-> "none", events |-> 0,
                  step |-> 0, steps |-> 0, classed |-> FALSE, count |-> 0,
                  inputs |-> Origins(job, bundles), artifact |-> "none"]
        analysis == [blank EXCEPT !.artifact = Reference(Companion(job, bundles, size))]
    IN CASE job.op = "validate" ->
                [blank EXCEPT !.run = Canonical(job.rows[1].run), !.bundle = bad.digest, !.logical = bad.logical,
                              !.events = bad.events]
         [] job.op = "diff" ->
                [analysis EXCEPT !.step = IF bad.steps > 0 THEN bad.step ELSE 0, !.steps = bad.steps,
                                 !.classed = bad.steps > 0]
         [] job.op = "localize" -> [analysis EXCEPT !.step = bad.step, !.steps = bad.steps, !.classed = TRUE]
         [] job.op = "otlp" -> [analysis EXCEPT !.count = bad.spans]
         [] job.op = "pprof" -> [analysis EXCEPT !.count = bad.shares]

\* What the published schema says of a result.
SchemaValid(result) ==
    /\ result.kind \in DOMAIN ResultKind
    /\ Len(result.inputs) \in 1 .. 2
    /\ CASE result.kind = "validate" -> result.events >= 0
         [] result.kind = "diff" -> result.steps >= 1
         [] result.kind = "localize" -> result.step >= 1 /\ result.steps >= 1
         [] result.kind = "otlp" -> result.count >= 1
         [] result.kind = "pprof" -> result.count >= 0

\* The models of contracts.py, their validators included.
SemanticValid(result) ==
    /\ SchemaValid(result)
    /\ result.kind = "diff" => (result.step = 0 <=> ~result.classed)
    /\ result.kind = "localize" => result.step <= result.steps

\* ResultEnvelope: one outcome, and workers only send successes.
Envelope(result) == <<"succeeded", result>>

\* The completion that _attempt sends; _analysis leaves the run's identity empty.
Completion(job, bundles, sizes) ==
    LET validating == job.op = "validate"
        result == Semantic(job, bundles, sizes[2])
        o == Uploaded(job, ResultKind[job.op], "json", "result-envelope", Envelope(result), sizes[1])
    IN [id |-> o.id, kind |-> o.kind, media |-> o.media, schema |-> o.schema,
        key |-> o.key, version |-> o.version, digest |-> o.digest, size |-> o.size,
        attempt |-> job.attempt,
        logical |-> IF validating THEN bundles[1].logical ELSE "none",
        bundle |-> IF validating THEN bundles[1].digest ELSE "none",
        events |-> IF validating THEN bundles[1].events ELSE 0,
        formats |-> IF validating THEN bundles[1].formats ELSE <<0, 0, 0>>,
        companions |-> IF validating THEN <<>> ELSE <<Companion(job, bundles, sizes[2])>>]

\* Whether the worker gets as far as sending it: inputs, steps, limits and its
\* own contract.
Completes(job, bundles, sizes) ==
    /\ \A k \in DOMAIN job.rows : Downloads(job.rows[k], bundles[k])
    /\ job.op = "localize" => bundles[1].steps > 0
    /\ job.op # "validate" => sizes[2] <= MaxArtifact
    /\ SemanticValid(Semantic(job, bundles, sizes[2]))
    /\ sizes[1] <= MaxArtifact

-----------------------------------------------------------------------------
\* The contract of a completion: ArtifactCommit and its validator.
CompanionOf == [op \in {ResultKind[o] : o \in DOMAIN CompanionKind} |->
                    CompanionKind[CHOOSE o \in DOMAIN CompanionKind : ResultKind[o] = op]]
IdentityEmpty(c) == c.logical = "none" /\ c.bundle = "none" /\ c.events = 0 /\ c.formats = <<0, 0, 0>>
CommitValid(c) ==
    /\ c.kind \in DOMAIN CompanionOf \cup {"validation_json"}
    /\ c.attempt \in 1 .. 3 /\ c.media = "json" /\ c.schema = "result-envelope" /\ IsUuid(c.id)
    /\ c.size \in 0 .. MaxArtifact /\ c.events \in 0 .. MaxEventCount
    /\ Len(c.companions) <= 1
    /\ \A k \in 1 .. 3 : c.formats[k] >= 0
    /\ IF c.kind = "validation_json"
       THEN /\ c.companions = <<>> /\ c.logical # "none" /\ c.bundle # "none"
            /\ \A k \in 1 .. 3 : c.formats[k] >= 1
       ELSE /\ Len(c.companions) = 1 /\ c.companions[1].kind = CompanionOf[c.kind]
            /\ IdentityEmpty(c)
    /\ \A k \in DOMAIN c.companions :
           /\ c.companions[k].schema = "none" /\ c.companions[k].size >= 0 /\ IsUuid(c.companions[k].id)
           /\ c.companions[k].media = MediaType[c.companions[k].kind]

\* The same judged by the control plane: Completion.ValidWorkerRequest.
ValidWorkerRequest(c, attempt) ==
    /\ c.attempt = attempt /\ ValidID(c.id) /\ c.size \in 0 .. MaxArtifact
    /\ c.media = "json" /\ c.schema = "result-envelope" /\ c.events \in 0 .. MaxEventCount
    /\ c.kind \in DOMAIN CompanionOf \cup {"validation_json"}
    /\ IF c.kind = "validation_json"
       THEN /\ c.companions = <<>> /\ c.logical # "none" /\ c.bundle # "none"
            /\ \A k \in 1 .. 3 : c.formats[k] > 0
       ELSE /\ Len(c.companions) = 1 /\ IdentityEmpty(c)
            /\ LET companion == c.companions[1]
               IN /\ companion.kind = CompanionOf[c.kind] /\ ValidID(companion.id) /\ companion.size \in 0 .. MaxArtifact
                  /\ companion.media = MediaType[companion.kind] /\ companion.schema = "none"

\* validateResultEnvelope: the schema, one outcome, and the canonical bytes of
\* it, which the digest already is.
EnvelopeValid(envelope) ==
    envelope[1] = "succeeded" /\ SchemaValid(envelope[2])

\* validationResultMatches
ValidationMatches(result, c, row) ==
    /\ result.run = row.run /\ result.bundle = row.bundle /\ result.logical = c.logical
    /\ result.events = c.events
    /\ c.bundle = row.bundle /\ c.formats[1] = row.formats[1]

\* provenanceInputsMatch: in order; of a validation the completion says what
\* the row does not know yet.
ProvenanceMatches(result, c, rows) ==
    /\ Len(result.inputs) = Len(rows)
    /\ \A k \in DOMAIN rows :
           LET logical == IF result.kind = "validate" THEN c.logical ELSE rows[k].logical
               others == IF result.kind = "validate" THEN c.formats ELSE rows[k].formats
           IN result.inputs[k] =
                  [run |-> rows[k].run, object |-> rows[k].object, bundle |-> rows[k].bundle,
                   logical |-> logical, formats |-> <<rows[k].formats[1], others[2], others[3]>>]

\* Fault: the result may come from other inputs.
BindingsMatchAnyInputs(result, c, rows) ==
    /\ c.kind = ResultKind[result.kind]
    /\ IF result.kind = "validate"
       THEN Len(rows) = 1 /\ ValidationMatches(result, c, rows[1])
       ELSE Len(rows) = (IF result.kind = "diff" THEN 2 ELSE 1)

\* validateResultBindings
BindingsMatch(result, c, rows) ==
    /\ c.kind = ResultKind[result.kind]
    /\ IF result.kind = "validate"
       THEN Len(rows) = 1 /\ c.companions = <<>> /\ ValidationMatches(result, c, rows[1])
       ELSE /\ Len(rows) = (IF result.kind = "diff" THEN 2 ELSE 1)
            /\ Len(c.companions) = 1 /\ c.companions[1].kind = CompanionKind[result.kind]
            /\ Referred(c.companions[1].id, c.companions[1]) = result.artifact /\ c.companions[1].schema = "none"
    /\ ProvenanceMatches(result, c, rows)

\* Commit and verifyStoredObject: the object is stored as declared.
StoredAs(store, o) == [key |-> o.key, version |-> o.version, digest |-> o.digest, size |-> o.size] \in store

\* complete and CompleteAttempt, for an attempt that is live.
AcceptsCompletion(job, store, c) ==
    LET within(key) == key[1] = job.id /\ key[2] = job.attempt
    IN /\ ValidWorkerRequest(c, job.attempt)
       /\ within(c.key) /\ \A k \in DOMAIN c.companions : within(c.companions[k].key)
       /\ StoredAs(store, c) /\ \A k \in DOMAIN c.companions : StoredAs(store, c.companions[k])
       /\ EnvelopeValid(c.digest)
       /\ BindingsMatch(c.digest[2], c, job.rows)
       /\ c.kind = ResultKind[job.op] /\ c.key = <<job.id, job.attempt, c.kind>>
       /\ IF job.op = "validate" THEN c.companions = <<>> /\ job.rows[1].bundle = c.bundle
          ELSE /\ Len(c.companions) = 1
               /\ c.companions[1].kind = CompanionKind[job.op]
               /\ c.companions[1].key = <<job.id, job.attempt, c.companions[1].kind>>

\* CompleteAttempt of a validation makes the run ready.
ReadyRow(row, c) == [row EXCEPT !.logical = c.logical, !.formats = c.formats]

-----------------------------------------------------------------------------
\* The control plane accepts exactly what the contract allows, spelled with
\* hyphens: the contract alone also reads other spellings of a UUID, and one run
\* under two spellings, which the control plane takes for two, is not accepted
\* either.  A worker performs what was accepted on as many inputs as the claim
\* hands out, and the client asks for it as it is accepted (PublicJobRequest,
\* validID, normalizedDigest, _operation, claim, analyze).
RequestAgrees(request) ==
    /\ RequestVerdict(request) = "accepted" <=>
           PublicRequestValid(request) /\ \A k \in DOMAIN request.runs : ValidID(request.runs[k])
    /\ RequestVerdict(request) = "error" =>
           \E i, k \in DOMAIN request.runs :
               request.runs[i].uuid = request.runs[k].uuid /\ request.runs[i].form # request.runs[k].form
    /\ PublicRequestValid(request) =>
           /\ WorkerSupports(request.op, request.profile)
           /\ ClaimedInputs(request.op) = Len(request.runs)
           /\ AnalyzeRequest(request.op, request.runs) = request

\* The control plane takes a completion only if the contract allows it, and all
\* that the contract allows of this attempt; only the size of a companion is
\* bounded by the control plane alone, and only the contract reads identifiers
\* without hyphens (ArtifactCommit, ValidWorkerRequest).
CompletionAgrees(c) ==
    /\ ValidWorkerRequest(c, c.attempt) /\ c.attempt \in 1 .. 3 => CommitValid(c)
    /\ /\ CommitValid(c) /\ ValidID(c.id)
       /\ \A k \in DOMAIN c.companions : c.companions[k].size <= MaxArtifact /\ ValidID(c.companions[k].id)
       => ValidWorkerRequest(c, c.attempt)

\* The objects a completion names, stored as it declares them.
Objects(c) ==
    {[key |-> o.key, version |-> o.version, digest |-> o.digest, size |-> o.size] : o \in {c} \cup Range(c.companions)}

\* What a worker sends is valid by the contract and accepted by the control
\* plane (_attempt, ArtifactCommit, complete).
HonestIsAccepted(job, bundles, sizes) ==
    LET c == Completion(job, bundles, sizes)
    IN Completes(job, bundles, sizes) => CommitValid(c) /\ AcceptsCompletion(job, Objects(c), c)
=============================================================================
