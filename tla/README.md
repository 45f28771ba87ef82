# Tracewake in TLA+

Tracewake records runs of LLM agents, replays them deterministically and
compares them. A hosted control plane takes uploaded recordings and executes
validations and analyses of them on leased workers. This directory models the
parts whose correctness is hard to test: transactions that meet, messages that
are lost or repeated, leases that run out, threads that interrupt each other,
processes that die; and the algorithms and formats whose edges are easily missed.
TLC checks the models on small instances. For every instance, TLAPS proves the
safety properties of the state machines: the job lifecycle and its transactions,
tokens, keys and stored objects of the control plane, the worker, the cassette
import, sessions, and the programs of the benchmark; and that the contract, the worker
and the control plane agree on requests and results, up to the spelling of
identifiers. Paths below are relative to
`src/`.

## The system

| Part | State | Operations | What makes it correct | Modules |
|---|---|---|---|---|
| Job lifecycle, `controlplane/internal/controlplane/lifecycle.go` | PostgreSQL rows `runs`, `jobs`, `job_inputs`, `job_attempts`, `outbox` | CreateUpload, CompleteUpload, CreateJob, claim | a job is claimed only at its current version, with usable inputs and an attempt left | JobLifecycle, JobContract |
| Attempts, `attempts.go` | lease of an attempt, progress snapshot, artifacts | Heartbeat, UpdateProgress, FailAttempt, CompleteAttempt, RequestCancellation | one live attempt per job, one result, terminal rows immutable (both up to the deletion race), progress forward | JobLifecycle, LifecycleTransactions |
| Reconciler and outbox, `reconcile.go` | unpublished outbox rows, queue messages | Reconcile, PublishOutbox, NextNotification, AcknowledgeNotification | nothing stays open for ever although messages are lost and publishers die | JobLifecycle |
| Retention and deletion, `retention.go` | run and artifact deadlines | DeleteRun, EnforceRetention | nothing derived from a deleted run is offered or executed | JobLifecycle, LifecycleTransactions |
| Idempotency, `lifecycle.go` CreateJob | `idempotency_records` | look up, insert, sweep | a key names one job while its record lives | IdempotencyKeys |
| Tokens, `auth.go`, `service.go` | verifier of a token, key ring of a replica | register, authenticate, rotate | a replaced secret never works again, the registered one always does | TokenRotation |
| Artifact store, `artifacts/`, with `tracewaked/main.go` | object versions, rows that register them | put, verify, register, Cleanup | an object that a live row names is there | HostedObjects |
| Worker, `tracewake/worker.py` | current claim, three threads, the message | receive, claim, execute, heartbeat, watch, complete, settle | a message is deleted only when nobody can need it, a fenced worker stops | WorkerThreads |
| Request and result contract, `tracewake/contracts.py`, `workerapi/api.go` | none | validate a request, fill in and judge a completion | three separately written versions agree up to the spelling of identifiers, a result is bound to its inputs | ResultContract |
| Recording and replay, `tracewake/session.py`, `matching.py`, `fs.py` | event log, cursors over recorded calls | model call, stream, tool, environment and file access, fork, finish | a replay hands out what was recorded and touches nothing | ReplaySession |
| Interception, `patches.py`, `redaction.py` | patched attributes | install, unwind, redact | a value is recorded once, no credential is stored unless it meets a placeholder | Capture |
| Commands, `cli.py` | a child process, two files, a row | record, replay, intervene | the row is settled whichever child or helper dies | RecordCommand |
| Local store, `store.py`, `cassette.py` import | SQLite database, blob files, staging directories | put, append, import_cassette, cleanup at open | a committed event's blobs exist, a failed import leaves nothing | CassetteImport |
| Formats, `events.py`, `cassette.py`, `bundle.py` | none | order, digest, export, validate, bundle | what is accepted is what was recorded | Cassette |
| Analysis, `align.py`, `diverge.py`, `llm.py` | none | extract, align, localize, ask a model | the answer is what its definition says | Alignment, Divergence, Advisory |
| Exports, `pprof.py`, `otel.py`, `report.py` | none | attribute, encode, fit to a budget | nothing is lost or counted twice | Exports |
| Benchmark, `bench/agent.py`, `runner.py`, `label.py`, `fidelity.py`, `aligneval.py` | trace of an agent, ledger, label sheet | turn, attempt, export, label, compare | budgets and refusals are true, a restart loses no attempt, a kill no label unless it falls into the rewriting of the sheet, statistics are exact | BenchAgent, BenchBatch, LabelSheet, BenchCompare |

How they interact. A tenant's request inserts a job and an outbox row in one
transaction. The loop of `tracewaked` sends outbox rows to SQS, or workers poll
the rows themselves. A worker claims the job that a notification names, at the
version it names, and gets an attempt token with a lease. Every later request
carries the token and is accepted by `checkAttempt` only while the attempt is
current, live and its inputs usable. The worker uploads its result as an object,
the control plane verifies and registers it. The reconciler repairs what nobody
finishes: it fences expired attempts, releases due retries and republishes
stranded notifications. Deletion, retention and object cleanup cut across all of
it. Locally, a command starts the program under patches, the session appends what
it intercepts to the store, and a later session serves it again; cassettes and
bundles carry a run from one store to another, and the analyses read its log.

The hard behaviours are the races of transactions under READ COMMITTED, late
requests under old tokens, duplicated and lost notifications, crashes between two
steps, interrupts that meet in one thread, snapshots that are stale when used,
file system steps that no lock covers, parallel tools that share cursors, and the
edges of the algorithms. `PROJECT.json` lists them as hazards, each with its line
and the properties aimed at it.

## Modules

### The control plane

**JobLifecycle** is the core. One action is one committed transaction; a
transaction that returns an error is rolled back and is a stuttering step. The
variables are the columns that the code's conditions read:

| Variables | Columns or messages |
|---|---|
| `runState`, `erased` | `runs.state`; runs a tenant deleted |
| `jobState`, `currentAttempt`, `retryIn`, `quietIn`, `rowVersion`, `result`, `failure` | `jobs.state`, `current_attempt_number` (0 for NULL), `retry_at`, `updated_at`, `row_version`, `result_artifact_id`, `failure_code` (permanent, `retry_exhausted` or none) |
| `jobOp`, `jobRuns` | `job_inputs` |
| `attempts`, `attemptState`, `lease` | `job_attempts` rows, states, `lease_expires_at` |
| `artifact` | authoritative `artifacts` rows of an attempt |
| `storedAttempt`, `storedSequence` | `progress_snapshots` |
| `outbox`, `queue` | unpublished `outbox` rows; messages a worker may still act on |

Time is relative: a deadline is the number of ticks left. Every token ever issued may
be used in any state, so late, repeated and reordered requests need no machinery of
their own. A message stays in `queue` until it is settled or lost, so it may be
claimed any number of times; that is SQS delivery at least once. `PublishOutbox` with
`committed = FALSE` is a crash or a failing send between the first message and the
commit. `ReconcileBatch` takes any subset of the candidates, because `SKIP LOCKED` and
the batch limit may pass over rows. `DeleteRun` and `EnforceRetention` are one step
each and yet leave room for the race between their statements (`retention.go:99` and
`:105`): `missed` is any set of affected jobs whose running attempt the first
statement did not see, because a claim committed in between. Such an attempt stays
running under its cancelled job until a later retention pass, or the deletion of the
other input, cancels it. `OneLiveAttempt` and `TerminalIsFinal` except exactly this
attempt.

**JobContract** is the abstract specification: the transition table of
`contracts/lifecycle-v1.json` with the attempt number, the current attempt, the result
and the failure that its pre- and postconditions mention: a job fails permanently at
any attempt and as `retry_exhausted` only at the last. `ImplementsContract` states
that JobLifecycle implements it under the mapping `state <- jobState`, `attempt <-
attempts`, `current <- currentAttempt`, `result` and `failure` being themselves. It is
shown by TLC on an instance and proved in general.

**LifecycleTransactions** opens up the transactions of JobLifecycle that meet on one
run, its job and the job's first attempt: any number of them (`Txns`), each of one of
eleven kinds (`Kind`): deletion, creation, claim, heartbeat or progress, completion,
failure, retryable failure, cancellation, the fencing of an expired lease by the
reconciler (which skips locked rows), retention's repair of work whose run is gone,
and retention with the expiry of the run itself. At most `Connections` of them are
open at a time. Left out are the release of a due retry, which touches the job's row
alone, the attempts after the first, and uploads, which precede the job. A transaction
is a sequence of statements on those rows; a statement picks its row from the
committed state, waits for the lock and looks again at the version it locked, as
PostgreSQL does under READ COMMITTED. Deletion and retention lock the attempt first,
everybody else the job first, so deadlocks happen and one transaction is aborted. This
module is what justifies the atomic actions of JobLifecycle, and it is where their one
exception, the attempts that a deletion misses, comes from.

**HostedObjects** is one owner (a pending run or a live attempt) with the
versions uploaded for it. Callers verify an object and register it in separate
steps, as `completeUpload` and the worker API's `complete` do; the sweep takes
its snapshot of `RetainedObjects` first and its cutoff later, as `main.go` does.
In the file store a version is the digest and may be uploaded again; in S3 every
upload is a new version.

**IdempotencyKeys** interleaves the look-up, insert and commit of several
requests under one key with the expiry of its record and the sweep.

**TokenRotation** is one token row and replicas with key rings of neighbouring
versions. A login reads the row, verifies, and migrates the verifier only if the
row is unchanged since. `hmacDigest` is injective: a verifier is the pair of
pepper and secret.

**ResultContract** holds three separately written versions of what may be asked
for and committed: `contracts.py`, the worker with its client (`worker.py`,
`remote.py`), and the control plane. A digest is the content it stands for. An
identifier is a UUID with its spelling: `contracts.py` reads every spelling and writes
the canonical one; `validID` (`ids.go`) takes hyphenated text in either case and keeps
it, and `normalizedDigest` compares texts.

**WorkerThreads** is one worker process: the main thread and, per attempt, the
heartbeat and the cancellation thread. Both stop the main thread through
`_thread.interrupt_main()`, as SIGTERM does: one pending flag that becomes
KeyboardInterrupt at the main thread's next bytecode. The control plane is one
job, by the notifications of its attempts. A request is one step at the control
plane and one in which the reply is read or lost. A conflict is answered to an attempt
that is no longer live, and also to a live one whose input or result is refused.

### Recording and replay

**ReplaySession** is a sequence of sessions over one store: recording in its
modes, replay, fork. The agent runs in the thread `Main` and tools in threads of
their own. A request is the set of its context blocks; responses, tool results
and clock values are numbers that no two live calls share. What the agent
observes is kept as `transcript`, and the script of a run is the transcript of
the agent that recorded it, so that a replay can be compared with it. The log holds
less: `Recorded` puts every event through the redactor (`Redacted` says which texts are
not stored as they are, `Restored` which variables get their home directory back) and
through `before_record`, which may drop kinds of events (`Dropped`). Requests and
arguments are compared redacted, by any of the five predicates of `matching.py`.
A hook that changes values may be taken for a part of the redactor as long as it leaves
the fields alone that requests are matched by; names, paths and keys are taken to be in
their redacted form. Sessions and recorders may die.

**CassetteImport** is a local store directory shared by importing, recording
and opening processes. One step is one file system call or one SQLite
transaction boundary of `store.py` and `cassette.py`. A file is known by who
created it, which is what `os.path.samefile(staged, target)` asks about. An
import may raise at any point of its transaction and die at any point at all; a
recorder puts one blob and appends one event; an opener runs
`_cleanup_import_staging`. A directory that is pruned or made at the same moment
by two processes only makes one of them raise, which the failing steps
(`FailImport`, `AbandonImport`, the state `"raised"`) already allow.

**Cassette**, **Capture**, **RecordCommand** and **Exports** are operators: the
canonical order and digest of a run, its export and what a validator accepts; the
redaction of texts and streams and the patches of the standard library; a command
with its child under a schedule that may end anywhere; token shares, the bytes of
a profile and their reader, spans and the report's budget. A hash is its argument,
so equal hashes mean equal contents. A bundle has its limits on blobs, event bytes,
events, entries and the archive, and an event may hold a character at which
`splitlines` breaks. A text of the report is made of plain characters, of
characters of two bytes, or of `<`, which is escaped after the measurement.

### Analysis and benchmark

**Alignment** (extraction of steps, similarity, Gotoh's tables and traceback, the
divergence, the baselines), **Divergence** (commitments and the rule that
localizes a failure in one run) and **Advisory** (evidence, clipping, the reply of
a provider and what is accepted of it) are operators. Similarities are integers
scaled so that the fractions that occur are exact; the ratio of two texts is difflib's,
with its longest matching blocks. Evidence is cut at the arguments, the reasoning, the
results, the outcome and the messages.

**BenchAgent** is the turn loop of the benchmark's agent with its budgets, elided
observations and refused repetitions; **BenchBatch** is processes that work
through shards of attempts, die and are started again (what a process has left is a
set of positions in the plan, of which it takes the smallest); **LabelSheet** is exporting
and labelling under interruption; **BenchCompare** holds the comparison of runs,
the best constant and McNemar's test.

### Roots of the runs

`MCJobLifecycle`, `MCLifecycleTransactions`, `MCCassetteImport` and
`MCReplaySession` add symmetry sets and the constants' values. `MCAnalysis` and
`MCArtifacts` evaluate operators: a state is the kind of an input and one input of
a bounded set, and the properties compare the operator with a definition that is
written differently. `MCPrograms` adds the inputs of ResultContract and
BenchCompare and runs the small programs (BenchAgent, BenchBatch, LabelSheet,
HostedObjects, IdempotencyKeys, TokenRotation): a behaviour is one input or one of
these programs. `*Proofs` modules hold the theorems.

The definitions marked *Fault* are plausible mistakes in the definition below
each of them. No specification uses them; each shows that some property
notices the mistake.

## Runs

Each run is `tlc -config <name>.cfg <module>`. The count is distinct states.

| Run | Module | Properties | Bounds, and why they are enough |
|---|---|---|---|
| Diff (191k) | MCJobLifecycle | QueuedIsClaimable, ErasedLeavesNothing, RowsAgree, TerminalIsFinal, RefusalIsFinal | two runs, three jobs, two attempts, workers that poll: both validations and a diff of both runs, the smallest instance in which deleting one run touches a job that has another input |
| Retries (114k) | MCJobLifecycle | TypeOK, OneLiveAttempt, OneResult, ProgressAdvances, ImplementsContract, JobsSettle | hosted queue, the code's three attempts, a lease of two ticks so that a token outlives its attempt, two different delays, two progress sequences, republication and loss of messages up to version 2 |
| Deleting (1.19M) | MCLifecycleTransactions | CommittedIsSerial | every kind of transaction but the heartbeat (which is the first statements of the others), one of each, three open at a time (a deletion, a transaction it races and one that both wait for), reconciliation and retention any number of times, for each of the two kinds of job |
| LocksEnd (13k) | MCLifecycleTransactions | TransactionsSettle, DeletionFencesEventually | six kinds of transactions that include both lock orders, three open at a time; reconciliation waits for no lock and is left to Deleting |
| SharedStore (1.4M) | MCCassetteImport | ImportsKeepBlobs, ImportedOnce, StagesAreRecovered | two imports of one cassette, two shared blobs, a recorder, two processes that open the store; failures and deaths everywhere. Two openers are needed: one to take a lock file away, one to find the stage without it |
| ReplayCalls (1.16M) | MCReplaySession | CallsAreAccounted, ReplayIsFaithful, SessionsKeepOut | one recording, two sessions over it, three operations each: a call, a repeated call and a tool, streams of one chunk that are cut or fail, forks that drop a block, a block and a response that are stored redacted |
| ReplayInputs | MCReplaySession | ReplayIsFaithful, SessionsKeepOut | the agent and two parallel tools on the clock, one variable and one file whose contents change between sessions; a value that is redacted, one that is restored, and a hook that drops a kind of input |
| Worker (328k) | WorkerThreads | SettledIsDurable, FencedWorkerLetsGo | two attempts, so that a message of the second is met by threads of the first; an operation the worker knows and one it does not |
| Programs (640k) | MCPrograms | AlignmentIsSound, LocalizationIsSound, AdviceIsSound, ArtifactsAreGenuine, SecretsStayOut, InterceptionIsExact, CommandKeepsVerdicts, ExportsAddUp, ContractsAgree, RegisteredObjectsExist, KeysAreExact, RotationKeepsTheSecret, AgentAccounts, BatchIsExact, LabelsSurvive, EvaluationIsExact | see below |

Most properties are conjunctions of named parts, one per idea; the parts are stated
beside them. `RowsAgree` is QueuedIsPolled, NoticesAreNotAhead and ValidationDecides;
`JobsSettle` is JobsEnd, RetriesHappen and ValidationSettles; `CommittedIsSerial` is
DeletionIsComplete, SuccessIsWhole, OnlyDeletionLeavesAttempts and RetriesAreFenced;
`ImportsKeepBlobs` is OwnLinksStay and, while imports are alone, ReferencedBlobsExist;
`StagesAreRecovered` is NoOrphans and LockedImportsAreSafe; `CallsAreAccounted` is
CallsLoggedOnce, AnswersAreLogged and DroppedIsDropped; `ReplayIsFaithful` is TypeOK,
EachValueOnce, ReplayReproduces and ReportIsHonest; `SessionsKeepOut` is
ReplayTouchesNothing and LogsOnlyGrow; `FencedWorkerLetsGo` is FencedStopsHolding and
LostLeaseStops; the properties of Programs join what one source file has to get right
from its input to its answer. The type invariants of LifecycleTransactions,
CassetteImport, ReplaySession and WorkerThreads are part of CommittedIsSerial,
StagesAreRecovered, ReplayIsFaithful and FencedWorkerLetsGo.

The inputs of Programs. Logs of up to five events with parallel tools; every score
matrix up to 3 x 3 over a few values, against all alignments of its size; every pair
of traces up to three steps with every alignment; steps that write texts whose ratio
depends on their order; runs of up to three steps on two paths, of two with batches of
which one tool writes; evidence around the code's own limits (160 steps, 20 at the
ends, 50 around the candidate) and around small limits and budgets; replies in up to
two chunks, late or too long; every single edit of a recording of eight events, with
its numbers and counts fixed up or not; exports at every limit of a bundle and one
beyond, with a text at which `splitlines` breaks; texts of five characters with
overlapping credentials, in any two chunks, and texts made of placeholders with
credentials that meet them; five nested opens and closes of three patches; call chains
of five frames; every schedule of a command with a child and a second process;
messages and tokens on both sides of a rounding and of a two-byte length; logs in
which a tool result was recorded twice; every request of up to three runs in every
spelling; two changes to a completion, and any mixture of two honest ones. Objects:
two versions, two callers, both as symmetry sets, a grace period of two ticks. Key:
three clients, two request bodies, a lifetime of three hours. Token: two replicas, two
logins, two secrets, three peppers. Agent: three actions, four steps, two kept
observations, two stalls. Batch: three processes on two shards of three attempts.
Sheet: four selections, one of three pairs.

Deadlock is checked in every run of JobLifecycle and LifecycleTransactions;
elsewhere processes finish, so those runs switch the check off.

The bounds named in the modules: `MaxSequence` (progress numbers), `RepublishBound`
(the reconciler republishes, and messages are lost, only below this row version;
without it an unclaimed job is republished for ever), `Txns` (the transactions of an
instance), `Connections` (those open at a time), `MaxRuns`, `MaxSessions`, `MaxOps`
and `Chunks` (ReplaySession), `MaxAttempts`, `MaxTime` and `MaxHours` (the clocks of
HostedObjects and IdempotencyKeys), `MaxPepper`, `MaxSteps`. `Grace`, `Slack`,
`Lifetime`, `TransactionTicks`, `MaxArtifact`, `MaxEventCount`, the limits of Advisory
(`ArgumentLimit`, `ReasonLimit` and the budgets) and of a bundle (`MaxBlobSize`,
`MaxEventBytes`, `MaxBundleEvents`, `MaxEntries`, `MaxBundleBytes`) are the code's own
limits at a small scale. `LoseNotification` is under the same bound as republication,
so the bound never invents a loss that nobody would repair.

### What the code does differently from its documents

Three runs are expected to end in a counterexample. Each states what the
repository says and finds what the code does; `PROJECT.json` quotes the lines.

| Run | Statement | What happens |
|---|---|---|
| DeletionRace | a resolved cancellation fences the current attempt | a claim that commits between two statements of DeleteRun leaves a running attempt under a cancelled job until the next retention pass |
| RecordingRace | a failed import removes only its own blobs | a recorder reuses a blob that an import has linked; the import fails and removes it, or dies and a process that opens the store does; the recorder's event commits |
| SwallowedShutdown | on shutdown a worker stops new claims | SIGTERM arrives while a thread of the attempt interrupts the main thread; the handler takes it for the lost lease and the loop claims again |

### Observations

Met while modelling, without a run of their own. The models do what the code does
in each of them; where a property excepts one, its comment says so.

Control plane and worker:
- `attempts.go:217`: while a job waits for its retry `current_attempt_number` is
  NULL; `checkAttempt` scans it into an int, so a stale attempt is answered with an
  internal error and not with `lease_lost` (`contracts/worker-protocol-v1.md:80`).
- `attempts.go:325`: cancelling a validation leaves its run validating, with nothing
  to wait for (`contracts/public-api-v1.md:82`). `ValidationSettles` excepts it.
- `reconcile.go:224`: a queued job is taken for stranded by the age of its rows and
  never by `published_at`, so a notification that was published late is republished
  at once. `quietIn` therefore runs from the row's creation.
- An idempotency record that has expired and was not swept makes CreateJob fail
  until the sweep; of two concurrent duplicates one gets an error and not the
  original response.
- Of two logins that migrate one verifier at the same time, one is refused; a replica
  with an older ring refuses a migrated token.
- An object that is registered a day after its upload, or between the snapshot and
  the cutoff of a cleanup, can be lost.
- `contracts.py` reads a UUID without hyphens, in braces or as a URN, which `validID`
  (`ids.go:18`) refuses; one run under two spellings is two runs to the control plane until
  the database compares them, and the request ends in an error. `RequestAgrees` and
  `CompletionAgrees` are about identifiers with hyphens.
- The control plane checks a result by its JSON schema only, so the validators of
  `contracts.py` that relate fields are enforced by the worker alone; the size of a
  companion is bounded by the control plane alone; a diff of a failing run without
  steps fails as an invalid result after its page was uploaded.

Local store and recording:
- `store.py:200`: an import links a blob and dies; a second import of the cassette finds
  the file and reuses it; a process that opens the store meets the dead import's stage
  and finds the blob unreferenced; the second import commits; the process unlinks the
  blob. What an import has linked itself cannot be lost this way (`OwnLinksStay`);
  without a recorder the rest of `ImportsKeepBlobs` is therefore about imports alone.
- `store.py:159`: a stage that is removed before its import has locked it comes back
  without a lock; a second opening process cleans the live import. `NoOrphans` and
  `LockedImportsAreSafe` except such imports (`detached`).
- `contracts/bundle-v1.md:89`: the hashes derived from bodies are not checked by
  `validate_bundle`. The digest of a cassette accepts another order of events across
  tools. `bundle_header` says "ok" of a run without an outcome.
- The lines of a bundle are split with `splitlines`, which also breaks at U+2028: a run
  with such a text is built into a bundle that no validator accepts.
  `ExportsAreAccepted` states it as the exception.
- A credential that is split over the chunks of a stream makes the append raise. The
  redactor says "It is idempotent, so applying it twice to the same value is safe"
  (`redaction.py:26`); a credential that lies in the placeholder, such as `REDACTED`, is
  put into it again by every pass, one that meets a placeholder may be spelled by it, and
  `restore_path` changes a text that held a literal `<HOME>`. `RedactionIsStable`,
  `NoSecretIsStored` and `SecretsGoWhole` except these (`Separate`).
- What the redactor rewrites is not shown again as it was seen: responses and tool
  results are replayed as stored, variables with the home directory put back. A hook
  that drops calls, tool results or outcomes makes their replay a miss.
  `ReplayReproduces` is up to redaction and excepts such hooks (`DropsInputsOnly`).
- The close of an inner session removes the shadow of an outer one.
- A child that is killed between closing its session and reporting leaves "ok"; one
  that is killed while it adds episodes leaves the old verdict; one that is killed
  between creating its run and announcing it leaves "running"; a Python process that
  the program starts inherits the bootstrap.
- A replayed tool is not executed, so the keys it accessed stay in the cursors and the
  agent may get them; `ReplayReproduces` excepts these keys.
- `session.py:496`: a "new_episodes" session ("Replay matching requests and record
  misses", `README.md:96`) can record a second result under a tool call that is already
  recorded; `_index` keeps the last, so the original agent's replay misses from then on.
  `ReplayReproduces` excepts such logs (`ToolsAsRecorded`).

Analysis, exports and benchmark:
- The tables of the alignment lead from no gap to a gap on the other side;
  `GotohIsOptimal` compares with alignments of that shape. A reasoning without a word
  has a zero vector and is not similar to itself. The last resort of
  `_chosen_indices` is never reached. A message that meets a used-up context budget is
  dropped without being reported.
- The batch positions and the writes of a tool are found by its tool id alone. Two results
  of one tool call (`session.py:496` above) are two spans with one id (`otel.py:139`);
  `SpansFormATree` excepts them.
- `text_similarity` (`align.py:292`) is a difflib ratio, which depends on the order of its
  arguments, so the score of two steps may depend on which run is called good;
  `SimilarityIsAScale` bounds the difference by the share of the texts.
- `diverge.py:147` says that the reliability class "agrees with the step reported by
  `first_nonscratch_write`", which names "The step that first writes a file the run did not
  create for itself" (line 69). The two rules differ: the first treats as scratch the first
  path written without a look, the second goes by who created it. `RulesPartOverScratch`
  says on which steps they part.
- The report is measured before `<` becomes six characters (`report.py:332`), although
  "what is measured is what gets embedded" (line 88), so a page may exceed its budget by
  five characters for each. `BudgetIsUsed` says so.
- An edit that leaves a syntax error is written and reported as an error, so earlier
  reads stay refused (`agent.py`). `done(ledger)` is read once, so two processes on
  one shard repeat attempts, although "the ledger check makes an overlap harmless
  rather than a duplicate" (`runner.py:230`); a torn last line of the ledger makes it
  raise. The label sheet is truncated before it is rewritten.

## Fairness

JobLifecycle assumes, per job and weakly: time passes; the reconciler repairs a
job that stays repairable; the publisher sends and marks a row that stays
unpublished; some worker claims a job that stays claimable; an attempt whose
lease its worker keeps alive ends in a completion or a failure report. The first
three are the loop of `tracewaked`, which reconciles and publishes each second
with limits far above the number of jobs here; the last two are the worker's
endless loop. Nothing is assumed of tenants, heartbeats, failing sends,
retention, or of a worker whose lease expires. A lost message is repaired by the
reconciler and needs no fairness.

LifecycleTransactions assumes strong fairness of each transaction's next step:
PostgreSQL queues lock requests, so a transaction is not passed over for ever,
and its deadlock detector runs. The retention pass begins again weakly fairly,
as the loop's ten-minute timer makes it. Requests of tenants and workers need
not come.

WorkerThreads assumes weak fairness of the main thread's bounded steps (`Bounded`:
requests have timeouts, so each of them returns), of the heartbeat thread of each
attempt, and of the cancellation thread while it is not waiting for an answer that
need not come. An analysis need not end by itself.

## Proofs

`tlapm` proves the following theorems for every value of the constants.

| Theorem | Module | Statement |
|---|---|---|
| TypeCorrect | JobLifecycleProofs | `Spec => []TypeOK` |
| Fencing | JobLifecycleProofs | `Spec => []OneLiveAttempt` |
| SingleResult | JobLifecycleProofs | `Spec => []OneResult` |
| Refinement | JobLifecycleProofs | `Spec => ImplementsContract` |
| Claimability | JobLifecycleProofs | `Spec => []QueuedIsClaimable` |
| NoticesBehind | JobLifecycleProofs | `Spec => []NoticesAreNotAhead` |
| SettledForGood | JobLifecycleProofs | `Spec => RefusalIsFinal` |
| Finality | JobLifecycleProofs | `Spec => TerminalIsFinal` |
| ProgressForward | JobLifecycleProofs | `Spec => ProgressAdvances` |
| Erasure | JobLifecycleProofs | `Spec => []ErasedLeavesNothing` |
| TablesAgree | JobLifecycleProofs | `Spec => []RowsAgree` |
| CommitsAreSerial | TransactionProofs | `Spec => []CommittedIsSerial` |
| ClosedStaysClosed | TransactionProofs | `Spec => ClosedIsFinal` |
| TokenRotationIsSafe | HostedProofs | `TokenSpec => []RotationKeepsTheSecret` |
| KeysNameOneJob | HostedProofs | `KeySpec => []KeysAreExact` |
| RegisteredObjectsStay | HostedProofs | `ObjectSpec => []RegisteredObjectsExist` |
| RequestsAlwaysAgree | HostedProofs | every request satisfies `RequestAgrees` |
| CompletionsAlwaysAgree | HostedProofs | every completion satisfies `CompletionAgrees` |
| ResultsAreBoundToTheirWork | HostedProofs | two attempts that accept one completion are the `SameWork` |
| HonestResultsAreAccepted | HostedProofs | every claim and its bundles satisfy `HonestIsAccepted` |
| WorkerKnows | WorkerProofs | `Spec => []WorkerHolds` |
| MessagesSettleLast | WorkerProofs | `Spec => SettledIsDurable` |
| FencedWorkerIsBounded | WorkerProofs | `Spec => [](TypeOK /\ FencedStopsHolding)` |
| SingleImport | CassetteImportProofs | `Spec => []ImportedOnce` |
| SafeImports | CassetteImportProofs | `Spec => []ImportsKeepBlobs` |
| StageRecovery | CassetteImportProofs | `Spec => []StagesAreRecovered` |
| SessionsStayOut | SessionProofs | `Spec => SessionsKeepOut` |
| ValuesServedOnce | SessionProofs | `Spec => []EachValueOnce` |
| RunsAreExplained | ReplayProofs | `Spec => [](DropsInputsOnly => RunsExplained)` |
| CallsAreApart | ReplayProofs | `Spec => []CallsAreAccounted` |
| ReplaysAreFaithful | ReplayProofs | `Spec => []ReplayIsFaithful` |
| BatchCollectsAll | BenchProofs | `BatchSpec => []BatchIsExact` |
| LabelsStay | BenchProofs | `LabelSpec => []LabelsSurvive` |
| AgentTellsTheTruth | BenchProofs | `AgentSpec => []AgentAccounts` |

What is assumed of the constants, beside the names of absent values being no
names of anything else:

| Assumption | Why the code satisfies it |
|---|---|
| `ConstantsAssumption` (JobLifecycle): durations and attempts are positive, operations come from the table | constants of `lifecycle.go`, `attempts.go` |
| `KindAssumption` (LifecycleTransactions): every transaction has one of the eleven kinds | these are the transactions that write the run, the job and its first attempt while it is open; what is left out is named under Modules |
| `LifetimeAssumption` (IdempotencyKeys): a lifetime is longer than two transactions | a day against the timeout of a request |
| `GraceAssumption` (HostedObjects): two durations | constants of `main.go` |
| `RotationAssumption` (TokenRotation): there is a replica and a secret | otherwise there is no token |
| `LimitsAssumption` (ResultContract): two natural numbers | constants of `contracts.py` and `attempts.go` |
| `AttemptsAssumption`, `RequestedAssumption` (WorkerThreads): an attempt may be made; operations are known or "unsupported" | `worker.py` treats every other operation alike |
| `BoundsAssumption`, `ThreadsAssumption`, `NoneAssumption` (ReplaySession) | bounds are numbers, the agent's thread is no tool, "nothing" is neither a number, a status nor a session |
| `MatchAssumption` (ReplaySession): a matcher uses some of five predicates | `PREDICATES` of `matching.py` |
| `ProvenanceAssumption` (ReplaySession): a fork drops a block exactly when it drops its redacted form | blocks are dropped by their provenance tag, in which there is nothing to redact |
| `OpsAssumption` (ReplaySession): a request has a model and blocks, a tool is one of the tools, an outcome is "ok" or "error", a write is to a file | the signatures of `session.py` and `fs.py` |
| `ShardsAssumption`, `PlannedAssumption` (BenchBatch): there is a shard, and no attempt is planned twice | a key is the task and the number of the run, over which `batch` counts |
| `SamplesAssumption` (LabelSheet), `BudgetsAssumption` (BenchAgent): types | |

### The inductive invariants

**JobLifecycle.** None of the three fencing properties is inductive: whether a late
completion may write depends on the attempt rows being numbered without gaps and on
which of them the job names. The attempts that deletions miss are part of it: they are
running, current and harmless because their job is closed and their input gone for
good. `Fenced` is `TypeOK /\ OneLiveAttempt /\ AttemptRows /\ OneResult`. Actions
touch several jobs at once (a reconciler batch, a deletion), so the proof does not go
action by conjunct. `StepEffect` first shows that whatever an action does to *one* job
is one of nine `Effect`s on it (kept, created, claimed, cancelled, released,
succeeded, failed, retried, ended); each effect then keeps the invariant of that job,
and each effect is a transition of JobContract. Finality and refinement fall out of
the same lemma.

`InputsHold` adds the runs: open jobs have usable inputs, a run has at most one
validation, which exists only after its bytes have arrived. It is what makes a
deletion and a decision of a validation harmless to other jobs. `Versions` adds
that a version is never reused: no notification is ahead of its job, and a job
that is queued again has moved past every notification sent before. From these two a
refused claim stays refused: its version is behind for good. `Erasure` needs that a
deleted run stays deleted and that no offered artifact is derived from one; the only
action that offers an artifact accepts an attempt whose inputs are usable, hence not
deleted. `TablesAgree` follows a run to the job that decided it: the job is finished,
so by the effects it keeps the state that agrees with the run's.

**LifecycleTransactions.** `CommittedIsSerial` speaks of committed rows only, so it
says nothing of what a transaction is about to commit. `Serial` adds, for every
transaction, `WritesLegally` (a row that is written is locked by its writer, and the
write is one its kind may make *over the committed value*, which the lock keeps from
changing) and `Knows` (what the kind may rely on at each statement: a deletion that
has passed the jobs sees none open, a completion past `checkAttempt` holds a running
job and a running attempt). A step of another transaction keeps both because it
touches neither the locks nor, until it commits, the rows; a commit is judged by what
its kind wrote, in the lemmas from `CommitKnows` on. `XStatements` say which statement
stands at each position of a kind, `XAdvances` that what is relied on lasts to the
next. A retry and the reconciler's fencing are judged like a completion: both hold the
job's lock from the first statement to the commit. The proof makes one thing plain: a
claim and `checkAttempt` read the run without locking it, so the lock of the job's row
alone orders them with a deletion.

**HostedProofs.** *Tokens*: the row is always the verifier of the registered secret
under the version beside it, that version has been reached by some replica and no
ring is two ahead of it, and a request in flight has verified what it read; the
guarded update then writes the same secret or nothing. *Keys*: of two insertions one
waits for the other (`InsertsAlone`), and the record of a job stays until a lifetime
after its transaction began (`RecordsHold`), so two jobs of one key are that far apart
less the time a transaction may take. *Objects*: a pass keeps what was registered before its
snapshot, and what it dooms was uploaded before its cutoff; an object registered
after the snapshot is younger than that if it was registered in time. *Contract*: four
facts about ResultContract, which has no state. The tables of the two languages agree
operation by operation, and on at most two runs "different" means the same in both once
they are spelled with hyphens and the database has compared them; a
completion carries its job, attempt and operation in its key and kind, and its inputs in
the result, each compared with the row, so that no second piece of work accepts it
(`AcceptedFor`); and what the worker writes of its inputs is what the row says of them
(`ProvenanceOfTheInputs`). The last theorem assumes of a claim (`IsClaim`) that it has the
inputs its operation needs, that the bundles behind them are valid (formats from 1, at
most as many events as a completion may have: `MAX_EVENTS` of `bundle.py` is the limit of
`contracts.py`), and that the row of a ready run has the identity its validation recorded.

**WorkerThreads.** `WorkerHolds` is what the worker may believe: once its claim was
granted the attempt is live or over, a reply on its way is true when it is read, a
thread speaks of a cancellation only when there is one, a late renewal was the last.
It holds because the job of a notification only moves forward (`JobMoves`).

**CassetteImport.** `Serial` says that the database's write lock belongs to the one
import inside its transaction and that a run's import is committed only from there;
`LinksHold` adds that an import makes links only before the first commit, so what it
undoes nobody has committed. The first half of `ImportsKeepBlobs` speaks of states in
which nobody but imports has used the directory yet. The premise is needed: RecordingRace
shows what a recorder does to it, and an opener can do the same (`store.py:200` above).
The second half, `OwnLinksStay`, has no such premise. `LinksKept` carries it: a cleanup
dooms a blob only while nothing is imported and only if the import that linked it has
ended, so no import that may still commit calls it its own; and while the file is there
nobody links it again.
`Recoverable` follows the lock file: an import that has not lost it holds it while it
has a stage (`StagesGuarded`), a link that nobody refers to was made by an import that
will undo it or by a dead one whose stage still lists it (`LinksOwned`), and a cleanup
has not forgotten a link of the stage it is at (`CleanupRemembers`).

**ReplaySession.** `SessionHolds` says that an open session writes its own run only,
and that one that may not record serves a recording, has sent nothing, holds no live
stream and runs no tool. Each action is then shown to write at most the run of the
session (`Writes`, `Grown`) and, when it may not record, nothing outside (`Quiet`).
`CallsHold` adds that the calls of a log carry different numbers below the next live
value, and that the number of an open live stream is in no log of its run yet
(`StreamFresh`): without it, ending the stream could repeat a call. That every answer is
logged (`AnswersAreLogged`) follows from `RunsExplained` below. `ValuesHold` says
that at most one thread is between reading a cursor and advancing it, that it holds the
cursor as it still stands (`LockHolds`), and that what was served lies before the cursor
of its key (`ServedHold`), so that the next value is new. TLC checks both on ReplayCalls,
and the second on ReplayInputs too.

`ReplaysAreFaithful` (ReplayProofs) needs all of this and five more invariants.
1. `ShapeHolds`: the shape of the state, in particular that nothing outlives a session
   and that a tool runs only while its place in the transcript is open. It implies
   `TypeOK`.
2. `ReportHolds`: while there was no miss, the requests of any content that were made,
   the open stream's included, are as many as the served calls of that content
   (`Balanced`). If then every recorded call was served, the report is honest.
3. `OutcomesHold`: all outcomes of a log agree, and agree with what the session has.
4. `RunsExplained` and `RecorderHolds`: the log of a run explains its script
   (`Explained`): every answered request and every access of the recorded agent,
   unless `before_record` drops its key, has a place in the log that holds its stored
   form, the places are in order, no event of the agent lies between them that is not
   in the script, a tool result is under the call before it. It is proved while the
   run is recorded, tools running in parallel, and then stays, because later sessions
   only append.
5. `ReplayHolds`: a session that replays the script and whose agent has followed it so
   far, up to redaction, has served exactly the places of the entries up to here
   (`Tracks`): the calls of its requests, and of each key as many accesses as the
   script has. An open stream delivers the first call that agrees with its request.
   The next entry is then served from its own place: the matcher finds the first
   unserved call that agrees and every earlier call is in the script (`CallPlace`);
   the cursor points to the place because places are counted by rank (`AccessPlace`,
   with the cardinality theorems); the tool result is under the current call, and
   there is one only.

The last argument fails without the condition `ToolsAsRecorded` in `Following`: a
"new_episodes" session that misses with other arguments records a second result under the
same call and tool id, `_index` (`session.py:496`) keeps the last, and a later replay of the
original agent misses. The proof attempt found it; TLC shows it with three sessions.

**Benchmark.** *Batch*: what a shard has left and what is in the ledger make up the
shard (`WorkAccounted`), and while no two processes work on one shard, nothing that is
left is in the ledger (`ShardsApart`). *Sheet*: packets keep the pair they show while
any label exists, and the rows in the labeller's hands contain every answer given.
*Agent*: what would be refused as a repetition is an observation that is still in the
context and that no change has made stale.

### Only model-checked

- Liveness under fairness (JobsSettle, the temporal halves of TransactionsSettle and
  FencedWorkerLetsGo, DeletionFencesEventually): out of this prover's reach.
- AlignmentIsSound, LocalizationIsSound, AdviceIsSound, ArtifactsAreGenuine,
  SecretsStayOut, InterceptionIsExact, CommandKeepsVerdicts, ExportsAddUp and
  EvaluationIsExact: what folds and recursive functions compute over sequences, which
  would take induction over data.
- Of ContractsAgree, three parts of four are proved for every input; that the only
  mixture of two completions that is accepted is the honest one (ResultsAreBound) is
  proved in the form that no completion is accepted for two pieces of work. That a
  worker completes *unless* an input, a step or a limit is wrong is only checked.

## Not modelled

Read models (`views.go`) only query. Migrations, configuration, listeners, routing,
scopes, telemetry, the dashboard, deployment, generated fixtures and the conversion of
published data sets are plumbing whose state nothing else reads. Browser sessions are
single rows that are inserted, read until they expire and revoked. Of the benchmark,
model servers, prompts, task construction and tables are left out; of the analysis, the
neural embedder, floating point and text rendering; of the formats, attribute names,
HTML and the writing of JSON schemas. The digest reuse of an upload, listing and removal
of runs in the local store and the other commands of the client are single statements.
`PROJECT.json` gives the reason for each part.

## Open

Every safety property of a state machine is proved. What would come next:

1. **Liveness**: JobsSettle, TransactionsSettle, FencedWorkerLetsGo and
   DeletionFencesEventually, with a prover that handles ENABLED.
2. **Folds**: RedactText, PatchRun, RunChild and the alignment, with a prover that
   instantiates the induction theorems of the library.
