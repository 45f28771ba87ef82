---------------------------- MODULE JobLifecycle ----------------------------
(***************************************************************************)
(* The hosted control plane's authoritative state: uploaded runs, the jobs *)
(* that consume them, the leased attempts workers make at a job, the       *)
(* authoritative artifacts of a success, the progress snapshot, and the    *)
(* outbox whose notifications wake the workers.                            *)
(*                                                                         *)
(* One action is one committed PostgreSQL transaction of                   *)
(* controlplane/internal/controlplane.  A transaction that returns an      *)
(* error rolls back and is a stuttering step, so only the effective path   *)
(* of a handler appears.  Requests come from clients that may repeat,      *)
(* delay and reorder them: every worker that ever won a claim keeps its    *)
(* attempt token and may use it in any later state.                        *)
(*                                                                         *)
(* Database time is relative: a deadline is the number of ticks that are   *)
(* left until it, 0 once it has passed.                                    *)
(***************************************************************************)
EXTENDS Naturals, FiniteSets

CONSTANTS
    Runs,            \* identities of uploaded runs
    Jobs,            \* identities of jobs
    AnalysisOps,     \* the analysis operations tenants ask for
    MaxAttempts,     \* attempts per job: 3 in the code
    LeaseTicks,      \* leaseDuration
    FirstBackoff,    \* delay before the second attempt
    SecondBackoff,   \* delay before the third attempt
    NotifyTicks,     \* notificationTimeout
    UseQueue,        \* notifications travel by the hosted queue, or by polling
    MaxSequence,     \* bound: progress sequences a worker reports
    RepublishBound   \* bound: row versions at which the reconciler republishes

(***************************************************************************)
(* Every duration is at least one tick, as the code's are; the operations  *)
(* are entries of the analysisOperations table.                            *)
(***************************************************************************)
ASSUME ConstantsAssumption ==
    /\ MaxAttempts \in Nat \ {0}
    /\ LeaseTicks \in Nat \ {0}
    /\ FirstBackoff \in Nat \ {0}
    /\ SecondBackoff \in Nat \ {0}
    /\ NotifyTicks \in Nat \ {0}
    /\ UseQueue \in BOOLEAN
    /\ MaxSequence \in Nat
    /\ RepublishBound \in Nat
    /\ AnalysisOps \subseteq {"diff", "localize", "otlp", "pprof"}

VARIABLES
    \* table runs
    runState,        \* [Runs -> RunStates]
    erased,          \* runs a tenant deleted (deadline moved to the deletion)
    \* tables jobs and job_inputs
    jobState,        \* [Jobs -> JobStates]
    jobOp,           \* operation of the job's input
    jobRuns,         \* run_a_id and run_b_id of the job's input
    currentAttempt,  \* current_attempt_number, 0 for NULL
    retryIn,         \* ticks until retry_at
    quietIn,         \* ticks until updated_at is notificationTimeout ago
    rowVersion,      \* row_version
    result,          \* attempt whose artifact result_artifact_id names, or 0
    failure,         \* failure_code, as its class; "none" for NULL
    \* tables job_attempts, artifacts and progress_snapshots
    attempts,        \* number of attempt rows: they are 1 .. attempts[j]
    attemptState,    \* state of attempt row n, "none" when there is no row
    lease,           \* ticks until lease_expires_at of attempt row n
    artifact,        \* authoritative artifact rows of attempt n: "withdrawn"
                     \* once a deletion has moved their deadline to now
    storedAttempt,   \* attempt_number of the progress snapshot, 0 for none
    storedSequence,  \* its sequence
    \* table outbox, and the messages made from it
    outbox,          \* rows with published_at NULL, as [job, version]
    queue            \* notifications a worker may still act on

runVars     == <<runState, erased>>
inputVars   == <<jobOp, jobRuns>>
outcomeVars == <<result, failure>>
jobVars     == <<jobState, currentAttempt, retryIn, quietIn, rowVersion, outcomeVars>>
attemptVars == <<attempts, attemptState, lease>>
progressVars == <<storedAttempt, storedSequence>>
outputVars  == <<artifact, progressVars>>
noticeVars  == <<outbox, queue>>
vars == <<runVars, inputVars, jobVars, attemptVars, outputVars, noticeVars>>

-----------------------------------------------------------------------------
RunStates == {"absent", "pending", "validating", "ready", "invalid", "deleted"}
Unfinished == {"queued", "running", "retry_wait"}
Terminal == {"succeeded", "failed", "cancelled"}
JobStates == {"absent"} \cup Unfinished \cup Terminal
AttemptStates == {"none", "running", "succeeded", "failed", "fenced", "cancelled"}
Operations == {"validate"} \cup AnalysisOps
AttemptNumbers == 1 .. MaxAttempts
Failures == {"none", "permanent", "retry_exhausted"}
Notices == [job : Jobs, version : Nat]

(***************************************************************************)
(* How many runs an operation consumes.                                    *)
(***************************************************************************)
RunsNeeded(op) == IF op = "diff" THEN 2 ELSE 1

(***************************************************************************)
(* The delay the retry policy adds after attempt n failed.                 *)
(***************************************************************************)
Backoff(n) == IF n = 2 THEN SecondBackoff ELSE FirstBackoff

(***************************************************************************)
(* The state a run must be in to be an input of an operation.              *)
(***************************************************************************)
UsableState(op) == IF op = "validate" THEN "validating" ELSE "ready"
InputsUsable(j) == \A r \in jobRuns[j] : runState[r] = UsableState(jobOp[j])

-----------------------------------------------------------------------------
Init ==
    /\ runState = [r \in Runs |-> "absent"]
    /\ erased = {}
    /\ jobState = [j \in Jobs |-> "absent"]
    /\ jobOp = [j \in Jobs |-> "validate"]
    /\ jobRuns = [j \in Jobs |-> {}]
    /\ currentAttempt = [j \in Jobs |-> 0]
    /\ retryIn = [j \in Jobs |-> 0]
    /\ quietIn = [j \in Jobs |-> 0]
    /\ rowVersion = [j \in Jobs |-> 0]
    /\ result = [j \in Jobs |-> 0]
    /\ failure = [j \in Jobs |-> "none"]
    /\ attempts = [j \in Jobs |-> 0]
    /\ attemptState = [j \in Jobs |-> [n \in AttemptNumbers |-> "none"]]
    /\ lease = [j \in Jobs |-> [n \in AttemptNumbers |-> 0]]
    /\ artifact = [j \in Jobs |-> [n \in AttemptNumbers |-> "none"]]
    /\ storedAttempt = [j \in Jobs |-> 0]
    /\ storedSequence = [j \in Jobs |-> 0]
    /\ outbox = {}
    /\ queue = {}

-----------------------------------------------------------------------------
(***************************************************************************)
(* Tenant requests.                                                        *)
(***************************************************************************)

\* Rows every new job gets: the job queued at version 1 and its outbox row.
InsertJob(j, op, rs) ==
    /\ jobState[j] = "absent"
    /\ jobState' = [jobState EXCEPT ![j] = "queued"]
    /\ jobOp' = [jobOp EXCEPT ![j] = op]
    /\ jobRuns' = [jobRuns EXCEPT ![j] = rs]
    /\ rowVersion' = [rowVersion EXCEPT ![j] = 1]
    /\ quietIn' = [quietIn EXCEPT ![j] = NotifyTicks]
    /\ outbox' = outbox \cup {[job |-> j, version |-> 1]}

\* A declared upload: a pending run.
CreateUpload(r) ==
    /\ runState[r] = "absent"
    /\ runState' = [runState EXCEPT ![r] = "pending"]
    /\ UNCHANGED <<erased, inputVars, jobVars, attemptVars, outputVars, noticeVars>>

\* The uploaded bytes are accepted and their mandatory validation is queued.
CompleteUpload(r, j) ==
    /\ runState[r] = "pending"
    /\ runState' = [runState EXCEPT ![r] = "validating"]
    /\ InsertJob(j, "validate", {r})
    /\ UNCHANGED <<erased, currentAttempt, retryIn, outcomeVars,
                   attemptVars, outputVars, queue>>

\* A new job on ready runs, under a fresh idempotency key.
CreateJob(j, op, rs) ==
    /\ Cardinality(rs) = RunsNeeded(op)
    /\ \A r \in rs : runState[r] = "ready"
    /\ InsertJob(j, op, rs)
    /\ UNCHANGED <<runVars, currentAttempt, retryIn, outcomeVars,
                   attemptVars, outputVars, queue>>

\* Attempt rows of j after a cancellation: whatever was running is cancelled.
CancelAttempts(S) ==
    attemptState' = [j \in Jobs |-> [n \in AttemptNumbers |->
        IF j \in S /\ attemptState[j][n] = "running"
        THEN "cancelled" ELSE attemptState[j][n]]]

\* Fault: a finished job is cancelled too.
RequestCancellationAlways(j) ==
    /\ jobState[j] # "absent"
    /\ CancelAttempts({j})
    /\ jobState' = [jobState EXCEPT ![j] = "cancelled"]
    /\ retryIn' = [retryIn EXCEPT ![j] = 0]
    /\ quietIn' = [quietIn EXCEPT ![j] = NotifyTicks]
    /\ rowVersion' = [rowVersion EXCEPT ![j] = @ + 2]
    /\ UNCHANGED <<runVars, inputVars, currentAttempt, outcomeVars,
                   attempts, lease, outputVars, noticeVars>>

\* Request and resolution of a cancellation, in one transaction.
RequestCancellation(j) ==
    /\ jobState[j] \in Unfinished
    /\ CancelAttempts({j})
    /\ jobState' = [jobState EXCEPT ![j] = "cancelled"]
    /\ retryIn' = [retryIn EXCEPT ![j] = 0]
    /\ quietIn' = [quietIn EXCEPT ![j] = NotifyTicks]
    /\ rowVersion' = [rowVersion EXCEPT ![j] = @ + 2]
    /\ UNCHANGED <<runVars, inputVars, currentAttempt, outcomeVars,
                   attempts, lease, outputVars, noticeVars>>

\* Whether an attempt row of j is running.
HasRunning(j) == \E n \in AttemptNumbers : attemptState[j][n] = "running"

\* Jobs of S that still have work to do are cancelled, and the running attempts
\* of jobs of S.  The attempts are updated by an earlier statement than the
\* jobs, and each statement sees what had committed when it started: it missed
\* the attempt of a claim that committed between the two.  LifecycleTransactions
\* has the statements; here `missed` is any set of jobs with a running attempt.
CancelWork(S, missed) ==
    LET open == {j \in S : jobState[j] \in Unfinished} IN
    /\ missed \subseteq {j \in S : HasRunning(j)}
    /\ CancelAttempts(S \ missed)
    /\ jobState' = [j \in Jobs |-> IF j \in open THEN "cancelled" ELSE jobState[j]]
    /\ retryIn' = [j \in Jobs |-> IF j \in open THEN 0 ELSE retryIn[j]]
    /\ quietIn' = [j \in Jobs |-> IF j \in open THEN NotifyTicks ELSE quietIn[j]]
    /\ rowVersion' = [j \in Jobs |-> IF j \in open THEN rowVersion[j] + 1
                                                  ELSE rowVersion[j]]

\* Fault: a deletion leaves the derived artifacts to their own retention.
DeleteRunKeepingArtifacts(r, missed) ==
    /\ runState[r] \notin {"absent", "deleted"}
    /\ runState' = [runState EXCEPT ![r] = "deleted"]
    /\ erased' = erased \cup {r}
    /\ CancelWork({j \in Jobs : jobState[j] # "absent" /\ r \in jobRuns[j]}, missed)
    /\ UNCHANGED <<inputVars, currentAttempt, outcomeVars, attempts, lease,
                   outputVars, noticeVars>>

\* A tenant deletes a run: derived work is cancelled, derived artifacts expire.
DeleteRun(r, missed) ==
    LET derived == {j \in Jobs : jobState[j] # "absent" /\ r \in jobRuns[j]} IN
    /\ runState[r] \notin {"absent", "deleted"}
    /\ runState' = [runState EXCEPT ![r] = "deleted"]
    /\ erased' = erased \cup {r}
    /\ CancelWork(derived, missed)
    /\ artifact' = [j \in Jobs |-> [n \in AttemptNumbers |->
           IF j \in derived /\ artifact[j][n] = "registered"
           THEN "withdrawn" ELSE artifact[j][n]]]
    /\ UNCHANGED <<inputVars, currentAttempt, outcomeVars, attempts, lease,
                   progressVars, noticeVars>>

-----------------------------------------------------------------------------
(***************************************************************************)
(* Worker requests.                                                        *)
(***************************************************************************)

\* What a request under attempt n's token is answered.  The row is found only
\* while the lease is live and the inputs are usable; scanning a NULL current
\* attempt number is an error that is not ErrLeaseLost.
AttemptReply(j, n) ==
    IF n > attempts[j] \/ lease[j][n] = 0 \/ ~InputsUsable(j) THEN "lease_lost"
    ELSE IF currentAttempt[j] = 0 THEN "internal"
    ELSE IF /\ jobState[j] = "running"
            /\ attemptState[j][n] = "running"
            /\ currentAttempt[j] = n
         THEN "ok" ELSE "lease_lost"

checkAttempt(j, n) == AttemptReply(j, n) = "ok"

\* Fault: the claim ignores the notification's version.
ClaimableAtAnyVersion(m) ==
    /\ jobState[m.job] = "queued"
    /\ attempts[m.job] + 1 <= MaxAttempts
    /\ InputsUsable(m.job)

\* Whether a claim for notification m is granted or is a conflict.
Claimable(m) ==
    /\ jobState[m.job] = "queued"
    /\ attempts[m.job] + 1 <= MaxAttempts
    /\ m.version = rowVersion[m.job]
    /\ InputsUsable(m.job)

\* A worker that holds notification m starts the next attempt at its job.
Claim(m) ==
    LET j == m.job
        next == attempts[j] + 1 IN
    /\ Claimable(m)
    /\ attempts' = [attempts EXCEPT ![j] = next]
    /\ attemptState' = [attemptState EXCEPT ![j][next] = "running"]
    /\ lease' = [lease EXCEPT ![j][next] = LeaseTicks]
    /\ jobState' = [jobState EXCEPT ![j] = "running"]
    /\ currentAttempt' = [currentAttempt EXCEPT ![j] = next]
    /\ retryIn' = [retryIn EXCEPT ![j] = 0]
    /\ quietIn' = [quietIn EXCEPT ![j] = NotifyTicks]
    /\ rowVersion' = [rowVersion EXCEPT ![j] = @ + 1]
    /\ UNCHANGED <<runVars, inputVars, outcomeVars, outputVars, noticeVars>>

Heartbeat(j, n) ==
    /\ checkAttempt(j, n)
    /\ lease' = [lease EXCEPT ![j][n] = LeaseTicks]
    /\ UNCHANGED <<runVars, inputVars, jobVars, attempts, attemptState,
                   outputVars, noticeVars>>

\* Fault: whatever the attempt reports replaces the snapshot.
UpdateProgressBlindly(j, n, seq) ==
    /\ checkAttempt(j, n)
    /\ storedAttempt' = [storedAttempt EXCEPT ![j] = n]
    /\ storedSequence' = [storedSequence EXCEPT ![j] = seq]
    /\ UNCHANGED <<runVars, inputVars, jobVars, attemptVars, artifact, noticeVars>>

\* A repeated or older sequence of the stored attempt, and any sequence of an
\* attempt before it, leaves the snapshot alone.
UpdateProgress(j, n, seq) ==
    /\ checkAttempt(j, n)
    /\ storedAttempt[j] = n => seq > storedSequence[j]
    /\ storedAttempt[j] <= n
    /\ storedAttempt' = [storedAttempt EXCEPT ![j] = n]
    /\ storedSequence' = [storedSequence EXCEPT ![j] = seq]
    /\ UNCHANGED <<runVars, inputVars, jobVars, attemptVars, artifact, noticeVars>>

\* Fault: the attempt row is left running.
ScheduleRetryUnfenced(j, n) ==
    /\ jobState' = [jobState EXCEPT ![j] = "retry_wait"]
    /\ currentAttempt' = [currentAttempt EXCEPT ![j] = 0]
    /\ retryIn' = [retryIn EXCEPT ![j] = Backoff(n)]
    /\ UNCHANGED <<runState, failure, attemptState>>

\* Fault: the job's state is written to the attempt row.
ScheduleRetryMistyped(j, n) ==
    /\ attemptState' = [attemptState EXCEPT ![j][n] = "retry_wait"]
    /\ jobState' = [jobState EXCEPT ![j] = "retry_wait"]
    /\ currentAttempt' = [currentAttempt EXCEPT ![j] = 0]
    /\ retryIn' = [retryIn EXCEPT ![j] = Backoff(n)]
    /\ UNCHANGED <<runState, failure>>

\* The job waits for its retry and has no current attempt.
ScheduleRetry(j, n) ==
    /\ attemptState' = [attemptState EXCEPT ![j][n] = "fenced"]
    /\ jobState' = [jobState EXCEPT ![j] = "retry_wait"]
    /\ currentAttempt' = [currentAttempt EXCEPT ![j] = 0]
    /\ retryIn' = [retryIn EXCEPT ![j] = Backoff(n)]
    /\ UNCHANGED <<runState, failure>>

\* The job fails for good with a code, and with a validation its run.
FailJob(j, n, code) ==
    /\ attemptState' = [attemptState EXCEPT ![j][n] = "failed"]
    /\ jobState' = [jobState EXCEPT ![j] = "failed"]
    /\ failure' = [failure EXCEPT ![j] = code]
    /\ runState' = [r \in Runs |->
           IF jobOp[j] = "validate" /\ r \in jobRuns[j] /\ runState[r] = "validating"
           THEN "invalid" ELSE runState[r]]
    /\ UNCHANGED <<currentAttempt, retryIn>>

\* The class of the code a failure is stored with when it is not retried.
FinalCode(retryable) == IF retryable THEN "retry_exhausted" ELSE "permanent"

\* Fault: the attempt before the last is not retried.
FailAttemptOffByOne(j, n, retryable) ==
    /\ checkAttempt(j, n)
    /\ IF retryable /\ n + 1 < MaxAttempts THEN ScheduleRetry(j, n)
                                           ELSE FailJob(j, n, FinalCode(retryable))
    /\ quietIn' = [quietIn EXCEPT ![j] = NotifyTicks]
    /\ rowVersion' = [rowVersion EXCEPT ![j] = @ + 1]
    /\ UNCHANGED <<erased, inputVars, result, attempts, lease, outputVars, noticeVars>>

\* A worker reports a failure, which is retried while attempts are left.
FailAttempt(j, n, retryable) ==
    /\ checkAttempt(j, n)
    /\ IF retryable /\ n < MaxAttempts THEN ScheduleRetry(j, n)
                                       ELSE FailJob(j, n, FinalCode(retryable))
    /\ quietIn' = [quietIn EXCEPT ![j] = NotifyTicks]
    /\ rowVersion' = [rowVersion EXCEPT ![j] = @ + 1]
    /\ UNCHANGED <<erased, inputVars, result, attempts, lease, outputVars, noticeVars>>

\* The one success: artifacts, run readiness, attempt and job in one commit.
CompleteAttempt(j, n) ==
    /\ checkAttempt(j, n)
    /\ artifact' = [artifact EXCEPT ![j][n] = "registered"]
    /\ runState' = [r \in Runs |->
           IF jobOp[j] = "validate" /\ r \in jobRuns[j] THEN "ready" ELSE runState[r]]
    /\ attemptState' = [attemptState EXCEPT ![j][n] = "succeeded"]
    /\ jobState' = [jobState EXCEPT ![j] = "succeeded"]
    /\ result' = [result EXCEPT ![j] = n]
    /\ quietIn' = [quietIn EXCEPT ![j] = NotifyTicks]
    /\ rowVersion' = [rowVersion EXCEPT ![j] = @ + 1]
    /\ UNCHANGED <<erased, inputVars, currentAttempt, retryIn, failure, attempts, lease,
                   progressVars, noticeVars>>

-----------------------------------------------------------------------------
(***************************************************************************)
(* The control plane's own loop.                                           *)
(***************************************************************************)

\* Running jobs whose current attempt's lease has passed.
ExpiredJobs == {j \in Jobs :
    /\ jobState[j] = "running" /\ currentAttempt[j] # 0
    /\ attemptState[j][currentAttempt[j]] = "running"
    /\ lease[j][currentAttempt[j]] = 0}

\* Jobs whose retry delay has passed.
DueJobs == {j \in Jobs : jobState[j] = "retry_wait" /\ retryIn[j] = 0}

\* Fault: a job counts as notified while it has ever been published.
NeverStranded == {j \in Jobs : jobState[j] = "queued" /\ rowVersion[j] = 0}

\* A queued job is stranded when its last notification was published at least
\* notificationTimeout ago.  The newest row of a queued job is as old as the
\* job's updated_at, so one deadline stands for both comparisons.
StrandedJobs == {j \in Jobs :
    /\ jobState[j] = "queued" /\ quietIn[j] = 0
    /\ \A m \in outbox : m.job # j
    /\ rowVersion[j] < RepublishBound}

\* The outbox row of a job that is queued again, at the version it then has.
NewNotice(j) == [job |-> j, version |-> rowVersion[j] + 1]

\* One pass over batches of expired, due and stranded jobs.  Another replica's
\* row locks make the pass skip rows, so a batch is any subset.
ReconcileBatch(expired, due, stranded) ==
    LET retried == {j \in expired : currentAttempt[j] < MaxAttempts}
        exhausted == expired \ retried
        requeued == due \cup stranded
        repaired == expired \cup requeued IN
    /\ repaired # {}
    /\ attemptState' = [j \in Jobs |-> [n \in AttemptNumbers |->
           IF n = currentAttempt[j] /\ j \in retried THEN "fenced"
           ELSE IF n = currentAttempt[j] /\ j \in exhausted THEN "failed"
           ELSE attemptState[j][n]]]
    /\ jobState' = [j \in Jobs |->
           IF j \in retried THEN "retry_wait"
           ELSE IF j \in exhausted THEN "failed"
           ELSE IF j \in requeued THEN "queued" ELSE jobState[j]]
    /\ failure' = [j \in Jobs |-> IF j \in exhausted THEN "retry_exhausted" ELSE failure[j]]
    /\ currentAttempt' = [j \in Jobs |-> IF j \in retried THEN 0 ELSE currentAttempt[j]]
    /\ retryIn' = [j \in Jobs |-> IF j \in retried THEN Backoff(currentAttempt[j])
                                                   ELSE retryIn[j]]
    /\ quietIn' = [j \in Jobs |-> IF j \in repaired THEN NotifyTicks ELSE quietIn[j]]
    /\ rowVersion' = [j \in Jobs |-> IF j \in repaired THEN rowVersion[j] + 1
                                                       ELSE rowVersion[j]]
    /\ runState' = [r \in Runs |->
           IF /\ runState[r] = "validating"
              /\ \E j \in exhausted : jobOp[j] = "validate" /\ r \in jobRuns[j]
           THEN "invalid" ELSE runState[r]]
    /\ outbox' = outbox \cup {NewNotice(j) : j \in requeued}
    /\ UNCHANGED <<erased, inputVars, result, attempts, lease, outputVars, queue>>

Reconcile == \E expired \in SUBSET ExpiredJobs, due \in SUBSET DueJobs,
                stranded \in SUBSET StrandedJobs :
    ReconcileBatch(expired, due, stranded)

\* Fault: retention expires runs and forgets the work that waits for them.
EnforceRetentionOnRuns(expired, missed) ==
    /\ missed = {}
    /\ expired \subseteq {r \in Runs : runState[r] \notin {"absent", "deleted"}}
    /\ runState' = [r \in Runs |-> IF r \in expired THEN "deleted" ELSE runState[r]]
    /\ UNCHANGED <<erased, inputVars, jobVars, attemptVars, outputVars, noticeVars>>

\* Runs whose retention deadline passed are deleted and their open work with
\* them; so is an attempt that an earlier deletion missed.  The deadline is
\* months away, so any run may be past it.
EnforceRetention(expired, missed) ==
    LET gone == expired \cup {r \in Runs : runState[r] = "deleted"}
        derived == {j \in Jobs : jobState[j] # "absent" /\ jobRuns[j] \cap gone # {}} IN
    /\ expired \subseteq {r \in Runs : runState[r] \notin {"absent", "deleted"}}
    /\ runState' = [r \in Runs |-> IF r \in expired THEN "deleted" ELSE runState[r]]
    /\ CancelWork(derived, missed)
    /\ UNCHANGED <<erased, inputVars, currentAttempt, outcomeVars, attempts, lease,
                   outputVars, noticeVars>>

-----------------------------------------------------------------------------
(***************************************************************************)
(* Notification delivery.                                                  *)
(***************************************************************************)

\* Rows are sent before the marks commit.  SKIP LOCKED makes the batch any
\* subset; a crash or a failing send keeps what was sent and loses the marks.
PublishOutbox(batch, committed) ==
    /\ UseQueue
    /\ batch # {}
    /\ queue' = queue \cup batch
    /\ outbox' = IF committed THEN outbox \ batch ELSE outbox
    /\ UNCHANGED <<runVars, inputVars, jobVars, attemptVars, outputVars>>

\* Polling deployment: a worker reads an unpublished row, which stays
\* unpublished.  The lowest row is read; the model reads any.
NextNotification(m) ==
    /\ ~UseQueue
    /\ queue' = queue \cup {m}
    /\ UNCHANGED <<runVars, inputVars, jobVars, attemptVars, outputVars, outbox>>

\* Fault: the worker settles a notification when it receives it.
AcknowledgeOnReceipt(m) ==
    /\ queue' = queue \ {m}
    /\ outbox' = IF UseQueue THEN outbox ELSE outbox \ {m}
    /\ UNCHANGED <<runVars, inputVars, jobVars, attemptVars, outputVars>>

\* A worker settles a notification whose claim was a conflict, or whose attempt
\* it brought to an end: it deletes the message, or marks the row published
\* when it polls.
Acknowledge(m) ==
    /\ ~Claimable(m)
    /\ queue' = queue \ {m}
    /\ outbox' = IF UseQueue THEN outbox ELSE outbox \ {m}
    /\ UNCHANGED <<runVars, inputVars, jobVars, attemptVars, outputVars>>

\* The hosted queue drops a message, or a polling worker dies holding one; only
\* while the bound still lets the reconciler republish.
LoseNotification(m) ==
    /\ rowVersion[m.job] < RepublishBound
    /\ queue' = queue \ {m}
    /\ UNCHANGED <<runVars, inputVars, jobVars, attemptVars, outputVars, outbox>>

-----------------------------------------------------------------------------
Sooner(ticks) == IF ticks = 0 THEN 0 ELSE ticks - 1

\* Database time passes.
Tick ==
    /\ retryIn' = [j \in Jobs |-> Sooner(retryIn[j])]
    /\ quietIn' = [j \in Jobs |-> Sooner(quietIn[j])]
    /\ lease' = [j \in Jobs |-> [n \in AttemptNumbers |-> Sooner(lease[j][n])]]
    /\ UNCHANGED <<runVars, inputVars, jobState, currentAttempt, rowVersion, outcomeVars,
                   attempts, attemptState, outputVars, noticeVars>>

Next ==
    \/ \E r \in Runs : CreateUpload(r) \/ \E missed \in SUBSET Jobs : DeleteRun(r, missed)
    \/ \E r \in Runs, j \in Jobs : CompleteUpload(r, j)
    \/ \E j \in Jobs, op \in AnalysisOps, rs \in SUBSET Runs : CreateJob(j, op, rs)
    \/ \E j \in Jobs : RequestCancellation(j)
    \/ \E m \in queue : Claim(m) \/ Acknowledge(m) \/ LoseNotification(m)
    \/ \E j \in Jobs, n \in AttemptNumbers :
          \/ Heartbeat(j, n)
          \/ \E seq \in 1 .. MaxSequence : UpdateProgress(j, n, seq)
          \/ \E retryable \in BOOLEAN : FailAttempt(j, n, retryable)
          \/ CompleteAttempt(j, n)
    \/ Reconcile
    \/ \E expired \in SUBSET Runs, missed \in SUBSET Jobs : EnforceRetention(expired, missed)
    \/ \E batch \in SUBSET outbox, committed \in BOOLEAN :
          PublishOutbox(batch, committed)
    \/ \E m \in outbox : NextNotification(m)
    \/ Tick

Spec == Init /\ [][Next]_vars

-----------------------------------------------------------------------------
(***************************************************************************)
(* Fairness.  The loop of cmd/tracewaked reconciles every second and       *)
(* publishes the outbox on each pass, so a job that stays repairable is    *)
(* repaired and a row that stays unpublished is published with its mark;   *)
(* time passes; workers keep receiving, settle what they can and finish    *)
(* or report the attempts whose leases they keep.  Nothing is assumed of   *)
(* tenants, of heartbeats, of failing sends or of retention.               *)
(***************************************************************************)
RepairJob(j) == \E expired \in SUBSET ExpiredJobs, due \in SUBSET DueJobs,
                   stranded \in SUBSET StrandedJobs :
    /\ j \in expired \cup due \cup stranded
    /\ ReconcileBatch(expired, due, stranded)

SendNotice(j) == \E batch \in SUBSET outbox :
    /\ \A m \in outbox : m.job = j => m \in batch
    /\ \E m \in batch : m.job = j
    /\ PublishOutbox(batch, TRUE)

ClaimJob(j) == \E m \in queue : m.job = j /\ Claim(m)

FinishAttempt(j) == \E n \in AttemptNumbers :
    \/ CompleteAttempt(j, n)
    \/ \E retryable \in BOOLEAN : FailAttempt(j, n, retryable)

Fairness ==
    /\ WF_vars(Tick)
    /\ \A j \in Jobs : /\ WF_vars(RepairJob(j))
                       /\ WF_vars(SendNotice(j))
                       /\ WF_vars(ClaimJob(j))
                       /\ WF_vars(FinishAttempt(j))

FairSpec == Spec /\ Fairness

-----------------------------------------------------------------------------
(***************************************************************************)
(* Properties.                                                             *)
(***************************************************************************)

\* Every variable holds values of the column, or the message, it stands for.
TypeOK ==
    /\ runState \in [Runs -> RunStates]
    /\ erased \in SUBSET Runs
    /\ jobState \in [Jobs -> JobStates]
    /\ jobOp \in [Jobs -> Operations]
    /\ jobRuns \in [Jobs -> SUBSET Runs]
    /\ currentAttempt \in [Jobs -> 0 .. MaxAttempts]
    /\ retryIn \in [Jobs -> Nat]
    /\ quietIn \in [Jobs -> Nat]
    /\ rowVersion \in [Jobs -> Nat]
    /\ result \in [Jobs -> 0 .. MaxAttempts]
    /\ failure \in [Jobs -> Failures]
    /\ attempts \in [Jobs -> 0 .. MaxAttempts]
    /\ attemptState \in [Jobs -> [AttemptNumbers -> AttemptStates]]
    /\ lease \in [Jobs -> [AttemptNumbers -> Nat]]
    /\ artifact \in [Jobs -> [AttemptNumbers -> {"none", "registered", "withdrawn"}]]
    /\ storedAttempt \in [Jobs -> Nat]
    /\ storedSequence \in [Jobs -> Nat]
    /\ outbox \in SUBSET Notices
    /\ queue \in SUBSET Notices

\* A run the job was made from is deleted, by its tenant or by retention.
InputGone(j) == \E r \in jobRuns[j] : runState[r] = "deleted"

\* Fencing: whatever claims, expiries, retries and cancellations did, the current
\* attempt of a running job is running and no other attempt row is, so two
\* workers never both hold a job.  The exception: the attempt that a deletion of
\* its input missed stays running under the cancelled job (retention.go:99-111)
\* until retention cancels it; checkAttempt refuses its requests all the while.
OneLiveAttempt ==
    \A j \in Jobs, n \in AttemptNumbers :
        /\ jobState[j] = "running" /\ currentAttempt[j] = n => attemptState[j][n] = "running"
        /\ attemptState[j][n] = "running" =>
              /\ currentAttempt[j] = n
              /\ jobState[j] = "running" \/ (jobState[j] = "cancelled" /\ InputGone(j))

\* A job has authoritative artifacts exactly when it succeeded, all of them
\* from the one attempt that succeeded and that the job names as its result:
\* the unique index on authoritative artifacts is never what stops a commit.
OneResult ==
    \A j \in Jobs :
        /\ jobState[j] = "succeeded" <=> result[j] # 0
        /\ \A n \in AttemptNumbers :
              /\ artifact[j][n] # "none" <=> result[j] = n
              /\ attemptState[j][n] = "succeeded" <=> result[j] = n

\* A queued job can be claimed: it has an attempt left and its inputs are
\* usable.  Otherwise every claim is a conflict that settles the notification,
\* and the reconciler republishes the job for ever.
QueuedIsClaimable ==
    \A j \in Jobs : jobState[j] = "queued" => attempts[j] < MaxAttempts /\ InputsUsable(j)

\* Where workers poll, a queued job keeps the unpublished row of its current
\* version until somebody has claimed it, whoever read and settled rows before.
QueuedIsPolled ==
    ~UseQueue => \A j \in Jobs : jobState[j] = "queued" =>
        [job |-> j, version |-> rowVersion[j]] \in outbox

\* No notification names a version its job has not reached, so the row a
\* transition inserts never collides with an older one and every notification
\* of an earlier transition is recognised as stale by a claim.
NoticesAreNotAhead ==
    \A m \in outbox \cup queue :
        jobState[m.job] # "absent" /\ 1 <= m.version /\ m.version <= rowVersion[m.job]

\* Nobody but validation makes a run usable or refuses it: a ready run has a
\* succeeded validation job, an invalid one a failed job.
ValidationDecides ==
    \A r \in Runs :
        /\ runState[r] = "ready" =>
              \E j \in Jobs : jobOp[j] = "validate" /\ jobRuns[j] = {r} /\ jobState[j] = "succeeded"
        /\ runState[r] = "invalid" =>
              \E j \in Jobs : jobOp[j] = "validate" /\ jobRuns[j] = {r} /\ jobState[j] = "failed"

\* The rows of different tables agree: notifications with the versions of their
\* jobs, the outbox with the queued jobs, runs with their validations.
RowsAgree == QueuedIsPolled /\ NoticesAreNotAhead /\ ValidationDecides

\* Once a tenant deleted a run no job on it is open and nothing derived from
\* it is offered, whatever was queued, leased or committing at the time.
ErasedLeavesNothing ==
    \A j \in Jobs : jobRuns[j] \cap erased # {} =>
        /\ jobState[j] \in Terminal
        /\ \A n \in AttemptNumbers : artifact[j][n] # "registered"

\* The one change of a finished job's attempt rows: retention, or the deletion
\* of the other input, cancels the attempt that a deletion missed.
RowsFinal(j) ==
    \A n \in AttemptNumbers : attemptState'[j][n] # attemptState[j][n] =>
        /\ jobState[j] = "cancelled" /\ InputGone(j)
        /\ attemptState[j][n] = "running" /\ attemptState'[j][n] = "cancelled"

\* Terminal rows are immutable: no later request, expiry, repair or deletion
\* changes a finished job's state, result, failure, progress or number of
\* attempts, nor its attempt rows, except that the attempt a deletion missed
\* (see OneLiveAttempt) is cancelled later.
TerminalIsFinal ==
    [][\A j \in Jobs : jobState[j] \in Terminal =>
          /\ jobState'[j] = jobState[j]
          /\ result'[j] = result[j]
          /\ failure'[j] = failure[j]
          /\ attempts'[j] = attempts[j]
          /\ RowsFinal(j)
          /\ rowVersion'[j] = rowVersion[j]
          /\ storedAttempt'[j] = storedAttempt[j]
          /\ storedSequence'[j] = storedSequence[j]]_vars

\* A refused claim stays refused: a worker that settles a notification after a
\* conflict, however much later, never settles one that became claimable again.
RefusalIsFinal ==
    [][\A m \in queue : ~Claimable(m) => ~Claimable(m)']_vars

\* The event stream's identifiers, attempt then sequence, never go back, although
\* each attempt starts its own sequence and late workers keep reporting.
ProgressAdvances ==
    [][\A j \in Jobs :
          \/ UNCHANGED <<storedAttempt[j], storedSequence[j]>>
          \/ storedAttempt'[j] > storedAttempt[j]
          \/ /\ storedAttempt'[j] = storedAttempt[j]
             /\ storedSequence'[j] > storedSequence[j]]_vars

\* The transactions implement the published transition table.
Contract == INSTANCE JobContract WITH
    state <- jobState, attempt <- attempts, current <- currentAttempt

\* Whatever a transaction does to a job is one transition of
\* contracts/lifecycle-v1.json or leaves its lifecycle alone: attempts are
\* numbered in order, a retry has no current attempt until it is claimed, only
\* the current attempt of a running job succeeds, fails or is retried, and what
\* may be retried ends the job at its last attempt only.
ImplementsContract == Contract!Spec

\* A job ends: no lost message, dead worker, expired lease or crash of a
\* publisher leaves it open for ever.
JobsEnd == \A j \in Jobs : jobState[j] \in Unfinished ~> jobState[j] \in Terminal

\* A retry is not lost: a job that waits for one is queued again or cancelled.
RetriesHappen ==
    \A j \in Jobs : jobState[j] = "retry_wait" ~> jobState[j] \in {"queued", "cancelled"}

\* An upload is decided: its run becomes ready or invalid, unless a tenant
\* cancels its validation or the run is deleted.
ValidationSettles ==
    \A r \in Runs : runState[r] = "validating" ~>
        \/ runState[r] \in {"ready", "invalid", "deleted"}
        \/ \E j \in Jobs : r \in jobRuns[j] /\ jobState[j] = "cancelled"

\* Nothing waits for ever: jobs end, retries are queued again, uploads are
\* decided (reconcile.go, the loops of tracewaked and of the workers).
JobsSettle == JobsEnd /\ RetriesHappen /\ ValidationSettles

-----------------------------------------------------------------------------
(***************************************************************************)
(* What has to be known besides, for the properties above to be inductive. *)
(***************************************************************************)

\* The attempt rows of a job are 1 .. attempts[j]; a running job's current
\* attempt is the newest, a waiting job has none and has one left to make, and
\* only a failed job has a failure code.
AttemptRows ==
    \A j \in Jobs :
        /\ \A n \in AttemptNumbers : attemptState[j][n] = "none" <=> n > attempts[j]
        /\ jobState[j] = "running" => currentAttempt[j] = attempts[j] /\ attempts[j] > 0
        /\ jobState[j] \in {"absent", "queued", "retry_wait"} => currentAttempt[j] = 0
        /\ jobState[j] \in {"queued", "retry_wait"} => attempts[j] < MaxAttempts
        /\ jobState[j] = "absent" => attempts[j] = 0
        /\ failure[j] = "none" <=> jobState[j] # "failed"

\* An open job's inputs are usable, a run has at most one validation, which
\* exists only once its bytes have arrived, and an absent job has no inputs.
InputsHold ==
    /\ \A j \in Jobs : jobState[j] \in Unfinished => InputsUsable(j)
    /\ \A j \in Jobs : jobState[j] = "absent" => jobRuns[j] = {}
    /\ \A j \in Jobs : jobState[j] # "absent" /\ jobOp[j] = "validate" =>
          \E r \in Runs : jobRuns[j] = {r} /\ runState[r] \notin {"absent", "pending"}
    /\ \A i, j \in Jobs, r \in Runs :
          (jobOp[i] = "validate" /\ jobOp[j] = "validate" /\ r \in jobRuns[i] \cap jobRuns[j])
              => i = j

\* A run a tenant deleted stays deleted.
ErasedIsDeleted == \A r \in erased : runState[r] = "deleted"
=============================================================================
