------------------------- MODULE JobLifecycleProofs -------------------------
(***************************************************************************)
(* Proofs about JobLifecycle, for every set of runs and jobs and every     *)
(* choice of attempts, lease, delays and bounds.                           *)
(***************************************************************************)
EXTENDS JobLifecycle, TLAPS

\* Frame abbreviations are always expanded.
USE DEF vars, runVars, inputVars, jobVars, attemptVars, outcomeVars, progressVars, outputVars, noticeVars

-----------------------------------------------------------------------------
(***************************************************************************)
(* Typing.                                                                 *)
(***************************************************************************)

\* The tuple of columns a notification row is made of is a notification.
LEMMA NoticeType ==
    ASSUME NEW j \in Jobs, NEW v \in Nat
    PROVE  [job |-> j, version |-> v] \in Notices
BY DEF Notices

\* The attempt a claim creates has one of the allowed numbers.
LEMMA ClaimedNumber ==
    ASSUME TypeOK, NEW m, m.job \in Jobs, Claim(m)
    PROVE  attempts[m.job] + 1 \in AttemptNumbers
<1>1. attempts[m.job] \in 0 .. MaxAttempts
    BY DEF TypeOK
<1>2. attempts[m.job] + 1 <= MaxAttempts
    BY DEF Claim, Claimable
<1>3. QED
    BY <1>1, <1>2, ConstantsAssumption DEF AttemptNumbers

\* Every transaction of the control plane, every delivery step and every tick
\* keeps all columns and messages within their types.
LEMMA TypeStep == TypeOK /\ [Next]_vars => TypeOK'
<1> SUFFICES ASSUME TypeOK, [Next]_vars PROVE TypeOK'
    OBVIOUS
<1> USE ConstantsAssumption
<1>1. ASSUME NEW r \in Runs, CreateUpload(r) PROVE TypeOK'
    BY <1>1 DEF TypeOK, CreateUpload, RunStates
<1>2. ASSUME NEW r \in Runs, NEW missed \in SUBSET Jobs, DeleteRun(r, missed) PROVE TypeOK'
    BY <1>2 DEF TypeOK, DeleteRun, CancelWork, CancelAttempts, RunStates, JobStates, Terminal, AttemptStates
<1>3. ASSUME NEW r \in Runs, NEW j \in Jobs, CompleteUpload(r, j) PROVE TypeOK'
    BY <1>3, NoticeType DEF TypeOK, CompleteUpload, InsertJob, RunStates, JobStates, Unfinished, Operations
<1>4. ASSUME NEW j \in Jobs, NEW op \in AnalysisOps, NEW rs \in SUBSET Runs, CreateJob(j, op, rs) PROVE TypeOK'
    BY <1>4, NoticeType DEF TypeOK, CreateJob, InsertJob, JobStates, Unfinished, Operations
<1>5. ASSUME NEW j \in Jobs, RequestCancellation(j) PROVE TypeOK'
    BY <1>5 DEF TypeOK, RequestCancellation, CancelAttempts, JobStates, Terminal, AttemptStates
<1>6. ASSUME NEW m \in queue, Claim(m) PROVE TypeOK'
    <2>1. m.job \in Jobs
        BY DEF TypeOK, Notices
    <2>2. attempts[m.job] + 1 \in AttemptNumbers
        BY <1>6, <2>1, ClaimedNumber
    <2>3. /\ attempts' \in [Jobs -> 0 .. MaxAttempts]
          /\ currentAttempt' \in [Jobs -> 0 .. MaxAttempts]
        <3>1. attempts[m.job] + 1 \in 0 .. MaxAttempts
            BY <2>2 DEF AttemptNumbers
        <3>2. attempts \in [Jobs -> 0 .. MaxAttempts] /\ currentAttempt \in [Jobs -> 0 .. MaxAttempts]
            BY DEF TypeOK
        <3>3. /\ attempts' = [attempts EXCEPT ![m.job] = attempts[m.job] + 1]
              /\ currentAttempt' = [currentAttempt EXCEPT ![m.job] = attempts[m.job] + 1]
            BY <1>6 DEF Claim
        <3>4. QED
            BY <2>1, <3>1, <3>2, <3>3
    <2>4. attemptState' \in [Jobs -> [AttemptNumbers -> AttemptStates]]
        BY <1>6, <2>1, <2>2 DEF TypeOK, Claim, AttemptStates
    <2>5. lease' \in [Jobs -> [AttemptNumbers -> Nat]]
        BY <1>6, <2>1, <2>2 DEF TypeOK, Claim
    <2>6. QED
        BY <1>6, <2>1, <2>3, <2>4, <2>5 DEF TypeOK, Claim, JobStates, Unfinished
<1>7. ASSUME NEW m \in queue, Acknowledge(m) PROVE TypeOK'
    BY <1>7 DEF TypeOK, Acknowledge
<1>8. ASSUME NEW m \in queue, LoseNotification(m) PROVE TypeOK'
    BY <1>8 DEF TypeOK, LoseNotification
<1>9. ASSUME NEW j \in Jobs, NEW n \in AttemptNumbers, Heartbeat(j, n) PROVE TypeOK'
    BY <1>9 DEF TypeOK, Heartbeat
<1>10. ASSUME NEW j \in Jobs, NEW n \in AttemptNumbers, NEW seq \in 1 .. MaxSequence, UpdateProgress(j, n, seq) PROVE TypeOK'
    <2>1. n \in Nat /\ seq \in Nat
        BY DEF AttemptNumbers
    <2>2. QED
        BY <1>10, <2>1 DEF TypeOK, UpdateProgress
<1>11. ASSUME NEW j \in Jobs, NEW n \in AttemptNumbers, NEW retryable \in BOOLEAN, FailAttempt(j, n, retryable) PROVE TypeOK'
    <2>1. ScheduleRetry(j, n) \/ FailJob(j, n, FinalCode(retryable))
        BY <1>11 DEF FailAttempt
    <2>2. /\ quietIn' \in [Jobs -> Nat]
          /\ rowVersion' \in [Jobs -> Nat]
          /\ UNCHANGED <<erased, inputVars, result, attempts, lease, outputVars, noticeVars>>
        BY <1>11 DEF TypeOK, FailAttempt
    <2>3. CASE ScheduleRetry(j, n)
        BY <2>2, <2>3 DEF TypeOK, ScheduleRetry, Backoff, JobStates, Unfinished, AttemptStates
    <2>4. CASE FailJob(j, n, FinalCode(retryable))
        BY <2>2, <2>4 DEF TypeOK, FailJob, FinalCode, Failures, RunStates, JobStates, Terminal, AttemptStates
    <2>5. QED
        BY <2>1, <2>3, <2>4
<1>12. ASSUME NEW j \in Jobs, NEW n \in AttemptNumbers, CompleteAttempt(j, n) PROVE TypeOK'
    <2>1. result' \in [Jobs -> 0 .. MaxAttempts]
        BY <1>12 DEF TypeOK, CompleteAttempt, AttemptNumbers
    <2>2. QED
        BY <1>12, <2>1 DEF TypeOK, CompleteAttempt, RunStates, JobStates, Terminal, AttemptStates
<1>13. ASSUME NEW expired \in SUBSET ExpiredJobs, NEW due \in SUBSET DueJobs, NEW stranded \in SUBSET StrandedJobs,
              ReconcileBatch(expired, due, stranded) PROVE TypeOK'
    <2>1. attemptState' \in [Jobs -> [AttemptNumbers -> AttemptStates]]
        BY <1>13 DEF TypeOK, ReconcileBatch, AttemptStates
    <2>2. jobState' \in [Jobs -> JobStates] /\ failure' \in [Jobs -> Failures]
        BY <1>13 DEF TypeOK, ReconcileBatch, JobStates, Failures, Unfinished, Terminal
    <2>3. /\ currentAttempt' \in [Jobs -> 0 .. MaxAttempts]
          /\ retryIn' \in [Jobs -> Nat]
          /\ quietIn' \in [Jobs -> Nat]
          /\ rowVersion' \in [Jobs -> Nat]
        BY <1>13 DEF TypeOK, ReconcileBatch, Backoff
    <2>4. runState' \in [Runs -> RunStates]
        BY <1>13 DEF TypeOK, ReconcileBatch, RunStates
    <2>5. outbox' \in SUBSET Notices
        <3>1. due \cup stranded \subseteq Jobs
            BY DEF DueJobs, StrandedJobs
        <3>2. \A j \in Jobs : rowVersion[j] + 1 \in Nat
            BY DEF TypeOK
        <3>3. {NewNotice(j) : j \in due \cup stranded} \subseteq Notices
            BY <3>1, <3>2, NoticeType DEF NewNotice
        <3>4. QED
            BY <1>13, <3>3 DEF TypeOK, ReconcileBatch
    <2>6. QED
        BY <1>13, <2>1, <2>2, <2>3, <2>4, <2>5 DEF TypeOK, ReconcileBatch
<1>14. ASSUME NEW expired \in SUBSET Runs, NEW missed \in SUBSET Jobs, EnforceRetention(expired, missed) PROVE TypeOK'
    BY <1>14 DEF TypeOK, EnforceRetention, CancelWork, CancelAttempts, RunStates, JobStates, Terminal, AttemptStates
<1>15. ASSUME NEW batch \in SUBSET outbox, NEW committed \in BOOLEAN, PublishOutbox(batch, committed) PROVE TypeOK'
    BY <1>15 DEF TypeOK, PublishOutbox
<1>16. ASSUME NEW m \in outbox, NextNotification(m) PROVE TypeOK'
    BY <1>16 DEF TypeOK, NextNotification
<1>17. CASE Tick
    <2>1. \A t \in Nat : Sooner(t) \in Nat
        BY DEF Sooner
    <2>2. QED
        BY <1>17, <2>1 DEF TypeOK, Tick
<1>18. CASE UNCHANGED vars
    BY <1>18 DEF TypeOK
<1>19. QED
    BY <1>1, <1>2, <1>3, <1>4, <1>5, <1>6, <1>7, <1>8, <1>9, <1>10, <1>11, <1>12,
       <1>13, <1>14, <1>15, <1>16, <1>17, <1>18 DEF Next, Reconcile

\* The control plane's rows and messages always have their types.
THEOREM TypeCorrect == Spec => []TypeOK
<1>1. Init => TypeOK
    BY ConstantsAssumption DEF Init, TypeOK, RunStates, JobStates, AttemptStates, Failures, Operations, Notices
<1>2. QED
    BY <1>1, TypeStep, PTL DEF Spec

-----------------------------------------------------------------------------
(***************************************************************************)
(* What a step can do to the lifecycle columns of one job.                 *)
(***************************************************************************)

\* Attempt row n of j holds s afterwards, and the other rows what they held.
RowBecomes(j, n, s) ==
    \A k \in AttemptNumbers : attemptState'[j][k] = IF k = n THEN s ELSE attemptState[j][k]

\* The running rows of j are cancelled, and the other rows keep what they held.
RunningEnds(j) ==
    \A k \in AttemptNumbers : attemptState'[j][k] =
        IF attemptState[j][k] = "running" THEN "cancelled" ELSE attemptState[j][k]

ArtifactsKept(j) ==
    \A k \in AttemptNumbers : artifact'[j][k] = "none" <=> artifact[j][k] = "none"

\* The job has the same result and failure, and artifacts of the same attempts.
OutcomeKept(j) == result'[j] = result[j] /\ failure'[j] = failure[j] /\ ArtifactsKept(j)

Kept(j) ==
    /\ jobState'[j] = jobState[j] /\ currentAttempt'[j] = currentAttempt[j]
    /\ attempts'[j] = attempts[j] /\ attemptState'[j] = attemptState[j]
    /\ OutcomeKept(j)

Created(j) ==
    /\ jobState[j] = "absent" /\ jobState'[j] = "queued"
    /\ currentAttempt'[j] = currentAttempt[j]
    /\ attempts'[j] = attempts[j] /\ attemptState'[j] = attemptState[j]
    /\ OutcomeKept(j)

Claimed(j) ==
    /\ jobState[j] = "queued" /\ jobState'[j] = "running"
    /\ attempts[j] + 1 <= MaxAttempts /\ attempts'[j] = attempts[j] + 1
    /\ currentAttempt'[j] = attempts[j] + 1
    /\ RowBecomes(j, attempts[j] + 1, "running")
    /\ OutcomeKept(j)

\* An open job is cancelled, and its running attempt unless a deletion missed it.
Cancelled(j) ==
    /\ jobState[j] \in Unfinished /\ jobState'[j] = "cancelled"
    /\ currentAttempt'[j] = currentAttempt[j] /\ attempts'[j] = attempts[j]
    /\ RunningEnds(j) \/ (attemptState'[j] = attemptState[j] /\ InputGone(j)')
    /\ OutcomeKept(j)

\* An attempt that an earlier deletion missed is cancelled under its closed job.
Swept(j) ==
    /\ jobState[j] \notin Unfinished /\ jobState'[j] = jobState[j]
    /\ currentAttempt'[j] = currentAttempt[j] /\ attempts'[j] = attempts[j]
    /\ RunningEnds(j) /\ OutcomeKept(j)

\* The current attempt n of a running job ends in s and the job moves to t.
Ended(j, n, s, t) ==
    /\ jobState[j] = "running" /\ currentAttempt[j] = n /\ attemptState[j][n] = "running"
    /\ jobState'[j] = t /\ attempts'[j] = attempts[j] /\ RowBecomes(j, n, s)

Succeeded(j, n) ==
    /\ Ended(j, n, "succeeded", "succeeded") /\ currentAttempt'[j] = n
    /\ result'[j] = n /\ failure'[j] = failure[j]
    /\ \A k \in AttemptNumbers : artifact'[j][k] = "none" <=> artifact[j][k] = "none" /\ k # n

Failed(j, n) ==
    /\ Ended(j, n, "failed", "failed") /\ currentAttempt'[j] = n
    /\ failure'[j] = "permanent" \/ (failure'[j] = "retry_exhausted" /\ n = MaxAttempts)
    /\ result'[j] = result[j] /\ ArtifactsKept(j)

Retried(j, n) ==
    /\ Ended(j, n, "fenced", "retry_wait") /\ n < MaxAttempts /\ currentAttempt'[j] = 0
    /\ OutcomeKept(j)

Released(j) ==
    /\ jobState[j] = "retry_wait" /\ jobState'[j] = "queued"
    /\ currentAttempt'[j] = currentAttempt[j]
    /\ attempts'[j] = attempts[j] /\ attemptState'[j] = attemptState[j]
    /\ OutcomeKept(j)

Effect(j) ==
    \/ Kept(j) \/ Created(j) \/ Claimed(j) \/ Cancelled(j) \/ Swept(j) \/ Released(j)
    \/ \E n \in AttemptNumbers : Succeeded(j, n) \/ Failed(j, n) \/ Retried(j, n)

\* A request accepted under attempt n's token comes from the current attempt.
LEMMA AcceptedIsCurrent ==
    ASSUME NEW j \in Jobs, NEW n \in AttemptNumbers, checkAttempt(j, n)
    PROVE  /\ jobState[j] = "running" /\ currentAttempt[j] = n
           /\ attemptState[j][n] = "running" /\ InputsUsable(j)
           /\ lease[j][n] # 0
BY DEF checkAttempt, AttemptReply

\* Cancelling the work of a set of jobs, in a deletion or by retention, cancels
\* the open ones, sweeps attempts under the closed ones, and leaves the other
\* jobs as they were.
LEMMA CancelWorkEffect ==
    ASSUME TypeOK, NEW S \in SUBSET Jobs, NEW missed \in SUBSET Jobs, CancelWork(S, missed),
           UNCHANGED <<currentAttempt, result, failure, attempts>>,
           NEW j \in Jobs, ArtifactsKept(j), j \in S => InputGone(j)'
    PROVE  Kept(j) \/ Cancelled(j) \/ Swept(j)
<1>1. OutcomeKept(j) /\ currentAttempt'[j] = currentAttempt[j] /\ attempts'[j] = attempts[j]
    BY DEF OutcomeKept
<1>2. jobState'[j] = IF j \in S /\ jobState[j] \in Unfinished THEN "cancelled" ELSE jobState[j]
    BY DEF TypeOK, CancelWork
<1>3. j \in S /\ j \notin missed => RunningEnds(j)
    BY DEF TypeOK, CancelWork, CancelAttempts, RunningEnds
<1>4. j \notin S \/ j \in missed => attemptState'[j] = attemptState[j]
    BY DEF TypeOK, CancelWork, CancelAttempts
<1>5. CASE j \in S /\ jobState[j] \in Unfinished
    BY <1>1, <1>2, <1>3, <1>4, <1>5 DEF Cancelled
<1>6. CASE ~(j \in S /\ jobState[j] \in Unfinished)
    BY <1>1, <1>2, <1>3, <1>4, <1>6 DEF Kept, Swept
<1>7. QED
    BY <1>5, <1>6

\* Each step has one of these effects on each job.
LEMMA StepEffect == TypeOK /\ [Next]_vars => \A j \in Jobs : Effect(j)
<1> SUFFICES ASSUME TypeOK, [Next]_vars, NEW i \in Jobs PROVE Effect(i)
    OBVIOUS
<1> USE ConstantsAssumption
<1>0. ASSUME UNCHANGED <<jobState, currentAttempt, attempts, attemptState, result, failure, artifact>> PROVE Effect(i)
    BY <1>0 DEF Effect, Kept, OutcomeKept, ArtifactsKept
<1>1. ASSUME NEW r \in Runs, CreateUpload(r) PROVE Effect(i)
    BY <1>0, <1>1 DEF CreateUpload
<1>2. ASSUME NEW r \in Runs, NEW missed \in SUBSET Jobs, DeleteRun(r, missed) PROVE Effect(i)
    <2> DEFINE derived == {j \in Jobs : jobState[j] # "absent" /\ r \in jobRuns[j]}
    <2>1. CancelWork(derived, missed) /\ UNCHANGED <<currentAttempt, result, failure, attempts>>
        BY <1>2 DEF DeleteRun
    <2>2. ArtifactsKept(i)
        BY <1>2 DEF DeleteRun, ArtifactsKept
    <2>3. i \in derived => InputGone(i)'
        BY <1>2 DEF DeleteRun, InputGone, TypeOK
    <2>4. QED
        BY <2>1, <2>2, <2>3, CancelWorkEffect DEF Effect
<1>3. ASSUME NEW r \in Runs, NEW j \in Jobs, CompleteUpload(r, j) PROVE Effect(i)
    BY <1>3 DEF TypeOK, CompleteUpload, InsertJob, Effect, Kept, Created, OutcomeKept, ArtifactsKept
<1>4. ASSUME NEW j \in Jobs, NEW op \in AnalysisOps, NEW rs \in SUBSET Runs, CreateJob(j, op, rs) PROVE Effect(i)
    BY <1>4 DEF TypeOK, CreateJob, InsertJob, Effect, Kept, Created, OutcomeKept, ArtifactsKept
<1>5. ASSUME NEW j \in Jobs, RequestCancellation(j) PROVE Effect(i)
    <2>1. CASE i = j
        BY <1>5, <2>1 DEF TypeOK, RequestCancellation, CancelAttempts, Effect, Cancelled, RunningEnds, OutcomeKept, ArtifactsKept
    <2>2. CASE i # j
        BY <1>5, <2>2 DEF TypeOK, RequestCancellation, CancelAttempts, Effect, Kept, OutcomeKept, ArtifactsKept
    <2>3. QED
        BY <2>1, <2>2
<1>6. ASSUME NEW m \in queue, Claim(m) PROVE Effect(i)
    <2>1. m.job \in Jobs
        BY DEF TypeOK, Notices
    <2>2. attempts[m.job] + 1 \in AttemptNumbers
        BY <1>6, <2>1, ClaimedNumber
    <2>3. CASE i = m.job
        BY <1>6, <2>2, <2>3 DEF TypeOK, Claim, Claimable, Effect, Claimed, RowBecomes, OutcomeKept, ArtifactsKept
    <2>4. CASE i # m.job
        BY <1>6, <2>4 DEF TypeOK, Claim, Effect, Kept, OutcomeKept, ArtifactsKept
    <2>5. QED
        BY <2>3, <2>4
<1>7. ASSUME NEW m \in queue, Acknowledge(m) \/ LoseNotification(m) PROVE Effect(i)
    BY <1>0, <1>7 DEF Acknowledge, LoseNotification
<1>8. ASSUME NEW j \in Jobs, NEW n \in AttemptNumbers, Heartbeat(j, n) PROVE Effect(i)
    BY <1>0, <1>8 DEF Heartbeat
<1>9. ASSUME NEW j \in Jobs, NEW n \in AttemptNumbers, NEW seq \in 1 .. MaxSequence, UpdateProgress(j, n, seq) PROVE Effect(i)
    BY <1>0, <1>9 DEF UpdateProgress
<1>10. ASSUME NEW j \in Jobs, NEW n \in AttemptNumbers, NEW retryable \in BOOLEAN, FailAttempt(j, n, retryable) PROVE Effect(i)
    <2>1. checkAttempt(j, n) /\ UNCHANGED <<result, attempts, artifact>>
        BY <1>10 DEF FailAttempt
    <2>2. /\ jobState[j] = "running" /\ currentAttempt[j] = n
          /\ attemptState[j][n] = "running"
        BY <2>1, AcceptedIsCurrent
    <2>3. \/ ScheduleRetry(j, n) /\ n < MaxAttempts
          \/ FailJob(j, n, FinalCode(retryable)) /\ (retryable => ~(n < MaxAttempts))
        BY <1>10 DEF FailAttempt
    <2>4. CASE i # j
        BY <2>1, <2>3, <2>4 DEF TypeOK, ScheduleRetry, FailJob, Effect, Kept, OutcomeKept, ArtifactsKept
    <2>5. CASE i = j /\ ScheduleRetry(j, n) /\ n < MaxAttempts
        <3>1. Retried(i, n)
            BY <2>1, <2>2, <2>5 DEF TypeOK, ScheduleRetry, Retried, Ended, RowBecomes, OutcomeKept, ArtifactsKept
        <3>2. QED
            BY <3>1 DEF Effect
    <2>6. CASE i = j /\ FailJob(j, n, FinalCode(retryable)) /\ (retryable => ~(n < MaxAttempts))
        <3>1. retryable => n = MaxAttempts
            BY <2>6 DEF AttemptNumbers
        <3>2. failure'[i] = FinalCode(retryable)
            BY <2>6 DEF TypeOK, FailJob
        <3>3. Failed(i, n)
            BY <2>1, <2>2, <2>6, <3>1, <3>2 DEF FinalCode, TypeOK, FailJob, Failed, Ended, RowBecomes, OutcomeKept, ArtifactsKept
        <3>4. QED
            BY <3>3 DEF Effect
    <2>7. QED
        BY <2>3, <2>4, <2>5, <2>6
<1>11. ASSUME NEW j \in Jobs, NEW n \in AttemptNumbers, CompleteAttempt(j, n) PROVE Effect(i)
    <2>1. /\ jobState[j] = "running" /\ currentAttempt[j] = n
          /\ attemptState[j][n] = "running"
        BY <1>11, AcceptedIsCurrent DEF CompleteAttempt
    <2>2. CASE i # j
        BY <1>11, <2>2 DEF TypeOK, CompleteAttempt, Effect, Kept, OutcomeKept, ArtifactsKept
    <2>3. CASE i = j
        <3>1. Succeeded(i, n)
            BY <1>11, <2>1, <2>3 DEF TypeOK, CompleteAttempt, Succeeded, Ended, RowBecomes
        <3>2. QED
            BY <3>1 DEF Effect
    <2>4. QED
        BY <2>2, <2>3
<1>12. ASSUME NEW expired \in SUBSET ExpiredJobs, NEW due \in SUBSET DueJobs, NEW stranded \in SUBSET StrandedJobs,
              ReconcileBatch(expired, due, stranded) PROVE Effect(i)
    <2>1. UNCHANGED <<result, attempts, artifact>>
        BY <1>12 DEF ReconcileBatch
    <2>2. CASE i \in expired
        <3>1. /\ jobState[i] = "running" /\ currentAttempt[i] \in AttemptNumbers
              /\ attemptState[i][currentAttempt[i]] = "running"
            BY <2>2 DEF TypeOK, ExpiredJobs, AttemptNumbers
        <3>2. CASE currentAttempt[i] < MaxAttempts
            <4>1. Retried(i, currentAttempt[i])
                BY <1>12, <2>1, <2>2, <3>1, <3>2 DEF TypeOK, ReconcileBatch, Retried, Ended, RowBecomes, OutcomeKept, ArtifactsKept
            <4>2. QED
                BY <3>1, <4>1 DEF Effect
        <3>3. CASE ~(currentAttempt[i] < MaxAttempts)
            <4>0. currentAttempt[i] = MaxAttempts
                BY <3>1, <3>3 DEF AttemptNumbers
            <4>1. Failed(i, currentAttempt[i])
                BY <1>12, <2>1, <2>2, <3>1, <3>3, <4>0 DEF TypeOK, ReconcileBatch, Failed, Ended, RowBecomes, OutcomeKept, ArtifactsKept
            <4>2. QED
                BY <3>1, <4>1 DEF Effect
        <3>4. QED
            BY <3>2, <3>3
    <2>3. ASSUME i \notin expired
          PROVE  /\ attemptState'[i] = attemptState[i] /\ currentAttempt'[i] = currentAttempt[i]
                 /\ failure'[i] = failure[i]
                 /\ jobState'[i] = IF i \in due \cup stranded THEN "queued" ELSE jobState[i]
        BY <1>12, <2>3 DEF TypeOK, ReconcileBatch
    <2>4. CASE i \notin expired /\ i \in due
        BY <2>1, <2>3, <2>4 DEF DueJobs, Effect, Released, OutcomeKept, ArtifactsKept
    <2>5. CASE i \notin expired /\ i \notin due
        BY <2>1, <2>3, <2>5 DEF StrandedJobs, Effect, Kept, OutcomeKept, ArtifactsKept
    <2>6. QED
        BY <2>2, <2>4, <2>5
<1>13. ASSUME NEW expired \in SUBSET Runs, NEW missed \in SUBSET Jobs, EnforceRetention(expired, missed) PROVE Effect(i)
    <2> DEFINE gone == expired \cup {r \in Runs : runState[r] = "deleted"}
               derived == {j \in Jobs : jobState[j] # "absent" /\ jobRuns[j] \cap gone # {}}
    <2>1. CancelWork(derived, missed) /\ UNCHANGED <<currentAttempt, result, failure, attempts>>
        BY <1>13 DEF EnforceRetention
    <2>2. ArtifactsKept(i)
        BY <1>13 DEF EnforceRetention, ArtifactsKept
    <2>3. i \in derived => InputGone(i)'
        BY <1>13 DEF EnforceRetention, InputGone, TypeOK
    <2>4. QED
        BY <2>1, <2>2, <2>3, CancelWorkEffect DEF Effect
<1>14. ASSUME NEW batch \in SUBSET outbox, NEW committed \in BOOLEAN, PublishOutbox(batch, committed) PROVE Effect(i)
    BY <1>0, <1>14 DEF PublishOutbox
<1>15. ASSUME NEW m \in outbox, NextNotification(m) PROVE Effect(i)
    BY <1>0, <1>15 DEF NextNotification
<1>16. CASE Tick \/ UNCHANGED vars
    BY <1>0, <1>16 DEF Tick
<1>17. QED
    BY <1>1, <1>2, <1>3, <1>4, <1>5, <1>6, <1>7, <1>8, <1>9, <1>10, <1>11, <1>12,
       <1>13, <1>14, <1>15, <1>16 DEF Next, Reconcile

\* The operation and the runs of a job are written once.
LEMMA InputsStay ==
    ASSUME TypeOK, [Next]_vars, NEW j \in Jobs, jobState[j] # "absent"
    PROVE  jobOp'[j] = jobOp[j] /\ jobRuns'[j] = jobRuns[j]
<1>0. jobOp \in [Jobs -> Operations] /\ jobRuns \in [Jobs -> SUBSET Runs]
    BY DEF TypeOK
<1>1. ASSUME NEW i \in Jobs, NEW op, NEW rs, InsertJob(i, op, rs)
      PROVE  jobOp'[j] = jobOp[j] /\ jobRuns'[j] = jobRuns[j]
    BY <1>0, <1>1 DEF InsertJob
<1>2. ASSUME NEW r \in Runs, NEW i \in Jobs, CompleteUpload(r, i)
      PROVE  jobOp'[j] = jobOp[j] /\ jobRuns'[j] = jobRuns[j]
    BY <1>1, <1>2 DEF CompleteUpload
<1>3. ASSUME NEW i \in Jobs, NEW op \in AnalysisOps, NEW rs \in SUBSET Runs, CreateJob(i, op, rs)
      PROVE  jobOp'[j] = jobOp[j] /\ jobRuns'[j] = jobRuns[j]
    BY <1>1, <1>3 DEF CreateJob
<1>4. CASE \/ \E r \in Runs : CreateUpload(r) \/ \E missed \in SUBSET Jobs : DeleteRun(r, missed)
           \/ \E i \in Jobs : RequestCancellation(i)
           \/ \E expired \in SUBSET Runs, missed \in SUBSET Jobs : EnforceRetention(expired, missed)
           \/ Reconcile
    BY <1>4 DEF CreateUpload, DeleteRun, RequestCancellation, EnforceRetention, Reconcile, ReconcileBatch
<1>5. CASE \E i \in Jobs, n \in AttemptNumbers :
              \/ Heartbeat(i, n)
              \/ \E seq \in 1 .. MaxSequence : UpdateProgress(i, n, seq)
              \/ \E retryable \in BOOLEAN : FailAttempt(i, n, retryable)
              \/ CompleteAttempt(i, n)
    BY <1>5 DEF Heartbeat, UpdateProgress, FailAttempt, CompleteAttempt
<1>6. CASE \/ \E m \in queue : Claim(m) \/ Acknowledge(m) \/ LoseNotification(m)
           \/ \E batch \in SUBSET outbox, committed \in BOOLEAN : PublishOutbox(batch, committed)
           \/ \E m \in outbox : NextNotification(m)
           \/ Tick \/ UNCHANGED vars
    BY <1>6 DEF Claim, Acknowledge, LoseNotification, PublishOutbox, NextNotification, Tick
<1>7. QED
    BY <1>2, <1>3, <1>4, <1>5, <1>6 DEF Next

\* A deleted run stays deleted: what completes, fails or expires has usable
\* inputs or leaves a deleted run alone.
LEMMA DeletedStays ==
    ASSUME TypeOK, [Next]_vars, NEW r \in Runs, runState[r] = "deleted"
    PROVE  runState'[r] = "deleted"
<1>0. runState \in [Runs -> RunStates]
    BY DEF TypeOK
<1>1. ASSUME NEW q \in Runs, CreateUpload(q) \/ (\E missed \in SUBSET Jobs : DeleteRun(q, missed))
                             \/ \E j \in Jobs : CompleteUpload(q, j)
      PROVE  runState'[r] = "deleted"
    BY <1>0, <1>1 DEF CreateUpload, DeleteRun, CompleteUpload
<1>2. ASSUME NEW expired \in SUBSET Runs, NEW missed \in SUBSET Jobs, EnforceRetention(expired, missed)
      PROVE  runState'[r] = "deleted"
    BY <1>2 DEF EnforceRetention
<1>3. ASSUME NEW j \in Jobs, NEW n \in AttemptNumbers, NEW retryable \in BOOLEAN, FailAttempt(j, n, retryable)
      PROVE  runState'[r] = "deleted"
    BY <1>3 DEF FailAttempt, ScheduleRetry, FailJob
<1>4. ASSUME NEW j \in Jobs, NEW n \in AttemptNumbers, CompleteAttempt(j, n) PROVE runState'[r] = "deleted"
    <2>1. InputsUsable(j)
        BY <1>4, AcceptedIsCurrent DEF CompleteAttempt
    <2>2. r \notin jobRuns[j]
        BY <2>1 DEF InputsUsable, UsableState
    <2>3. QED
        BY <1>4, <2>2 DEF CompleteAttempt
<1>5. CASE Reconcile
    BY <1>5 DEF Reconcile, ReconcileBatch
<1>6. CASE \/ \E j \in Jobs : RequestCancellation(j)
           \/ \E j \in Jobs, op \in AnalysisOps, rs \in SUBSET Runs : CreateJob(j, op, rs)
           \/ \E j \in Jobs, n \in AttemptNumbers :
                 Heartbeat(j, n) \/ \E seq \in 1 .. MaxSequence : UpdateProgress(j, n, seq)
           \/ \E m \in queue : Claim(m) \/ Acknowledge(m) \/ LoseNotification(m)
           \/ \E batch \in SUBSET outbox, committed \in BOOLEAN : PublishOutbox(batch, committed)
           \/ \E m \in outbox : NextNotification(m)
           \/ Tick \/ UNCHANGED vars
    BY <1>6 DEF RequestCancellation, CreateJob, Heartbeat, UpdateProgress, Claim, Acknowledge, LoseNotification,
                PublishOutbox, NextNotification, Tick
<1>7. QED
    BY <1>1, <1>2, <1>3, <1>4, <1>5, <1>6 DEF Next

\* A job that lost an input has lost it for good.
LEMMA GoneStays ==
    ASSUME TypeOK, [Next]_vars, NEW j \in Jobs, jobState[j] # "absent", InputGone(j)
    PROVE  InputGone(j)'
<1>1. jobRuns'[j] = jobRuns[j] /\ jobRuns[j] \subseteq Runs
    BY InputsStay DEF TypeOK
<1>2. PICK r \in jobRuns[j] : runState[r] = "deleted"
    BY DEF InputGone
<1>3. runState'[r] = "deleted"
    BY <1>1, <1>2, DeletedStays
<1>4. QED
    BY <1>1, <1>2, <1>3 DEF InputGone

-----------------------------------------------------------------------------
(***************************************************************************)
(* Fencing and the single result.  Both are inductive together with the    *)
(* shape of the attempt rows.                                              *)
(***************************************************************************)
Fenced == TypeOK /\ OneLiveAttempt /\ AttemptRows /\ OneResult

\* Initially there are no rows.
LEMMA FencedInit == Init => Fenced
<1>1. Init => TypeOK
    BY ConstantsAssumption DEF Init, TypeOK, RunStates, JobStates, AttemptStates, Failures, Operations, Notices
<1>2. Init => OneLiveAttempt /\ AttemptRows /\ OneResult
    BY ConstantsAssumption DEF Init, OneLiveAttempt, AttemptRows, OneResult, AttemptNumbers
<1>3. QED
    BY <1>1, <1>2 DEF Fenced

\* What Fenced says of one job.
LiveOne(j) == \A n \in AttemptNumbers :
    /\ jobState[j] = "running" /\ currentAttempt[j] = n => attemptState[j][n] = "running"
    /\ attemptState[j][n] = "running" =>
          /\ currentAttempt[j] = n
          /\ jobState[j] = "running" \/ (jobState[j] = "cancelled" /\ InputGone(j))

RowsOf(j) ==
    /\ \A n \in AttemptNumbers : attemptState[j][n] = "none" <=> n > attempts[j]
    /\ jobState[j] = "running" => currentAttempt[j] = attempts[j] /\ attempts[j] > 0
    /\ jobState[j] \in {"absent", "queued", "retry_wait"} => currentAttempt[j] = 0
    /\ jobState[j] \in {"queued", "retry_wait"} => attempts[j] < MaxAttempts
    /\ jobState[j] = "absent" => attempts[j] = 0
    /\ failure[j] = "none" <=> jobState[j] # "failed"

ResultOf(j) ==
    /\ jobState[j] = "succeeded" <=> result[j] # 0
    /\ \A n \in AttemptNumbers :
          /\ artifact[j][n] # "none" <=> result[j] = n
          /\ attemptState[j][n] = "succeeded" <=> result[j] = n

\* Every effect keeps what Fenced says of its job.
LEMMA EffectKeepsFenced ==
    ASSUME NEW j \in Jobs, TypeOK, TypeOK', Effect(j), LiveOne(j), RowsOf(j), ResultOf(j),
           jobState[j] = "cancelled" /\ InputGone(j) => InputGone(j)'
    PROVE  LiveOne(j)' /\ RowsOf(j)' /\ ResultOf(j)'
<1> USE ConstantsAssumption DEF AttemptNumbers
<1>0. /\ attempts[j] \in 0 .. MaxAttempts /\ currentAttempt[j] \in 0 .. MaxAttempts
      /\ result[j] \in 0 .. MaxAttempts
    BY DEF TypeOK
<1>1. CASE Kept(j)
    BY <1>1 DEF Kept, OutcomeKept, ArtifactsKept, LiveOne, RowsOf, ResultOf
<1>2. CASE Created(j)
    BY <1>0, <1>2 DEF Created, OutcomeKept, ArtifactsKept, LiveOne, RowsOf, ResultOf
<1>3. CASE Claimed(j)
    <2>1. LiveOne(j)' /\ RowsOf(j)'
        BY <1>0, <1>3 DEF Claimed, RowBecomes, OutcomeKept, LiveOne, RowsOf
    <2>2. ResultOf(j)'
        BY <1>0, <1>3 DEF Claimed, RowBecomes, OutcomeKept, ArtifactsKept, RowsOf, ResultOf
    <2>3. QED
        BY <2>1, <2>2
<1>4. CASE Cancelled(j)
    <2>1. LiveOne(j)'
        BY <1>4 DEF Cancelled, RunningEnds, LiveOne
    <2>2. RowsOf(j)' /\ ResultOf(j)'
        BY <1>0, <1>4 DEF Cancelled, RunningEnds, OutcomeKept, ArtifactsKept, RowsOf, ResultOf, Unfinished
    <2>3. QED
        BY <2>1, <2>2
<1>4a. CASE Swept(j)
    BY <1>0, <1>4a DEF Swept, RunningEnds, OutcomeKept, ArtifactsKept, LiveOne, RowsOf, ResultOf, Unfinished
<1>5. CASE Released(j)
    BY <1>0, <1>5 DEF Released, OutcomeKept, ArtifactsKept, LiveOne, RowsOf, ResultOf
<1>6. ASSUME NEW n \in AttemptNumbers, Succeeded(j, n) PROVE LiveOne(j)' /\ RowsOf(j)' /\ ResultOf(j)'
    <2>1. LiveOne(j)' /\ RowsOf(j)'
        BY <1>0, <1>6 DEF Succeeded, Ended, RowBecomes, LiveOne, RowsOf
    <2>2. ResultOf(j)'
        BY <1>0, <1>6 DEF Succeeded, Ended, RowBecomes, ResultOf
    <2>3. QED
        BY <2>1, <2>2
<1>7. ASSUME NEW n \in AttemptNumbers, Failed(j, n) PROVE LiveOne(j)' /\ RowsOf(j)' /\ ResultOf(j)'
    <2>1. LiveOne(j)' /\ RowsOf(j)'
        BY <1>0, <1>7 DEF Failed, Ended, RowBecomes, LiveOne, RowsOf
    <2>2. ResultOf(j)'
        BY <1>0, <1>7 DEF Failed, Ended, RowBecomes, OutcomeKept, ArtifactsKept, ResultOf
    <2>3. QED
        BY <2>1, <2>2
<1>8. ASSUME NEW n \in AttemptNumbers, Retried(j, n) PROVE LiveOne(j)' /\ RowsOf(j)' /\ ResultOf(j)'
    <2>1. LiveOne(j)' /\ RowsOf(j)'
        BY <1>0, <1>8 DEF Retried, Ended, RowBecomes, OutcomeKept, LiveOne, RowsOf
    <2>2. ResultOf(j)'
        BY <1>0, <1>8 DEF Retried, Ended, RowBecomes, OutcomeKept, ArtifactsKept, ResultOf
    <2>3. QED
        BY <2>1, <2>2
<1>9. QED
    BY <1>1, <1>2, <1>3, <1>4, <1>4a, <1>5, <1>6, <1>7, <1>8 DEF Effect

\* Every step keeps Fenced.
LEMMA FencedStep == Fenced /\ [Next]_vars => Fenced'
<1> SUFFICES ASSUME Fenced, [Next]_vars PROVE Fenced'
    OBVIOUS
<1>1. TypeOK /\ TypeOK'
    BY TypeStep DEF Fenced
<1>2. ASSUME NEW j \in Jobs PROVE LiveOne(j)' /\ RowsOf(j)' /\ ResultOf(j)'
    <2>1. LiveOne(j) /\ RowsOf(j) /\ ResultOf(j)
        BY DEF Fenced, OneLiveAttempt, AttemptRows, OneResult, LiveOne, RowsOf, ResultOf
    <2>2. Effect(j)
        BY <1>1, StepEffect DEF Fenced
    <2>3. jobState[j] = "cancelled" /\ InputGone(j) => InputGone(j)'
        BY <1>1, GoneStays
    <2>4. QED
        BY <1>1, <2>1, <2>2, <2>3, EffectKeepsFenced
<1>3. QED
    BY <1>1, <1>2 DEF Fenced, OneLiveAttempt, AttemptRows, OneResult, LiveOne, RowsOf, ResultOf

LEMMA AlwaysFenced == Spec => []Fenced
BY FencedInit, FencedStep, PTL DEF Spec

\* Two workers never both hold a job: only the current attempt of a running job
\* is running, or the attempt that the deletion of an input missed when it
\* cancelled the job.
THEOREM Fencing == Spec => []OneLiveAttempt
BY AlwaysFenced, PTL DEF Fenced

\* A job has at most one authoritative result, it has one exactly when it
\* succeeded, and it comes from the one attempt that succeeded.
THEOREM SingleResult == Spec => []OneResult
BY AlwaysFenced, PTL DEF Fenced

-----------------------------------------------------------------------------
(***************************************************************************)
(* The transactions implement the transition table.                        *)
(***************************************************************************)

\* Each effect is a transition of the table or leaves the job alone.
LEMMA EffectIsTransition ==
    ASSUME NEW j \in Jobs, Fenced, Effect(j)
    PROVE  Contract!Transition(j) \/ Contract!Unchanged(j)
<1> USE ConstantsAssumption DEF AttemptNumbers, Contract!Becomes
<1>0. /\ attempts[j] \in 0 .. MaxAttempts
      /\ LiveOne(j) /\ RowsOf(j) /\ ResultOf(j)
    BY DEF Fenced, TypeOK, OneLiveAttempt, AttemptRows, OneResult, LiveOne, RowsOf, ResultOf
<1>1. CASE Kept(j)
    BY <1>1 DEF Kept, OutcomeKept, Contract!Unchanged
<1>2. CASE Created(j)
    BY <1>0, <1>2 DEF Created, OutcomeKept, RowsOf, ResultOf, Contract!Transition, Contract!Create
<1>3. CASE Claimed(j)
    BY <1>0, <1>3 DEF Claimed, OutcomeKept, RowsOf, ResultOf, Contract!Transition, Contract!ClaimNext
<1>4. CASE Cancelled(j)
    BY <1>0, <1>4 DEF Cancelled, OutcomeKept, RowsOf, ResultOf, Unfinished, Contract!Transition, Contract!ResolveCancellation, Contract!Open
<1>4a. CASE Swept(j)
    BY <1>4a DEF Swept, OutcomeKept, Contract!Unchanged
<1>5. CASE Released(j)
    BY <1>0, <1>5 DEF Released, OutcomeKept, RowsOf, ResultOf, Contract!Transition, Contract!ReleaseRetry
<1>6. ASSUME NEW n \in AttemptNumbers, Succeeded(j, n) PROVE Contract!Transition(j)
    BY <1>0, <1>6 DEF Succeeded, Ended, RowsOf, Contract!Transition, Contract!Complete
<1>7. ASSUME NEW n \in AttemptNumbers, Failed(j, n) PROVE Contract!Transition(j)
    BY <1>0, <1>7 DEF Failed, Ended, RowsOf, ResultOf, Contract!Transition, Contract!PermanentFailure,
                      Contract!RetryExhausted
<1>8. ASSUME NEW n \in AttemptNumbers, Retried(j, n) PROVE Contract!Transition(j)
    BY <1>0, <1>8 DEF Retried, OutcomeKept, Ended, RowsOf, ResultOf, Contract!Transition, Contract!ScheduleRetry
<1>9. QED
    BY <1>1, <1>2, <1>3, <1>4, <1>4a, <1>5, <1>6, <1>7, <1>8 DEF Effect

\* Whatever a transaction does to a job is one transition of the published
\* table, or leaves the job's lifecycle alone.
THEOREM Refinement == Spec => ImplementsContract
<1>1. Init => Contract!Init
    BY DEF Init, Contract!Init
<1>2. Fenced /\ [Next]_vars => [Contract!Next]_(Contract!vars)
    <2> SUFFICES ASSUME Fenced, [Next]_vars PROVE Contract!Next
        OBVIOUS
    <2>1. ASSUME NEW j \in Jobs PROVE Contract!Transition(j) \/ Contract!Unchanged(j)
        BY StepEffect, EffectIsTransition DEF Fenced
    <2>2. QED
        BY <2>1 DEF Contract!Next
<1>3. QED
    BY <1>1, <1>2, AlwaysFenced, PTL DEF Spec, ImplementsContract, Contract!Spec

-----------------------------------------------------------------------------
(***************************************************************************)
(* Past the fencing: a queued job is claimable, no notification is ahead   *)
(* of its job, a refused claim stays refused, a finished job is immutable, *)
(* progress goes forward, what a tenant deleted leaves nothing behind, and *)
(* the rows of different tables agree.                                     *)
(***************************************************************************)

-----------------------------------------------------------------------------
(***************************************************************************)
(* Inputs.                                                                 *)
(***************************************************************************)

\* No step makes an absent job of a created one.
LEMMA CreatedStays ==
    ASSUME NEW j \in Jobs, Effect(j), jobState[j] # "absent"
    PROVE  jobState'[j] # "absent"
BY DEF Effect, Kept, Created, Claimed, Cancelled, Swept, Released, Succeeded, Failed, Retried, Ended

\* Only an insertion creates a job.
LEMMA AbsentStays ==
    ASSUME NEW j \in Jobs, Effect(j), ~Created(j)
    PROVE  jobState'[j] = "absent" <=> jobState[j] = "absent"
BY DEF Effect, Kept, Claimed, Cancelled, Swept, Released, Succeeded, Failed, Retried, Ended, Unfinished

\* Only an insertion makes an open job of one that was not open.
LEMMA OpenWasOpen ==
    ASSUME NEW j \in Jobs, Effect(j), jobState'[j] \in Unfinished, jobState[j] # "absent"
    PROVE  jobState[j] \in Unfinished
BY DEF Effect, Kept, Created, Claimed, Cancelled, Swept, Released, Succeeded, Failed, Retried, Ended, Unfinished

\* A step that inserts no job, and closes every open job on the runs whose state
\* it changes, keeps the inputs of open jobs usable.
LEMMA OrderlyStep ==
    ASSUME InputsHold, UNCHANGED inputVars,
           \A j \in Jobs : jobState'[j] = "absent" <=> jobState[j] = "absent",
           \A j \in Jobs : jobState'[j] \in Unfinished => jobState[j] \in Unfinished,
           \A r \in Runs : runState'[r] # runState[r] =>
               /\ runState'[r] \notin {"absent", "pending"}
               /\ \A j \in Jobs : r \in jobRuns[j] => jobState'[j] \notin Unfinished,
           TypeOK
    PROVE  InputsHold'
<1>1. ASSUME NEW j \in Jobs, jobState'[j] \in Unfinished PROVE InputsUsable(j)'
    <2>1. InputsUsable(j) /\ jobRuns[j] \subseteq Runs
        BY <1>1 DEF InputsHold, TypeOK
    <2>2. \A r \in jobRuns[j] : runState'[r] = runState[r]
        BY <1>1, <2>1
    <2>3. QED
        BY <2>1, <2>2 DEF InputsUsable, UsableState
<1>2. \A j \in Jobs : jobState'[j] = "absent" => jobRuns'[j] = {}
    BY DEF InputsHold
<1>3. ASSUME NEW j \in Jobs, jobState'[j] # "absent", jobOp'[j] = "validate"
      PROVE  \E r \in Runs : jobRuns'[j] = {r} /\ runState'[r] \notin {"absent", "pending"}
    BY <1>3 DEF InputsHold
<1>4. QED
    BY <1>1, <1>2, <1>3 DEF InputsHold

\* A step that touches no run and inserts no job is orderly.
LEMMA QuietStep ==
    ASSUME InputsHold, TypeOK, UNCHANGED <<runState, inputVars>>,
           \A j \in Jobs : Effect(j), \A j \in Jobs : ~Created(j)
    PROVE  InputsHold'
<1>1. \A j \in Jobs : jobState'[j] = "absent" <=> jobState[j] = "absent"
    BY AbsentStays
<1>2. ASSUME NEW j \in Jobs, jobState'[j] \in Unfinished PROVE jobState[j] \in Unfinished
    <2>1. jobState[j] # "absent"
        BY <1>1, <1>2 DEF Unfinished
    <2>2. Effect(j)
        OBVIOUS
    <2>3. QED
        BY <1>2, <2>1, <2>2, OpenWasOpen
<1>3. QED
    BY <1>1, <1>2, OrderlyStep

\* A validation that is decided is the only open job on its run.
LEMMA OnlyOpenJob ==
    ASSUME InputsHold, NEW d \in Jobs, jobState[d] \in Unfinished, jobOp[d] = "validate",
           NEW r \in jobRuns[d], NEW j \in Jobs, r \in jobRuns[j], jobState[j] \in Unfinished,
           TypeOK
    PROVE  j = d
<1>1. runState[r] = "validating" /\ r \in Runs
    BY DEF InputsHold, InputsUsable, UsableState, TypeOK
<1>2. runState[r] = UsableState(jobOp[j])
    BY DEF InputsHold, InputsUsable
<1>3. jobOp[j] = "validate"
    BY <1>1, <1>2 DEF UsableState
<1>4. QED
    BY <1>1, <1>3 DEF InputsHold

\* Deciding the jobs of D, each of which closes, keeps the inputs usable when
\* only runs that a validation of D was validating change.
LEMMA DecidingStep ==
    ASSUME InputsHold, TypeOK, UNCHANGED inputVars, \A j \in Jobs : Effect(j),
           \A j \in Jobs : ~Created(j), NEW D \in SUBSET Jobs,
           \A d \in D : jobState[d] \in Unfinished /\ jobState'[d] \notin Unfinished,
           \A r \in Runs : runState'[r] # runState[r] =>
               /\ runState'[r] \in {"ready", "invalid"}
               /\ \E d \in D : jobOp[d] = "validate" /\ r \in jobRuns[d]
    PROVE  InputsHold'
<1>1. \A j \in Jobs : jobState'[j] = "absent" <=> jobState[j] = "absent"
    BY AbsentStays
<1>2. ASSUME NEW j \in Jobs, jobState'[j] \in Unfinished PROVE jobState[j] \in Unfinished
    <2>1. jobState[j] # "absent"
        BY <1>1, <1>2 DEF Unfinished
    <2>2. Effect(j)
        OBVIOUS
    <2>3. QED
        BY <1>2, <2>1, <2>2, OpenWasOpen
<1>3. ASSUME NEW r \in Runs, runState'[r] # runState[r], NEW j \in Jobs, r \in jobRuns[j]
      PROVE  jobState'[j] \notin Unfinished
    <2>1. PICK d \in D : jobOp[d] = "validate" /\ r \in jobRuns[d]
        BY <1>3
    <2>2. CASE jobState[j] \in Unfinished
        BY <1>3, <2>1, <2>2, OnlyOpenJob
    <2>3. QED
        BY <1>2, <2>2
<1>4. QED
    BY <1>1, <1>2, <1>3, OrderlyStep

\* Cancelling the work on a set of runs that are deleted keeps the others'
\* inputs usable.
LEMMA DeletingStep ==
    ASSUME InputsHold, TypeOK, UNCHANGED inputVars, NEW S, NEW missed, CancelWork(S, missed),
           \A r \in Runs : runState'[r] # runState[r] =>
               /\ runState'[r] = "deleted"
               /\ \A j \in Jobs : r \in jobRuns[j] /\ jobState[j] # "absent" => j \in S,
           S \subseteq Jobs
    PROVE  InputsHold'
<1>1. \A j \in Jobs : jobState'[j] = IF j \in S /\ jobState[j] \in Unfinished
                                    THEN "cancelled" ELSE jobState[j]
    BY DEF CancelWork
<1>2. \A j \in Jobs : jobState'[j] = "absent" <=> jobState[j] = "absent"
    BY <1>1 DEF Unfinished
<1>3. \A j \in Jobs : jobState'[j] \in Unfinished => jobState[j] \in Unfinished /\ j \notin S
    BY <1>1 DEF Unfinished
<1>4. QED
    BY <1>2, <1>3, OrderlyStep DEF Unfinished

\* A step that leaves runs, inputs and job states alone keeps the inputs.
LEMMA FrameStep ==
    ASSUME InputsHold, UNCHANGED <<runState, jobState, jobOp, jobRuns>>
    PROVE  InputsHold'
BY DEF InputsHold, InputsUsable

\* The row inserted for a validation, on a run no open job uses.
LEMMA UploadStep ==
    ASSUME InputsHold, TypeOK, NEW r \in Runs, NEW j \in Jobs, CompleteUpload(r, j)
    PROVE  InputsHold'
<1>1. /\ runState[r] = "pending" /\ jobState[j] = "absent" /\ jobRuns[j] = {}
      /\ runState' = [runState EXCEPT ![r] = "validating"]
      /\ jobState' = [jobState EXCEPT ![j] = "queued"]
      /\ jobOp' = [jobOp EXCEPT ![j] = "validate"]
      /\ jobRuns' = [jobRuns EXCEPT ![j] = {r}]
    BY DEF CompleteUpload, InsertJob, InputsHold
<1>2. \A i \in Jobs : i # j => /\ jobState'[i] = jobState[i] /\ jobOp'[i] = jobOp[i]
                               /\ jobRuns'[i] = jobRuns[i]
    BY <1>1 DEF TypeOK
<1>3. jobState'[j] = "queued" /\ jobOp'[j] = "validate" /\ jobRuns'[j] = {r}
    BY <1>1 DEF TypeOK
<1>4. runState'[r] = "validating" /\ \A q \in Runs : q # r => runState'[q] = runState[q]
    BY <1>1 DEF TypeOK
<1>5. ASSUME NEW i \in Jobs, jobState'[i] \in Unfinished PROVE InputsUsable(i)'
    <2>1. CASE i = j
        BY <1>3, <1>4, <2>1 DEF InputsUsable, UsableState
    <2>2. CASE i # j
        <3>1. InputsUsable(i) /\ jobRuns[i] \subseteq Runs
            BY <1>2, <1>5, <2>2 DEF InputsHold, TypeOK
        <3>2. r \notin jobRuns[i]
            BY <1>1, <3>1 DEF InputsUsable, UsableState
        <3>3. QED
            BY <1>2, <1>4, <2>2, <3>1, <3>2 DEF InputsUsable, UsableState
    <2>3. QED
        BY <2>1, <2>2
<1>6. \A i \in Jobs : jobState'[i] = "absent" => jobRuns'[i] = {}
    BY <1>2, <1>3 DEF InputsHold
<1>7. ASSUME NEW i \in Jobs, jobState'[i] # "absent", jobOp'[i] = "validate"
      PROVE  \E q \in Runs : jobRuns'[i] = {q} /\ runState'[q] \notin {"absent", "pending"}
    <2>1. CASE i = j
        BY <1>3, <1>4, <2>1
    <2>2. CASE i # j
        BY <1>1, <1>2, <1>4, <1>7, <2>2 DEF InputsHold
    <2>3. QED
        BY <2>1, <2>2
<1>8. ASSUME NEW i \in Jobs, jobOp[i] = "validate", r \in jobRuns[i] PROVE FALSE
    BY <1>1, <1>8 DEF InputsHold
<1>9. ASSUME NEW i \in Jobs, NEW k \in Jobs, NEW q \in Runs,
             jobOp'[i] = "validate", jobOp'[k] = "validate", q \in jobRuns'[i] \cap jobRuns'[k]
      PROVE  i = k
    BY <1>2, <1>3, <1>8, <1>9 DEF InputsHold
<1>10. QED
    BY <1>5, <1>6, <1>7, <1>9 DEF InputsHold

\* The row inserted for an analysis, on ready runs.
LEMMA CreationStep ==
    ASSUME InputsHold, TypeOK, NEW j \in Jobs, NEW op \in AnalysisOps, NEW rs \in SUBSET Runs,
           CreateJob(j, op, rs)
    PROVE  InputsHold'
<1>1. /\ jobState[j] = "absent" /\ op # "validate" /\ UNCHANGED runState
      /\ \A r \in rs : runState[r] = "ready"
      /\ jobState' = [jobState EXCEPT ![j] = "queued"]
      /\ jobOp' = [jobOp EXCEPT ![j] = op]
      /\ jobRuns' = [jobRuns EXCEPT ![j] = rs]
    BY ConstantsAssumption DEF CreateJob, InsertJob
<1>2. \A i \in Jobs : i # j => /\ jobState'[i] = jobState[i] /\ jobOp'[i] = jobOp[i]
                               /\ jobRuns'[i] = jobRuns[i]
    BY <1>1 DEF TypeOK
<1>3. jobState'[j] = "queued" /\ jobOp'[j] = op /\ jobRuns'[j] = rs
    BY <1>1 DEF TypeOK
<1>4. ASSUME NEW i \in Jobs, jobState'[i] \in Unfinished PROVE InputsUsable(i)'
    <2>1. CASE i = j
        BY <1>1, <1>3, <2>1 DEF InputsUsable, UsableState
    <2>2. CASE i # j
        BY <1>1, <1>2, <1>4, <2>2 DEF InputsHold, InputsUsable
    <2>3. QED
        BY <2>1, <2>2
<1>5. \A i \in Jobs : jobState'[i] = "absent" => jobRuns'[i] = {}
    BY <1>2, <1>3 DEF InputsHold
<1>6. ASSUME NEW i \in Jobs, jobState'[i] # "absent", jobOp'[i] = "validate"
      PROVE  \E q \in Runs : jobRuns'[i] = {q} /\ runState'[q] \notin {"absent", "pending"}
    BY <1>1, <1>2, <1>3, <1>6 DEF InputsHold
<1>7. ASSUME NEW i \in Jobs, NEW k \in Jobs, NEW q \in Runs,
             jobOp'[i] = "validate", jobOp'[k] = "validate", q \in jobRuns'[i] \cap jobRuns'[k]
      PROVE  i = k
    BY <1>1, <1>2, <1>3, <1>7 DEF InputsHold
<1>8. QED
    BY <1>4, <1>5, <1>6, <1>7 DEF InputsHold

\* Every step keeps the inputs of open jobs usable.
LEMMA InputStep == Fenced /\ InputsHold /\ [Next]_vars => InputsHold'
<1> SUFFICES ASSUME Fenced, InputsHold, [Next]_vars PROVE InputsHold'
    OBVIOUS
<1>0. TypeOK /\ \A j \in Jobs : Effect(j)
    BY StepEffect DEF Fenced
<1>1. ASSUME NEW r \in Runs, CreateUpload(r) PROVE InputsHold'
    <2>1. /\ runState[r] = "absent" /\ runState'[r] = "pending"
          /\ \A q \in Runs : q # r => runState'[q] = runState[q]
          /\ UNCHANGED <<jobState, jobOp, jobRuns>>
        BY <1>0, <1>1 DEF CreateUpload, TypeOK
    <2>2. ASSUME NEW j \in Jobs, jobState[j] \in Unfinished PROVE InputsUsable(j)'
        <3>1. InputsUsable(j) /\ jobRuns[j] \subseteq Runs
            BY <1>0, <2>2 DEF InputsHold, TypeOK
        <3>2. QED
            BY <2>1, <3>1 DEF InputsUsable, UsableState
    <2>3. QED
        BY <2>1, <2>2 DEF InputsHold
<1>2. ASSUME NEW r \in Runs, NEW missed \in SUBSET Jobs, DeleteRun(r, missed) PROVE InputsHold'
    <2> DEFINE derived == {j \in Jobs : jobState[j] # "absent" /\ r \in jobRuns[j]}
    <2>1. CancelWork(derived, missed) /\ UNCHANGED inputVars /\ runState' = [runState EXCEPT ![r] = "deleted"]
        BY <1>2 DEF DeleteRun
    <2>2. \A q \in Runs : runState'[q] # runState[q] => q = r /\ runState'[q] = "deleted"
        BY <1>0, <2>1 DEF TypeOK
    <2>3. QED
        BY <1>0, <2>1, <2>2, DeletingStep
<1>3. ASSUME NEW r \in Runs, NEW j \in Jobs, CompleteUpload(r, j) PROVE InputsHold'
    BY <1>0, <1>3, UploadStep
<1>4. ASSUME NEW j \in Jobs, NEW op \in AnalysisOps, NEW rs \in SUBSET Runs, CreateJob(j, op, rs) PROVE InputsHold'
    BY <1>0, <1>4, CreationStep
<1>5. ASSUME NEW j \in Jobs, RequestCancellation(j) PROVE InputsHold'
    <2>1. \A i \in Jobs : ~Created(i)
        BY <1>0, <1>5 DEF RequestCancellation, TypeOK, Created, Unfinished
    <2>2. UNCHANGED <<runState, inputVars>>
        BY <1>5 DEF RequestCancellation
    <2>3. QED
        BY <1>0, <2>1, <2>2, QuietStep
<1>6. ASSUME NEW m \in queue, Claim(m) PROVE InputsHold'
    <2>1. \A i \in Jobs : ~Created(i)
        BY <1>0, <1>6 DEF Claim, TypeOK, Created
    <2>2. UNCHANGED <<runState, inputVars>>
        BY <1>6 DEF Claim
    <2>3. QED
        BY <1>0, <2>1, <2>2, QuietStep
<1>7. ASSUME NEW m \in queue, Acknowledge(m) \/ LoseNotification(m) PROVE InputsHold'
    BY <1>7, FrameStep DEF Acknowledge, LoseNotification
<1>8. ASSUME NEW j \in Jobs, NEW n \in AttemptNumbers, Heartbeat(j, n) PROVE InputsHold'
    BY <1>8, FrameStep DEF Heartbeat
<1>9. ASSUME NEW j \in Jobs, NEW n \in AttemptNumbers, NEW seq \in 1 .. MaxSequence, UpdateProgress(j, n, seq) PROVE InputsHold'
    BY <1>9, FrameStep DEF UpdateProgress
<1>10. ASSUME NEW j \in Jobs, NEW n \in AttemptNumbers, NEW retryable \in BOOLEAN, FailAttempt(j, n, retryable) PROVE InputsHold'
    <2>1. jobState[j] = "running" /\ UNCHANGED inputVars
        BY <1>10, AcceptedIsCurrent DEF FailAttempt
    <2>2. CASE ScheduleRetry(j, n)
        <3>1. \A i \in Jobs : ~Created(i)
            BY <1>0, <2>2 DEF ScheduleRetry, TypeOK, Created
        <3>2. UNCHANGED <<runState, inputVars>>
            BY <2>1, <2>2 DEF ScheduleRetry
        <3>3. QED
            BY <1>0, <3>1, <3>2, QuietStep
    <2>3. CASE FailJob(j, n, FinalCode(retryable))
        <3>1. \A i \in Jobs : ~Created(i)
            BY <1>0, <2>3 DEF FailJob, TypeOK, Created
        <3>2. jobState[j] \in Unfinished /\ jobState'[j] \notin Unfinished
            BY <1>0, <2>1, <2>3 DEF FailJob, TypeOK, Unfinished
        <3>3. \A r \in Runs : runState'[r] # runState[r] =>
                  runState'[r] = "invalid" /\ jobOp[j] = "validate" /\ r \in jobRuns[j]
            BY <2>3 DEF FailJob
        <3>4. {j} \in SUBSET Jobs
            OBVIOUS
        <3>5. QED
            BY <1>0, <2>1, <3>1, <3>2, <3>3, <3>4, DecidingStep
    <2>4. QED
        BY <1>10, <2>2, <2>3 DEF FailAttempt
<1>11. ASSUME NEW j \in Jobs, NEW n \in AttemptNumbers, CompleteAttempt(j, n) PROVE InputsHold'
    <2>1. jobState[j] = "running" /\ UNCHANGED inputVars
        BY <1>11, AcceptedIsCurrent DEF CompleteAttempt
    <2>2. \A i \in Jobs : ~Created(i)
        BY <1>0, <1>11 DEF CompleteAttempt, TypeOK, Created
    <2>3. jobState[j] \in Unfinished /\ jobState'[j] \notin Unfinished
        BY <1>0, <1>11, <2>1 DEF CompleteAttempt, TypeOK, Unfinished
    <2>4. \A r \in Runs : runState'[r] # runState[r] =>
              runState'[r] = "ready" /\ jobOp[j] = "validate" /\ r \in jobRuns[j]
        BY <1>11 DEF CompleteAttempt
    <2>5. {j} \in SUBSET Jobs
        OBVIOUS
    <2>6. QED
        BY <1>0, <2>1, <2>2, <2>3, <2>4, <2>5, DecidingStep
<1>12. ASSUME NEW expired \in SUBSET ExpiredJobs, NEW due \in SUBSET DueJobs, NEW stranded \in SUBSET StrandedJobs,
              ReconcileBatch(expired, due, stranded) PROVE InputsHold'
    <2> DEFINE exhausted == expired \ {j \in expired : currentAttempt[j] < MaxAttempts}
    <2>1. UNCHANGED inputVars
        BY <1>12 DEF ReconcileBatch
    <2>2. \A i \in Jobs : ~Created(i)
        BY <1>0, <1>12 DEF ReconcileBatch, TypeOK, Created, DueJobs, StrandedJobs
    <2>3. \A d \in exhausted : jobState[d] \in Unfinished /\ jobState'[d] \notin Unfinished
        BY <1>12 DEF ReconcileBatch, ExpiredJobs, Unfinished
    <2>4. \A r \in Runs : runState'[r] # runState[r] =>
              runState'[r] = "invalid" /\ \E d \in exhausted : jobOp[d] = "validate" /\ r \in jobRuns[d]
        BY <1>12 DEF ReconcileBatch
    <2>5. exhausted \in SUBSET Jobs
        BY DEF ExpiredJobs
    <2>6. QED
        BY <1>0, <2>1, <2>2, <2>3, <2>4, <2>5, DecidingStep
<1>13. ASSUME NEW expired \in SUBSET Runs, NEW missed \in SUBSET Jobs, EnforceRetention(expired, missed) PROVE InputsHold'
    <2> DEFINE gone == expired \cup {r \in Runs : runState[r] = "deleted"}
               derived == {j \in Jobs : jobState[j] # "absent" /\ jobRuns[j] \cap gone # {}}
    <2>1. CancelWork(derived, missed) /\ UNCHANGED inputVars
        BY <1>13 DEF EnforceRetention
    <2>2. \A q \in Runs : runState'[q] # runState[q] => q \in gone /\ runState'[q] = "deleted"
        BY <1>13 DEF EnforceRetention
    <2>3. QED
        BY <1>0, <2>1, <2>2, DeletingStep
<1>14. ASSUME NEW batch \in SUBSET outbox, NEW committed \in BOOLEAN, PublishOutbox(batch, committed) PROVE InputsHold'
    BY <1>14, FrameStep DEF PublishOutbox
<1>15. ASSUME NEW m \in outbox, NextNotification(m) PROVE InputsHold'
    BY <1>15, FrameStep DEF NextNotification
<1>16. CASE Tick \/ UNCHANGED vars
    BY <1>16, FrameStep DEF Tick
<1>17. QED
    BY <1>1, <1>2, <1>3, <1>4, <1>5, <1>6, <1>7, <1>8, <1>9, <1>10, <1>11, <1>12,
       <1>13, <1>14, <1>15, <1>16 DEF Next, Reconcile

LEMMA InputInit == Init => InputsHold
BY DEF Init, InputsHold, Unfinished

\* Whatever is deleted, decided, expired or cancelled meanwhile, a queued job
\* has an attempt left and usable inputs, so a worker can claim it.
THEOREM Claimability == Spec => []QueuedIsClaimable
<1>1. Fenced /\ InputsHold => QueuedIsClaimable
    BY DEF Fenced, AttemptRows, InputsHold, QueuedIsClaimable, Unfinished
<1>2. QED
    BY <1>1, FencedInit, FencedStep, InputInit, InputStep, PTL DEF Spec

-----------------------------------------------------------------------------
(***************************************************************************)
(* Versions.                                                               *)
(***************************************************************************)

\* A job that was never created has never had a version.
FreshVersions == \A j \in Jobs : jobState[j] = "absent" => rowVersion[j] = 0

\* The version of j does not go back, and grows when j is queued.
Grows(j) ==
    /\ rowVersion'[j] >= rowVersion[j]
    /\ jobState'[j] = "queued" /\ jobState[j] # "queued" => rowVersion'[j] > rowVersion[j]
    /\ jobState'[j] = "absent" => jobState[j] = "absent" /\ rowVersion'[j] = rowVersion[j]

\* Notification m is new and names the version its job has now.
Fresh(m) == /\ m.job \in Jobs /\ jobState'[m.job] # "absent"
            /\ m.version = rowVersion'[m.job] /\ 1 <= m.version

\* Each step lets versions grow and makes no notification but fresh ones.
LEMMA VersionStep ==
    Fenced /\ FreshVersions /\ [Next]_vars =>
        /\ \A j \in Jobs : Grows(j)
        /\ \A m \in outbox' \cup queue' : m \in outbox \cup queue \/ Fresh(m)
<1> SUFFICES ASSUME Fenced, FreshVersions, [Next]_vars
             PROVE  /\ \A j \in Jobs : Grows(j)
                    /\ \A m \in outbox' \cup queue' : m \in outbox \cup queue \/ Fresh(m)
    OBVIOUS
<1> DEFINE Goal == /\ \A j \in Jobs : Grows(j)
                   /\ \A m \in outbox' \cup queue' : m \in outbox \cup queue \/ Fresh(m)
<1>0. /\ TypeOK /\ rowVersion \in [Jobs -> Nat] /\ jobState \in [Jobs -> JobStates]
      /\ OneLiveAttempt
    BY DEF Fenced, TypeOK
<1>a. ASSUME UNCHANGED <<jobState, rowVersion>>, outbox' \cup queue' \subseteq outbox \cup queue PROVE Goal
    BY <1>0, <1>a DEF Grows
<1>1. ASSUME NEW r \in Runs, CreateUpload(r) PROVE Goal
    BY <1>1, <1>a DEF CreateUpload
<1>2. ASSUME NEW S \in SUBSET Jobs, NEW missed \in SUBSET Jobs, CancelWork(S, missed), UNCHANGED noticeVars PROVE Goal
    BY <1>0, <1>2 DEF CancelWork, Grows, Unfinished
<1>3. ASSUME NEW r \in Runs, NEW missed \in SUBSET Jobs, DeleteRun(r, missed) PROVE Goal
    <2> DEFINE derived == {j \in Jobs : jobState[j] # "absent" /\ r \in jobRuns[j]}
    <2>1. CancelWork(derived, missed) /\ UNCHANGED noticeVars
        BY <1>3 DEF DeleteRun
    <2>2. QED
        BY <1>2, <2>1
<1>4. ASSUME NEW j \in Jobs, NEW op, NEW rs, InsertJob(j, op, rs), UNCHANGED queue PROVE Goal
    BY <1>0, <1>4 DEF InsertJob, FreshVersions, Grows, Fresh
<1>5. ASSUME NEW j \in Jobs, RequestCancellation(j) PROVE Goal
    BY <1>0, <1>5 DEF RequestCancellation, Grows, Unfinished
<1>6. ASSUME NEW m \in queue, Claim(m) PROVE Goal
    <2>1. m.job \in Jobs
        BY <1>0 DEF TypeOK, Notices
    <2>2. QED
        BY <1>0, <1>6, <2>1 DEF Claim, Grows
<1>7. ASSUME NEW m \in queue, Acknowledge(m) \/ LoseNotification(m) PROVE Goal
    BY <1>7, <1>a DEF Acknowledge, LoseNotification
<1>8. ASSUME NEW j \in Jobs, NEW n \in AttemptNumbers,
             Heartbeat(j, n) \/ \E seq \in 1 .. MaxSequence : UpdateProgress(j, n, seq) PROVE Goal
    BY <1>8, <1>a DEF Heartbeat, UpdateProgress
<1>9. ASSUME NEW j \in Jobs, NEW n \in AttemptNumbers, NEW retryable \in BOOLEAN, FailAttempt(j, n, retryable) PROVE Goal
    <2>1. \/ jobState' = [jobState EXCEPT ![j] = "retry_wait"]
          \/ jobState' = [jobState EXCEPT ![j] = "failed"]
        BY <1>9 DEF FailAttempt, ScheduleRetry, FailJob
    <2>2. rowVersion' = [rowVersion EXCEPT ![j] = @ + 1] /\ UNCHANGED noticeVars
        BY <1>9 DEF FailAttempt
    <2>3. QED
        BY <1>0, <2>1, <2>2 DEF Grows
<1>10. ASSUME NEW j \in Jobs, NEW n \in AttemptNumbers, CompleteAttempt(j, n) PROVE Goal
    BY <1>0, <1>10 DEF CompleteAttempt, Grows
<1>11. ASSUME NEW expired \in SUBSET ExpiredJobs, NEW due \in SUBSET DueJobs, NEW stranded \in SUBSET StrandedJobs,
              ReconcileBatch(expired, due, stranded) PROVE Goal
    <2> DEFINE requeued == due \cup stranded
    <2>1. /\ \A j \in Jobs : rowVersion'[j] =
                IF j \in expired \cup requeued THEN rowVersion[j] + 1 ELSE rowVersion[j]
          /\ outbox' = outbox \cup {NewNotice(j) : j \in requeued} /\ UNCHANGED queue
        BY <1>11 DEF ReconcileBatch
    <2>2. \A j \in Jobs : j \in expired => jobState[j] = "running" /\ jobState'[j] \in {"retry_wait", "failed"}
        BY <1>11 DEF ReconcileBatch, ExpiredJobs
    <2>3. \A j \in Jobs : j \notin expired =>
              jobState'[j] = IF j \in requeued THEN "queued" ELSE jobState[j]
        BY <1>11 DEF ReconcileBatch
    <2>4. \A j \in Jobs : Grows(j)
        BY <1>0, <2>1, <2>2, <2>3 DEF Grows
    <2>5. ASSUME NEW j \in requeued PROVE Fresh(NewNotice(j))
        <3>1. j \in Jobs /\ j \notin expired
            BY DEF DueJobs, StrandedJobs, ExpiredJobs
        <3>2. jobState'[j] = "queued" /\ rowVersion'[j] = rowVersion[j] + 1 /\ rowVersion[j] \in Nat
            BY <1>0, <2>1, <2>3, <3>1
        <3>3. QED
            BY <3>1, <3>2 DEF Fresh, NewNotice
    <2>6. QED
        BY <2>1, <2>4, <2>5
<1>12. ASSUME NEW expired \in SUBSET Runs, NEW missed \in SUBSET Jobs, EnforceRetention(expired, missed) PROVE Goal
    <2> DEFINE gone == expired \cup {r \in Runs : runState[r] = "deleted"}
               derived == {j \in Jobs : jobState[j] # "absent" /\ jobRuns[j] \cap gone # {}}
    <2>1. CancelWork(derived, missed) /\ UNCHANGED noticeVars
        BY <1>12 DEF EnforceRetention
    <2>2. QED
        BY <1>2, <2>1
<1>13. ASSUME NEW batch \in SUBSET outbox, NEW committed \in BOOLEAN, PublishOutbox(batch, committed) PROVE Goal
    BY <1>13, <1>a DEF PublishOutbox
<1>14. ASSUME NEW m \in outbox, NextNotification(m) PROVE Goal
    BY <1>14, <1>a DEF NextNotification
<1>15. CASE Tick \/ UNCHANGED vars
    BY <1>15, <1>a DEF Tick
<1>16. ASSUME NEW r \in Runs, NEW j \in Jobs, CompleteUpload(r, j) PROVE Goal
    BY <1>16, <1>4 DEF CompleteUpload
<1>17. ASSUME NEW j \in Jobs, NEW op \in AnalysisOps, NEW rs \in SUBSET Runs, CreateJob(j, op, rs) PROVE Goal
    BY <1>17, <1>4 DEF CreateJob
<1>18. QED
    BY <1>1, <1>3, <1>5, <1>6, <1>7, <1>8, <1>9, <1>10, <1>11, <1>12, <1>13, <1>14,
       <1>15, <1>16, <1>17 DEF Next, Reconcile

Versions == FreshVersions /\ NoticesAreNotAhead

\* Growing versions and fresh notifications keep every notification behind its job.
LEMMA VersionsKept == Fenced /\ Versions /\ [Next]_vars => Versions'
<1> SUFFICES ASSUME Fenced, Versions, [Next]_vars PROVE Versions'
    OBVIOUS
<1>1. /\ \A j \in Jobs : Grows(j)
      /\ \A m \in outbox' \cup queue' : m \in outbox \cup queue \/ Fresh(m)
    BY VersionStep DEF Versions
<1>2. TypeOK /\ TypeOK'
    BY TypeStep DEF Fenced
<1>3. FreshVersions'
    BY <1>1 DEF Versions, FreshVersions, Grows
<1>4. ASSUME NEW m \in outbox' \cup queue'
      PROVE  jobState'[m.job] # "absent" /\ 1 <= m.version /\ m.version <= rowVersion'[m.job]
    <2>1. m.job \in Jobs /\ m.version \in Nat /\ rowVersion[m.job] \in Nat /\ rowVersion'[m.job] \in Nat
        BY <1>2 DEF TypeOK, Notices
    <2>2. CASE m \in outbox \cup queue
        BY <1>1, <2>1, <2>2 DEF Versions, NoticesAreNotAhead, Grows
    <2>3. CASE Fresh(m)
        BY <2>1, <2>3 DEF Fresh
    <2>4. QED
        BY <1>1, <2>2, <2>3
<1>5. QED
    BY <1>3, <1>4 DEF Versions, NoticesAreNotAhead

LEMMA VersionsInit == Init => Versions
BY DEF Init, Versions, FreshVersions, NoticesAreNotAhead

\* No notification, stored or delivered, is ahead of its job.
THEOREM NoticesBehind == Spec => []NoticesAreNotAhead
BY FencedInit, FencedStep, VersionsInit, VersionsKept, PTL DEF Spec, Versions

\* A claim that is refused is refused for ever, so settling its notification
\* after the refusal never loses one that somebody could still claim.
THEOREM SettledForGood == Spec => RefusalIsFinal
<1>1. ASSUME Fenced, InputsHold, Versions, [Next]_vars
      PROVE  \A m \in queue : ~Claimable(m) => ~Claimable(m)'
    <2> SUFFICES ASSUME NEW m \in queue, ~Claimable(m), Claimable(m)' PROVE FALSE
        OBVIOUS
    <2>1. Grows(m.job) /\ m.job \in Jobs /\ m.version \in Nat
        BY <1>1, VersionStep DEF Versions, Fenced, TypeOK, Notices
    <2>2. m.version <= rowVersion[m.job] /\ rowVersion[m.job] \in Nat /\ rowVersion'[m.job] \in Nat
        BY <1>1, <2>1, TypeStep DEF Versions, NoticesAreNotAhead, Fenced, TypeOK
    <2>3. m.version = rowVersion'[m.job] /\ jobState'[m.job] = "queued"
        BY DEF Claimable
    <2>4. m.version = rowVersion[m.job] /\ jobState[m.job] = "queued"
        BY <2>1, <2>2, <2>3 DEF Grows
    <2>5. attempts[m.job] + 1 <= MaxAttempts /\ InputsUsable(m.job)
        <3>1. attempts[m.job] \in Nat /\ attempts[m.job] < MaxAttempts
            BY <1>1, <2>1, <2>4, ConstantsAssumption DEF Fenced, AttemptRows, TypeOK
        <3>2. InputsUsable(m.job)
            BY <1>1, <2>1, <2>4 DEF InputsHold, Unfinished
        <3>3. QED
            BY <3>1, <3>2, ConstantsAssumption
    <2>6. QED
        BY <2>4, <2>5 DEF Claimable
<1>2. QED
    BY <1>1, FencedInit, FencedStep, InputInit, InputStep, VersionsInit, VersionsKept, PTL
       DEF Spec, RefusalIsFinal

-----------------------------------------------------------------------------
(***************************************************************************)
(* Finished jobs and progress.                                             *)
(***************************************************************************)

\* The version and the progress of a finished job are left alone.
Settled(j) ==
    jobState[j] \in Terminal =>
        /\ rowVersion'[j] = rowVersion[j]
        /\ storedAttempt'[j] = storedAttempt[j]
        /\ storedSequence'[j] = storedSequence[j]

\* The snapshot of j stays or moves to a later attempt or sequence.
Forward(j) ==
    \/ storedAttempt'[j] = storedAttempt[j] /\ storedSequence'[j] = storedSequence[j]
    \/ storedAttempt'[j] > storedAttempt[j]
    \/ storedAttempt'[j] = storedAttempt[j] /\ storedSequence'[j] > storedSequence[j]

\* No step touches the version or the progress of a finished job, and no step
\* takes progress back.
LEMMA HistoryStep == TypeOK /\ [Next]_vars => \A j \in Jobs : Settled(j) /\ Forward(j)
<1> SUFFICES ASSUME TypeOK, [Next]_vars, NEW i \in Jobs PROVE Settled(i) /\ Forward(i)
    OBVIOUS
<1> USE DEF Settled, Forward, Terminal
<1>0. /\ rowVersion \in [Jobs -> Nat] /\ jobState \in [Jobs -> JobStates]
      /\ storedAttempt \in [Jobs -> Nat] /\ storedSequence \in [Jobs -> Nat]
    BY DEF TypeOK
<1>1. ASSUME UNCHANGED <<rowVersion, storedAttempt, storedSequence>> PROVE Settled(i) /\ Forward(i)
    BY <1>1
<1>2. ASSUME NEW S \in SUBSET Jobs, NEW missed \in SUBSET Jobs, CancelWork(S, missed), UNCHANGED progressVars PROVE Settled(i) /\ Forward(i)
    BY <1>0, <1>2 DEF CancelWork, Unfinished
<1>3. ASSUME NEW j \in Jobs, jobState[j] \notin Terminal, NEW v, rowVersion' = [rowVersion EXCEPT ![j] = v],
             UNCHANGED progressVars PROVE Settled(i) /\ Forward(i)
    BY <1>0, <1>3
<1>4. ASSUME NEW r \in Runs, CreateUpload(r) PROVE Settled(i) /\ Forward(i)
    BY <1>1, <1>4 DEF CreateUpload
<1>5. ASSUME NEW r \in Runs, NEW missed \in SUBSET Jobs, DeleteRun(r, missed) PROVE Settled(i) /\ Forward(i)
    <2> DEFINE derived == {j \in Jobs : jobState[j] # "absent" /\ r \in jobRuns[j]}
    <2>1. CancelWork(derived, missed) /\ UNCHANGED progressVars
        BY <1>5 DEF DeleteRun
    <2>2. QED
        BY <1>2, <2>1
<1>6. ASSUME NEW r \in Runs, NEW j \in Jobs, CompleteUpload(r, j) PROVE Settled(i) /\ Forward(i)
    BY <1>3, <1>6 DEF CompleteUpload, InsertJob
<1>7. ASSUME NEW j \in Jobs, NEW op \in AnalysisOps, NEW rs \in SUBSET Runs, CreateJob(j, op, rs)
      PROVE  Settled(i) /\ Forward(i)
    BY <1>3, <1>7 DEF CreateJob, InsertJob
<1>8. ASSUME NEW j \in Jobs, RequestCancellation(j) PROVE Settled(i) /\ Forward(i)
    BY <1>3, <1>8 DEF RequestCancellation, Unfinished
<1>9. ASSUME NEW m \in queue, Claim(m) PROVE Settled(i) /\ Forward(i)
    <2>1. m.job \in Jobs /\ jobState[m.job] = "queued"
        BY <1>9 DEF TypeOK, Notices, Claim, Claimable
    <2>2. QED
        BY <1>3, <1>9, <2>1 DEF Claim
<1>10. ASSUME NEW m \in queue, Acknowledge(m) \/ LoseNotification(m) PROVE Settled(i) /\ Forward(i)
    BY <1>1, <1>10 DEF Acknowledge, LoseNotification
<1>11. ASSUME NEW j \in Jobs, NEW n \in AttemptNumbers, Heartbeat(j, n) PROVE Settled(i) /\ Forward(i)
    BY <1>1, <1>11 DEF Heartbeat
<1>12. ASSUME NEW j \in Jobs, NEW n \in AttemptNumbers, NEW seq \in 1 .. MaxSequence, UpdateProgress(j, n, seq)
       PROVE  Settled(i) /\ Forward(i)
    <2>1. jobState[j] = "running"
        BY <1>12, AcceptedIsCurrent DEF UpdateProgress
    <2>2. n \in Nat /\ seq \in Nat
        BY ConstantsAssumption DEF AttemptNumbers
    <2>3. QED
        BY <1>0, <1>12, <2>1, <2>2 DEF UpdateProgress
<1>13. ASSUME NEW j \in Jobs, NEW n \in AttemptNumbers, NEW retryable \in BOOLEAN, FailAttempt(j, n, retryable)
       PROVE  Settled(i) /\ Forward(i)
    <2>1. jobState[j] = "running"
        BY <1>13, AcceptedIsCurrent DEF FailAttempt
    <2>2. QED
        BY <1>3, <1>13, <2>1 DEF FailAttempt
<1>14. ASSUME NEW j \in Jobs, NEW n \in AttemptNumbers, CompleteAttempt(j, n) PROVE Settled(i) /\ Forward(i)
    <2>1. jobState[j] = "running"
        BY <1>14, AcceptedIsCurrent DEF CompleteAttempt
    <2>2. QED
        BY <1>3, <1>14, <2>1 DEF CompleteAttempt
<1>15. ASSUME NEW expired \in SUBSET ExpiredJobs, NEW due \in SUBSET DueJobs, NEW stranded \in SUBSET StrandedJobs,
              ReconcileBatch(expired, due, stranded) PROVE Settled(i) /\ Forward(i)
    <2>1. i \in expired \cup due \cup stranded => jobState[i] \notin Terminal
        BY DEF ExpiredJobs, DueJobs, StrandedJobs
    <2>2. QED
        BY <1>15, <2>1 DEF ReconcileBatch
<1>16. ASSUME NEW expired \in SUBSET Runs, NEW missed \in SUBSET Jobs, EnforceRetention(expired, missed) PROVE Settled(i) /\ Forward(i)
    <2> DEFINE gone == expired \cup {r \in Runs : runState[r] = "deleted"}
               derived == {j \in Jobs : jobState[j] # "absent" /\ jobRuns[j] \cap gone # {}}
    <2>1. CancelWork(derived, missed) /\ UNCHANGED progressVars
        BY <1>16 DEF EnforceRetention
    <2>2. QED
        BY <1>2, <2>1
<1>17. ASSUME NEW batch \in SUBSET outbox, NEW committed \in BOOLEAN, PublishOutbox(batch, committed)
       PROVE  Settled(i) /\ Forward(i)
    BY <1>1, <1>17 DEF PublishOutbox
<1>18. ASSUME NEW m \in outbox, NextNotification(m) PROVE Settled(i) /\ Forward(i)
    BY <1>1, <1>18 DEF NextNotification
<1>19. CASE Tick \/ UNCHANGED vars
    BY <1>1, <1>19 DEF Tick
<1>20. QED
    BY <1>4, <1>5, <1>6, <1>7, <1>8, <1>9, <1>10, <1>11, <1>12, <1>13, <1>14, <1>15, <1>16,
       <1>17, <1>18, <1>19 DEF Next, Reconcile

\* A finished job keeps its state, result, failure, attempts, version and
\* progress; its attempt rows change only when the attempt that the deletion of an
\* input missed is cancelled.
THEOREM Finality == Spec => TerminalIsFinal
<1>1. ASSUME Fenced, [Next]_vars
      PROVE  \A j \in Jobs : jobState[j] \in Terminal =>
                 /\ jobState'[j] = jobState[j]
                 /\ result'[j] = result[j]
                 /\ failure'[j] = failure[j]
                 /\ attempts'[j] = attempts[j]
                 /\ RowsFinal(j)
                 /\ rowVersion'[j] = rowVersion[j]
                 /\ storedAttempt'[j] = storedAttempt[j]
                 /\ storedSequence'[j] = storedSequence[j]
    <2> TAKE j \in Jobs
    <2> HAVE jobState[j] \in Terminal
    <2>1. Effect(j) /\ Settled(j)
        BY <1>1, StepEffect, HistoryStep DEF Fenced
    <2>2. Kept(j) \/ Swept(j)
        BY <2>1 DEF Effect, Created, Claimed, Cancelled, Released, Succeeded, Failed,
                    Retried, Ended, Terminal, Unfinished
    <2>3. RowsFinal(j)
        <3>1. CASE Kept(j)
            BY <3>1 DEF Kept, RowsFinal
        <3>2. CASE Swept(j)
            BY <1>1, <3>2 DEF Swept, RunningEnds, RowsFinal, Fenced, OneLiveAttempt, Terminal
        <3>3. QED
            BY <2>2, <3>1, <3>2
    <2>4. QED
        BY <2>1, <2>2, <2>3 DEF Kept, Swept, OutcomeKept, Settled
<1>2. QED
    BY <1>1, AlwaysFenced, PTL DEF Spec, TerminalIsFinal

\* The identifiers of the progress stream never go back.
THEOREM ProgressForward == Spec => ProgressAdvances
<1>1. ASSUME TypeOK, [Next]_vars
      PROVE  \A j \in Jobs :
                 \/ UNCHANGED <<storedAttempt[j], storedSequence[j]>>
                 \/ storedAttempt'[j] > storedAttempt[j]
                 \/ /\ storedAttempt'[j] = storedAttempt[j]
                    /\ storedSequence'[j] > storedSequence[j]
    BY <1>1, HistoryStep DEF Forward
<1>2. QED
    BY <1>1, TypeCorrect, PTL DEF Spec, ProgressAdvances

-----------------------------------------------------------------------------
(***************************************************************************)
(* Deletion.                                                               *)
(***************************************************************************)

\* No artifact on offer is derived from a run a tenant deleted.
Withdrawn ==
    \A j \in Jobs, n \in AttemptNumbers :
        artifact[j][n] = "registered" => jobRuns[j] \cap erased = {}

\* No step offers an artifact of an erased run or brings such a run back.
LEMMA ErasureStep ==
    ASSUME Fenced, InputsHold, ErasedIsDeleted, Withdrawn, [Next]_vars
    PROVE  ErasedIsDeleted' /\ Withdrawn'
<1> USE DEF ErasedIsDeleted, Withdrawn
<1>0. /\ runState \in [Runs -> RunStates] /\ erased \subseteq Runs
      /\ jobRuns \in [Jobs -> SUBSET Runs] /\ jobState \in [Jobs -> JobStates]
      /\ artifact \in [Jobs -> [AttemptNumbers -> {"none", "registered", "withdrawn"}]]
    BY DEF Fenced, TypeOK
<1>1. ASSUME UNCHANGED <<erased, jobRuns, artifact>>,
             \A r \in Runs : runState[r] = "deleted" => runState'[r] = "deleted"
      PROVE  ErasedIsDeleted' /\ Withdrawn'
    BY <1>0, <1>1
<1>2. ASSUME NEW j \in Jobs, NEW op, NEW rs \in SUBSET Runs, InsertJob(j, op, rs),
             UNCHANGED <<erased, artifact>>,
             \A r \in Runs : runState[r] = "deleted" => runState'[r] = "deleted"
      PROVE  ErasedIsDeleted' /\ Withdrawn'
    <2>1. \A n \in AttemptNumbers : artifact[j][n] = "none"
        BY <1>2, ConstantsAssumption DEF InsertJob, Fenced, OneResult, AttemptNumbers
    <2>2. \A i \in Jobs : i # j => jobRuns'[i] = jobRuns[i]
        BY <1>0, <1>2 DEF InsertJob
    <2>3. QED
        BY <1>0, <1>2, <2>1, <2>2
<1>3. ASSUME NEW r \in Runs, CreateUpload(r) PROVE ErasedIsDeleted' /\ Withdrawn'
    BY <1>0, <1>1, <1>3 DEF CreateUpload
<1>4. ASSUME NEW r \in Runs, NEW missed \in SUBSET Jobs, DeleteRun(r, missed) PROVE ErasedIsDeleted' /\ Withdrawn'
    <2>1. ErasedIsDeleted'
        BY <1>0, <1>4 DEF DeleteRun
    <2>2. ASSUME NEW j \in Jobs, NEW n \in AttemptNumbers, artifact'[j][n] = "registered"
          PROVE  jobRuns'[j] \cap erased' = {}
        <3>1. artifact[j][n] = "registered" /\ ~(jobState[j] # "absent" /\ r \in jobRuns[j])
            BY <1>0, <1>4, <2>2 DEF DeleteRun
        <3>2. r \notin jobRuns[j]
            BY <3>1 DEF InputsHold
        <3>3. QED
            BY <1>4, <3>1, <3>2 DEF DeleteRun
    <2>3. QED
        BY <2>1, <2>2
<1>5. ASSUME NEW r \in Runs, NEW j \in Jobs, CompleteUpload(r, j) PROVE ErasedIsDeleted' /\ Withdrawn'
    <2>1. \A q \in Runs : runState[q] = "deleted" => runState'[q] = "deleted"
        BY <1>0, <1>5 DEF CompleteUpload
    <2>2. QED
        BY <1>2, <1>5, <2>1 DEF CompleteUpload
<1>6. ASSUME NEW j \in Jobs, NEW op \in AnalysisOps, NEW rs \in SUBSET Runs, CreateJob(j, op, rs)
      PROVE  ErasedIsDeleted' /\ Withdrawn'
    BY <1>2, <1>6 DEF CreateJob
<1>7. ASSUME NEW j \in Jobs, RequestCancellation(j) PROVE ErasedIsDeleted' /\ Withdrawn'
    BY <1>1, <1>7 DEF RequestCancellation
<1>8. ASSUME NEW m \in queue, Claim(m) \/ Acknowledge(m) \/ LoseNotification(m)
      PROVE  ErasedIsDeleted' /\ Withdrawn'
    BY <1>1, <1>8 DEF Claim, Acknowledge, LoseNotification
<1>9. ASSUME NEW j \in Jobs, NEW n \in AttemptNumbers,
             Heartbeat(j, n) \/ \E seq \in 1 .. MaxSequence : UpdateProgress(j, n, seq)
      PROVE  ErasedIsDeleted' /\ Withdrawn'
    BY <1>1, <1>9 DEF Heartbeat, UpdateProgress
<1>10. ASSUME NEW j \in Jobs, NEW n \in AttemptNumbers, NEW retryable \in BOOLEAN, FailAttempt(j, n, retryable)
       PROVE  ErasedIsDeleted' /\ Withdrawn'
    <2>1. \A r \in Runs : runState[r] = "deleted" => runState'[r] = "deleted"
        BY <1>10 DEF FailAttempt, ScheduleRetry, FailJob
    <2>2. QED
        BY <1>1, <1>10, <2>1 DEF FailAttempt
<1>11. ASSUME NEW j \in Jobs, NEW n \in AttemptNumbers, CompleteAttempt(j, n)
       PROVE  ErasedIsDeleted' /\ Withdrawn'
    <2>1. jobState[j] = "running"
        BY <1>11, AcceptedIsCurrent DEF CompleteAttempt
    <2>2. \A r \in jobRuns[j] : runState[r] # "deleted"
        BY <2>1 DEF InputsHold, InputsUsable, UsableState, Unfinished
    <2>3. ErasedIsDeleted'
        BY <1>0, <1>11, <2>2 DEF CompleteAttempt
    <2>4. jobRuns[j] \cap erased = {}
        BY <2>2
    <2>5. \A i \in Jobs : i # j => artifact'[i] = artifact[i]
        BY <1>0, <1>11 DEF CompleteAttempt
    <2>6. QED
        BY <1>11, <2>3, <2>4, <2>5 DEF CompleteAttempt
<1>12. CASE Reconcile
    <2>1. \A r \in Runs : runState[r] = "deleted" => runState'[r] = "deleted"
        BY <1>12 DEF Reconcile, ReconcileBatch
    <2>2. QED
        BY <1>1, <1>12, <2>1 DEF Reconcile, ReconcileBatch
<1>13. ASSUME NEW expired \in SUBSET Runs, NEW missed \in SUBSET Jobs, EnforceRetention(expired, missed) PROVE ErasedIsDeleted' /\ Withdrawn'
    <2>1. \A r \in Runs : runState[r] = "deleted" => runState'[r] = "deleted"
        BY <1>13 DEF EnforceRetention
    <2>2. QED
        BY <1>1, <1>13, <2>1 DEF EnforceRetention
<1>14. CASE \/ \E batch \in SUBSET outbox, committed \in BOOLEAN : PublishOutbox(batch, committed)
            \/ \E m \in outbox : NextNotification(m)
            \/ Tick \/ UNCHANGED vars
    BY <1>1, <1>14 DEF PublishOutbox, NextNotification, Tick
<1>15. QED
    BY <1>3, <1>4, <1>5, <1>6, <1>7, <1>8, <1>9, <1>10, <1>11, <1>12, <1>13, <1>14 DEF Next

\* The deletion of a run withdraws whatever was or is being derived from it.
THEOREM Erasure == Spec => []ErasedLeavesNothing
<1>1. Init => ErasedIsDeleted /\ Withdrawn
    BY DEF Init, ErasedIsDeleted, Withdrawn
<1>2. ASSUME TypeOK, InputsHold, ErasedIsDeleted, Withdrawn PROVE ErasedLeavesNothing
    <2> SUFFICES ASSUME NEW j \in Jobs, jobRuns[j] \cap erased # {}
                 PROVE  /\ jobState[j] \in Terminal
                        /\ \A n \in AttemptNumbers : artifact[j][n] # "registered"
        BY DEF ErasedLeavesNothing
    <2>1. PICK r \in erased : r \in jobRuns[j] /\ runState[r] = "deleted"
        BY <1>2 DEF ErasedIsDeleted
    <2>2. jobState[j] \notin Unfinished
        BY <1>2, <2>1 DEF InputsHold, InputsUsable, UsableState
    <2>3. jobState[j] # "absent"
        BY <1>2 DEF InputsHold
    <2>4. jobState[j] \in Terminal
        BY <1>2, <2>2, <2>3 DEF TypeOK, JobStates
    <2>5. QED
        BY <1>2, <2>4 DEF Withdrawn
<1>3. QED
    BY <1>1, <1>2, ErasureStep, TypeCorrect, FencedInit, FencedStep, InputInit, InputStep, PTL DEF Spec

-----------------------------------------------------------------------------
(***************************************************************************)
(* Agreement of the tables.                                                *)
(***************************************************************************)

\* A run that a step makes ready or invalid is the input of a validation that
\* the step makes a success or a failure.
LEMMA DecisionStep ==
    ASSUME Fenced, InputsHold, [Next]_vars, NEW r \in Runs, runState'[r] # runState[r]
    PROVE  /\ runState'[r] = "ready" =>
                 \E j \in Jobs : jobOp[j] = "validate" /\ r \in jobRuns[j] /\ jobState[j] = "running" /\ jobState'[j] = "succeeded"
           /\ runState'[r] = "invalid" =>
                 \E j \in Jobs : jobOp[j] = "validate" /\ r \in jobRuns[j] /\ jobState[j] = "running" /\ jobState'[j] = "failed"
<1> DEFINE Goal == /\ runState'[r] = "ready" =>
                         \E j \in Jobs : jobOp[j] = "validate" /\ r \in jobRuns[j] /\ jobState[j] = "running" /\ jobState'[j] = "succeeded"
                   /\ runState'[r] = "invalid" =>
                         \E j \in Jobs : jobOp[j] = "validate" /\ r \in jobRuns[j] /\ jobState[j] = "running" /\ jobState'[j] = "failed"
<1>0. runState \in [Runs -> RunStates] /\ jobState \in [Jobs -> JobStates]
    BY DEF Fenced, TypeOK
<1>1. ASSUME NEW q \in Runs, CreateUpload(q) \/ (\E missed \in SUBSET Jobs : DeleteRun(q, missed)) \/ \E j \in Jobs : CompleteUpload(q, j) PROVE Goal
    BY <1>0, <1>1 DEF CreateUpload, DeleteRun, CompleteUpload
<1>2. ASSUME NEW expired \in SUBSET Runs, NEW missed \in SUBSET Jobs, EnforceRetention(expired, missed) PROVE Goal
    BY <1>2 DEF EnforceRetention
<1>3. ASSUME NEW j \in Jobs, NEW n \in AttemptNumbers, NEW retryable \in BOOLEAN, FailAttempt(j, n, retryable) PROVE Goal
    <2>1. jobState[j] = "running"
        BY <1>3, AcceptedIsCurrent DEF FailAttempt
    <2>2. FailJob(j, n, FinalCode(retryable))
        BY <1>3 DEF FailAttempt, ScheduleRetry
    <2>3. QED
        BY <1>0, <2>1, <2>2 DEF FailJob
<1>4. ASSUME NEW j \in Jobs, NEW n \in AttemptNumbers, CompleteAttempt(j, n) PROVE Goal
    <2>1. jobState[j] = "running"
        BY <1>4, AcceptedIsCurrent DEF CompleteAttempt
    <2>2. QED
        BY <1>0, <1>4, <2>1 DEF CompleteAttempt
<1>5. ASSUME NEW expired \in SUBSET ExpiredJobs, NEW due \in SUBSET DueJobs, NEW stranded \in SUBSET StrandedJobs,
             ReconcileBatch(expired, due, stranded) PROVE Goal
    <2> DEFINE exhausted == expired \ {j \in expired : currentAttempt[j] < MaxAttempts}
    <2>1. runState'[r] = "invalid" /\ \E j \in exhausted : jobOp[j] = "validate" /\ r \in jobRuns[j]
        BY <1>5 DEF ReconcileBatch
    <2>2. \A j \in exhausted : j \in Jobs /\ jobState[j] = "running" /\ jobState'[j] = "failed"
        BY <1>5 DEF ReconcileBatch, ExpiredJobs
    <2>3. QED
        BY <2>1, <2>2
<1>6. CASE UNCHANGED runState
    BY <1>6
<1>7. CASE \/ \E j \in Jobs : RequestCancellation(j)
           \/ \E j \in Jobs, op \in AnalysisOps, rs \in SUBSET Runs : CreateJob(j, op, rs)
           \/ \E j \in Jobs, n \in AttemptNumbers :
                 Heartbeat(j, n) \/ \E seq \in 1 .. MaxSequence : UpdateProgress(j, n, seq)
           \/ \E m \in queue : Claim(m) \/ Acknowledge(m) \/ LoseNotification(m)
           \/ \E batch \in SUBSET outbox, committed \in BOOLEAN : PublishOutbox(batch, committed)
           \/ \E m \in outbox : NextNotification(m)
           \/ Tick \/ UNCHANGED vars
    BY <1>6, <1>7 DEF RequestCancellation, CreateJob, Heartbeat, UpdateProgress, Claim, Acknowledge, LoseNotification,
                      PublishOutbox, NextNotification, Tick
<1>8. QED
    BY <1>1, <1>2, <1>3, <1>4, <1>5, <1>7 DEF Next, Reconcile

\* A decided run keeps the validation that decided it, because a finished job
\* keeps its state and its inputs.
LEMMA DecidedStays ==
    ASSUME Fenced, InputsHold, ValidationDecides, [Next]_vars
    PROVE  ValidationDecides'
<1> DEFINE By(r, end) == \E j \in Jobs : jobOp[j] = "validate" /\ jobRuns[j] = {r} /\ jobState[j] = end
<1>1. ASSUME NEW r \in Runs, NEW end \in {"succeeded", "failed"}, By(r, end) PROVE By(r, end)'
    <2>1. PICK j \in Jobs : jobOp[j] = "validate" /\ jobRuns[j] = {r} /\ jobState[j] = end
        BY <1>1
    <2>2. jobOp'[j] = jobOp[j] /\ jobRuns'[j] = jobRuns[j]
        BY <2>1, InputsStay DEF Fenced
    <2>3. Effect(j)
        BY StepEffect DEF Fenced
    <2>4. jobState'[j] = end
        BY <2>1, <2>3 DEF Effect, Kept, Created, Claimed, Cancelled, Swept, Released, Succeeded, Failed, Retried, Ended, Unfinished
    <2>5. QED
        BY <2>1, <2>2, <2>4
<1>2. ASSUME NEW r \in Runs, NEW end, NEW j \in Jobs,
             jobOp[j] = "validate", r \in jobRuns[j], jobState[j] = "running", jobState'[j] = end
      PROVE  By(r, end)'
    <2>1. jobRuns[j] = {r}
        BY <1>2 DEF InputsHold
    <2>2. jobOp'[j] = jobOp[j] /\ jobRuns'[j] = jobRuns[j]
        BY <1>2, InputsStay DEF Fenced
    <2>3. QED
        BY <1>2, <2>1, <2>2
<1>3. ASSUME NEW r \in Runs
      PROVE  (runState'[r] = "ready" => By(r, "succeeded")') /\ (runState'[r] = "invalid" => By(r, "failed")')
    <2>1. CASE runState'[r] = runState[r]
        BY <1>1, <2>1 DEF ValidationDecides
    <2>2. CASE runState'[r] # runState[r]
        BY <1>2, <2>2, DecisionStep
    <2>3. QED
        BY <2>1, <2>2
<1>4. QED
    BY <1>3 DEF ValidationDecides

\* A poller settles only rows whose claim was refused, and the row of a queued
\* job's version is not refused.
LEMMA PolledStep ==
    ASSUME Fenced, InputsHold, Versions, QueuedIsPolled, [Next]_vars
    PROVE  QueuedIsPolled'
<1> SUFFICES ASSUME ~UseQueue, NEW i \in Jobs, jobState'[i] = "queued"
             PROVE  [job |-> i, version |-> rowVersion'[i]] \in outbox'
    BY DEF QueuedIsPolled
<1> DEFINE Goal == [job |-> i, version |-> rowVersion'[i]] \in outbox'
<1>0. rowVersion \in [Jobs -> Nat] /\ jobState \in [Jobs -> JobStates] /\ QueuedIsClaimable
    BY DEF Fenced, TypeOK, AttemptRows, InputsHold, QueuedIsClaimable, Unfinished
<1>1. ASSUME jobState[i] = "queued", rowVersion'[i] = rowVersion[i], outbox \subseteq outbox' PROVE Goal
    BY <1>1 DEF QueuedIsPolled
<1>2. ASSUME NEW S \in SUBSET Jobs, NEW missed \in SUBSET Jobs, CancelWork(S, missed), UNCHANGED noticeVars PROVE Goal
    <2>1. jobState[i] = "queued" /\ rowVersion'[i] = rowVersion[i]
        BY <1>2 DEF CancelWork, Unfinished
    <2>2. QED
        BY <1>1, <1>2, <2>1
<1>3. ASSUME NEW j \in Jobs, NEW op, NEW rs, InsertJob(j, op, rs) PROVE Goal
    <2>1. CASE i = j
        BY <1>0, <1>3, <2>1 DEF InsertJob
    <2>2. CASE i # j
        BY <1>0, <1>1, <1>3, <2>2 DEF InsertJob
    <2>3. QED
        BY <2>1, <2>2
<1>4. ASSUME NEW r \in Runs, CreateUpload(r) PROVE Goal
    BY <1>1, <1>4 DEF CreateUpload
<1>5. ASSUME NEW r \in Runs, NEW missed \in SUBSET Jobs, DeleteRun(r, missed) PROVE Goal
    <2> DEFINE derived == {j \in Jobs : jobState[j] # "absent" /\ r \in jobRuns[j]}
    <2>1. CancelWork(derived, missed) /\ UNCHANGED noticeVars
        BY <1>5 DEF DeleteRun
    <2>2. QED
        BY <1>2, <2>1
<1>6. ASSUME NEW r \in Runs, NEW j \in Jobs, CompleteUpload(r, j) PROVE Goal
    BY <1>3, <1>6 DEF CompleteUpload
<1>7. ASSUME NEW j \in Jobs, NEW op \in AnalysisOps, NEW rs \in SUBSET Runs, CreateJob(j, op, rs) PROVE Goal
    BY <1>3, <1>7 DEF CreateJob
<1>8. ASSUME NEW j \in Jobs, NEW t \in {"cancelled", "running", "retry_wait", "failed", "succeeded"}, NEW v,
             jobState' = [jobState EXCEPT ![j] = t], rowVersion' = [rowVersion EXCEPT ![j] = v], UNCHANGED noticeVars
      PROVE  Goal
    BY <1>0, <1>1, <1>8
<1>9. ASSUME NEW j \in Jobs, RequestCancellation(j) PROVE Goal
    BY <1>8, <1>9 DEF RequestCancellation
<1>10. ASSUME NEW m \in queue, Claim(m) PROVE Goal
    <2>1. m.job \in Jobs
        BY DEF Fenced, TypeOK, Notices
    <2>2. QED
        BY <1>8, <1>10, <2>1 DEF Claim
<1>11. ASSUME NEW m \in queue, Acknowledge(m) PROVE Goal
    <2>1. jobState[i] = "queued" /\ rowVersion'[i] = rowVersion[i] /\ outbox' = outbox \ {m}
        BY <1>11 DEF Acknowledge
    <2>2. m # [job |-> i, version |-> rowVersion[i]]
        <3> SUFFICES ASSUME m = [job |-> i, version |-> rowVersion[i]] PROVE Claimable(m)
            BY <1>11 DEF Acknowledge
        <3>1. m.job = i /\ m.version = rowVersion[i]
            OBVIOUS
        <3>2. attempts[i] \in Nat /\ attempts[i] < MaxAttempts /\ InputsUsable(i)
            BY <1>0, <2>1, ConstantsAssumption DEF QueuedIsClaimable, Fenced, TypeOK
        <3>3. QED
            BY <2>1, <3>1, <3>2, ConstantsAssumption DEF Claimable
    <2>3. QED
        BY <2>1, <2>2 DEF QueuedIsPolled
<1>12. ASSUME NEW m \in queue, LoseNotification(m) PROVE Goal
    BY <1>1, <1>12 DEF LoseNotification
<1>13. ASSUME NEW j \in Jobs, NEW n \in AttemptNumbers,
              Heartbeat(j, n) \/ \E seq \in 1 .. MaxSequence : UpdateProgress(j, n, seq) PROVE Goal
    BY <1>1, <1>13 DEF Heartbeat, UpdateProgress
<1>14. ASSUME NEW j \in Jobs, NEW n \in AttemptNumbers, NEW retryable \in BOOLEAN, FailAttempt(j, n, retryable) PROVE Goal
    <2>1. \/ jobState' = [jobState EXCEPT ![j] = "retry_wait"]
          \/ jobState' = [jobState EXCEPT ![j] = "failed"]
        BY <1>14 DEF FailAttempt, ScheduleRetry, FailJob
    <2>2. rowVersion' = [rowVersion EXCEPT ![j] = @ + 1] /\ UNCHANGED noticeVars
        BY <1>14 DEF FailAttempt
    <2>3. QED
        BY <1>8, <2>1, <2>2
<1>15. ASSUME NEW j \in Jobs, NEW n \in AttemptNumbers, CompleteAttempt(j, n) PROVE Goal
    BY <1>8, <1>15 DEF CompleteAttempt
<1>16. ASSUME NEW expired \in SUBSET ExpiredJobs, NEW due \in SUBSET DueJobs, NEW stranded \in SUBSET StrandedJobs,
              ReconcileBatch(expired, due, stranded) PROVE Goal
    <2>1. CASE i \in due \cup stranded
        <3>1. i \notin expired
            BY <2>1 DEF DueJobs, StrandedJobs, ExpiredJobs
        <3>2. rowVersion'[i] = rowVersion[i] + 1 /\ NewNotice(i) \in outbox'
            BY <1>16, <2>1, <3>1 DEF ReconcileBatch
        <3>3. QED
            BY <3>2 DEF NewNotice
    <2>2. CASE i \notin due \cup stranded
        <3>1. i \notin expired /\ jobState[i] = "queued" /\ rowVersion'[i] = rowVersion[i] /\ outbox \subseteq outbox'
            BY <1>16, <2>2 DEF ReconcileBatch
        <3>2. QED
            BY <1>1, <3>1
    <2>3. QED
        BY <2>1, <2>2
<1>17. ASSUME NEW expired \in SUBSET Runs, NEW missed \in SUBSET Jobs, EnforceRetention(expired, missed) PROVE Goal
    <2> DEFINE gone == expired \cup {r \in Runs : runState[r] = "deleted"}
               derived == {j \in Jobs : jobState[j] # "absent" /\ jobRuns[j] \cap gone # {}}
    <2>1. CancelWork(derived, missed) /\ UNCHANGED noticeVars
        BY <1>17 DEF EnforceRetention
    <2>2. QED
        BY <1>2, <2>1
<1>18. ASSUME NEW m \in outbox, NextNotification(m) PROVE Goal
    BY <1>1, <1>18 DEF NextNotification
<1>19. CASE Tick \/ UNCHANGED vars
    BY <1>1, <1>19 DEF Tick
<1>20. QED
    BY <1>4, <1>5, <1>6, <1>7, <1>9, <1>10, <1>11, <1>12, <1>13, <1>14, <1>15, <1>16, <1>17, <1>18, <1>19
       DEF Next, Reconcile, PublishOutbox

\* Notifications never name a version their job has not reached, a queued job
\* keeps its row while workers poll, and every decided run has the validation
\* that decided it, through any deletion, retry, expiry and repair.
THEOREM TablesAgree == Spec => []RowsAgree
<1> DEFINE Inv == Fenced /\ InputsHold /\ Versions /\ QueuedIsPolled /\ ValidationDecides
<1>1. Init => Inv
    <2>1. Init => QueuedIsPolled /\ ValidationDecides
        BY DEF Init, QueuedIsPolled, ValidationDecides
    <2>2. QED
        BY <2>1, FencedInit, InputInit, VersionsInit
<1>2. Inv /\ [Next]_vars => Inv'
    BY FencedStep, InputStep, VersionsKept, PolledStep, DecidedStays
<1>3. Inv => RowsAgree
    BY DEF RowsAgree, Versions
<1>4. QED
    BY <1>1, <1>2, <1>3, PTL DEF Spec
=============================================================================
