----------------------- MODULE LifecycleTransactions ------------------------
(***************************************************************************)
(* The transactions that meet on one run, the job on it and the job's      *)
(* first attempt, statement by statement.  JobLifecycle takes each of them *)
(* as one step; here PostgreSQL interleaves their statements under READ    *)
(* COMMITTED, as the code opens every transaction with the pool's default. *)
(* Statements on other rows (audit, outbox, progress) are left out, and so *)
(* is what needs a second attempt: the release of a due retry, and a       *)
(* repeated claim.  A lease may lapse at any time.                         *)
(*                                                                         *)
(* A transaction is the sequence of its statements on the four rows.  An   *)
(* "update" picks the row when the committed version qualifies as the      *)
(* statement starts, waits for the row's lock, and then looks again at the *)
(* version it locked.  A "select" is SELECT ... FOR UPDATE or FOR SHARE,   *)
(* and the code checks what it returns; a "skip" is SELECT ... FOR UPDATE  *)
(* SKIP LOCKED, which does not wait.  A "read" takes no lock.  A           *)
(* transaction sees its own writes; the others see them when it commits.   *)
(* A cycle of waiting transactions is broken by aborting one of them.      *)
(***************************************************************************)
EXTENDS Naturals, Sequences, FiniteSets

CONSTANTS
    Txns,   \* bound: the transactions that may be requested
    Kind,   \* [Txns -> Kinds]: what each of them does
    Connections  \* connections of the pool: the transactions open at a time

Kinds == {"delete", "create", "claim", "beat", "complete", "fail", "retry", "cancel",
          "reconcile", "retain", "expire"}

ASSUME KindAssumption == Kind \in [Txns -> Kinds] /\ "free" \notin Txns

VARIABLES
    operation,  \* operation of the job, which never changes
    db,       \* committed rows
    writes,   \* [Txns -> rows written and not yet committed]
    lock,     \* [Rows -> transaction holding the row's lock, or "free"]
    pc,       \* [Txns -> index of the statement, 0 before it begins]
    waiting,  \* [Txns -> the statement picked its row and wants the lock]
    ended     \* the transactions that have ended

vars == <<operation, db, writes, lock, pc, waiting, ended>>

Rows == {"run", "job", "attempt", "artifact"}
Open == {"queued", "running", "retry_wait"}
Closed == {"succeeded", "failed", "cancelled"}
AnyAttempt == {"running", "succeeded", "failed", "cancelled", "fenced"}
\* A run in the state deleted: by its tenant, or because its retention passed.
Gone == {"deleted", "expired"}
Usable(op) == IF op = "validate" THEN "validating" ELSE "ready"

\* One statement: its kind, its row, the values that qualify, the value written,
\* whether the transaction is rolled back when nothing qualifies.
Statement(kind, row, in, to, must) ==
    [kind |-> kind, row |-> row, in |-> in, to |-> to, must |-> must]

\* Marks a lock or a read, which write nothing.
Same == "same"

\* Fault: the artifacts are expired before the jobs are cancelled.
DeleteRunTxArtifactsFirst == <<
    Statement("update", "run", {"validating", "ready", "invalid"}, "deleted", TRUE),
    Statement("update", "artifact", {"registered"}, "withdrawn", FALSE),
    Statement("update", "attempt", {"running"}, "cancelled", FALSE),
    Statement("update", "job", Open, "cancelled", FALSE) >>

\* A tenant's deletion: the run, the attempts, the jobs and the artifacts.
DeleteRunTx == <<
    Statement("update", "run", {"validating", "ready", "invalid"}, "deleted", TRUE),
    Statement("update", "attempt", {"running"}, "cancelled", FALSE),
    Statement("update", "job", Open, "cancelled", FALSE),
    Statement("update", "artifact", {"registered"}, "withdrawn", FALSE) >>

\* The runs are locked while their states are checked.
CreateJobTx == <<
    Statement("select", "run", {"ready"}, Same, TRUE),
    Statement("insert", "job", {"none"}, "queued", TRUE) >>

\* The claim locks the job, and reads the inputs after it wrote.
ClaimTx(op) == <<
    Statement("select", "job", {"queued"}, Same, TRUE),
    Statement("insert", "attempt", {"none"}, "running", TRUE),
    Statement("update", "job", {"queued"}, "running", FALSE),
    Statement("read", "run", {Usable(op)}, Same, TRUE) >>

\* Fault: the rows are read and not locked.
CheckAttemptTxUnlocked(op) == <<
    Statement("read", "run", {Usable(op)}, Same, TRUE),
    Statement("read", "job", {"running"}, Same, TRUE),
    Statement("read", "attempt", {"running"}, Same, TRUE) >>

\* checkAttempt: the inputs are read with the statement's snapshot and are not
\* locked; the job and the attempt are locked in that order.
CheckAttemptTx(op) == <<
    Statement("read", "run", {Usable(op)}, Same, TRUE),
    Statement("select", "job", {"running"}, Same, TRUE),
    Statement("select", "attempt", {"running"}, Same, TRUE) >>

\* The heartbeat writes the lease and an update the progress, which are no states.
HeartbeatTx(op) == CheckAttemptTx(op)

\* The one success: artifacts, run, attempt and job.
CompleteAttemptTx(op) ==
    LET check    == CheckAttemptTx(op)
        register == Statement("insert", "artifact", {"none"}, "registered", TRUE)
        validate == Statement("update", "run", {"validating"}, "ready", TRUE)
        succeed  == Statement("update", "attempt", AnyAttempt, "succeeded", FALSE)
        close    == Statement("update", "job", {"running"}, "succeeded", TRUE)
    IN IF op = "validate"
       THEN << check[1], check[2], check[3], register, validate, succeed, close >>
       ELSE << check[1], check[2], check[3], register, succeed, close >>

\* A permanent failure, which makes a validated run invalid.
FailAttemptTx(op) ==
    LET check  == CheckAttemptTx(op)
        fail   == Statement("update", "attempt", AnyAttempt, "failed", FALSE)
        close  == Statement("update", "job", Open \cup Closed, "failed", FALSE)
        reject == Statement("update", "run", {"validating"}, "invalid", FALSE)
    IN IF op = "validate"
       THEN << check[1], check[2], check[3], fail, close, reject >>
       ELSE << check[1], check[2], check[3], fail, close >>

\* A retryable failure of an attempt that is not the last.
RetryAttemptTx(op) ==
    LET check == CheckAttemptTx(op)
        fence == Statement("update", "attempt", AnyAttempt, "fenced", FALSE)
        wait  == Statement("update", "job", Open \cup Closed, "retry_wait", FALSE)
    IN << check[1], check[2], check[3], fence, wait >>

\* A reconciliation fences an attempt whose lease lapsed, unless somebody is at it.
ReconcileTx == <<
    Statement("skip", "job", {"running"}, Same, TRUE),
    Statement("skip", "attempt", {"running"}, Same, TRUE),
    Statement("update", "attempt", {"running"}, "fenced", FALSE),
    Statement("update", "job", {"running"}, "retry_wait", FALSE) >>

\* A cancellation locks the job with its first statement.
RequestCancellationTx == <<
    Statement("update", "job", Open, Same, TRUE),
    Statement("update", "attempt", {"running"}, "cancelled", FALSE),
    Statement("update", "job", Open, "cancelled", FALSE) >>

\* Fault: only jobs are swept.
EnforceRetentionTxJobsOnly == <<
    Statement("read", "run", Gone, Same, TRUE),
    Statement("update", "job", Open, "cancelled", FALSE) >>

\* A retention pass over a run that is deleted: the statements on expired rows
\* touch nothing here, the two on derived work need the run deleted.
EnforceRetentionTx == <<
    Statement("read", "run", Gone, Same, TRUE),
    Statement("update", "attempt", {"running"}, "cancelled", FALSE),
    Statement("update", "job", Open, "cancelled", FALSE) >>

\* The pass that finds the run's own retention passed: the artifacts of the run
\* keep theirs.
ExpireRunTx == <<
    Statement("update", "run", {"validating", "ready", "invalid"}, "expired", FALSE),
    Statement("read", "run", Gone, Same, TRUE),
    Statement("update", "attempt", {"running"}, "cancelled", FALSE),
    Statement("update", "job", Open, "cancelled", FALSE) >>

\* The statements of each transaction, for each kind of job.
Programs == [op \in {"validate", "analysis"} |-> [
    delete    |-> DeleteRunTx,
    create    |-> CreateJobTx,
    claim     |-> ClaimTx(op),
    beat      |-> HeartbeatTx(op),
    complete  |-> CompleteAttemptTx(op),
    fail      |-> FailAttemptTx(op),
    retry     |-> RetryAttemptTx(op),
    cancel    |-> RequestCancellationTx,
    reconcile |-> ReconcileTx,
    retain    |-> EnforceRetentionTx,
    expire    |-> ExpireRunTx]]

Program(t) == Programs[operation][Kind[t]]

Current(t) == Program(t)[pc[t]]

\* What t sees of a row: its own write, else what is committed.
Sees(t, row) == IF row \in DOMAIN writes[t] THEN writes[t][row] ELSE db[row]

NoWrites == [row \in {} |-> Same]

-----------------------------------------------------------------------------
\* The validation's run is being validated and its job is queued; an analysis
\* finds its run ready and its job not yet created.
Init ==
    /\ operation \in DOMAIN Programs
    /\ db = [run |-> Usable(operation), attempt |-> "none", artifact |-> "none",
             job |-> IF operation = "validate" THEN "queued" ELSE "none"]
    /\ writes = [t \in Txns |-> NoWrites]
    /\ lock = [row \in Rows |-> "free"]
    /\ pc = [t \in Txns |-> 0]
    /\ waiting = [t \in Txns |-> FALSE]
    /\ ended = {}

\* A request arrives and has a connection.  A validation is created with its
\* upload, only a worker that won the claim has an attempt token, a job is claimed
\* or cancelled once its identity is published, and only reconciliation and
\* retention repeat.
Begin(t) ==
    /\ pc[t] = 0 /\ Cardinality({u \in Txns : pc[u] # 0}) < Connections
    /\ t \notin ended \/ Kind[t] \in {"reconcile", "retain"}
    /\ Kind[t] = "create" => operation = "analysis"
    /\ Kind[t] \in {"claim", "cancel"} => db.job # "none"
    /\ Kind[t] \in {"beat", "complete", "fail", "retry"} => db.attempt # "none"
    /\ pc' = [pc EXCEPT ![t] = 1]
    /\ UNCHANGED <<db, writes, lock, waiting, ended>>

\* The transaction is over, its locks are released.
Finish(t) ==
    /\ lock' = [row \in Rows |-> IF lock[row] = t THEN "free" ELSE lock[row]]
    /\ writes' = [writes EXCEPT ![t] = NoWrites]
    /\ pc' = [pc EXCEPT ![t] = 0]
    /\ waiting' = [waiting EXCEPT ![t] = FALSE]
    /\ ended' = ended \cup {t}

Rollback(t) == Finish(t) /\ UNCHANGED db

\* Nothing qualified: the next statement, or a rollback when the code insists.
Skip(t) ==
    IF Current(t).must THEN Rollback(t)
    ELSE /\ pc' = [pc EXCEPT ![t] = @ + 1]
         /\ waiting' = [waiting EXCEPT ![t] = FALSE]
         /\ UNCHANGED <<db, writes, lock, ended>>

\* The statement has its row: it is locked, and written if the statement writes.
Take(t) ==
    LET s == Current(t) IN
    /\ lock' = [lock EXCEPT ![s.row] = t]
    /\ writes' = [writes EXCEPT ![t] =
          IF s.to = Same THEN @
          ELSE [row \in DOMAIN @ \cup {s.row} |-> IF row = s.row THEN s.to ELSE @[row]]]
    /\ pc' = [pc EXCEPT ![t] = @ + 1]
    /\ waiting' = [waiting EXCEPT ![t] = FALSE]
    /\ UNCHANGED <<db, ended>>

\* The statement starts: it picks its row, passes over it, or does not wait.
StartStatement(t) ==
    /\ pc[t] \in 1 .. Len(Program(t))
    /\ ~waiting[t]
    /\ LET s == Current(t)
           qualifies == Sees(t, s.row) \in s.in
           free == lock[s.row] \in {"free", t} IN
       \/ /\ s.kind = "select" \/ (s.kind \in {"update", "insert"} /\ qualifies)
          /\ waiting' = [waiting EXCEPT ![t] = TRUE]
          /\ UNCHANGED <<db, writes, lock, pc, ended>>
       \/ /\ s.kind = "read" /\ qualifies
          /\ pc' = [pc EXCEPT ![t] = @ + 1]
          /\ UNCHANGED <<db, writes, lock, waiting, ended>>
       \/ /\ s.kind = "skip" /\ qualifies /\ free
          /\ Take(t)
       \/ /\ s.kind # "select" /\ (~qualifies \/ (s.kind = "skip" /\ ~free))
          /\ Skip(t)

\* The lock is granted and the row is looked at again.
LockRow(t) ==
    /\ waiting[t]
    /\ LET s == Current(t) IN
       /\ lock[s.row] \in {"free", t}
       /\ IF Sees(t, s.row) \in s.in THEN Take(t) ELSE Skip(t)

Commit(t) ==
    /\ pc[t] = Len(Program(t)) + 1
    /\ db' = [row \in Rows |-> Sees(t, row)]
    /\ Finish(t)

\* The transaction t waits for, t itself when it waits for nobody.
Blocker(t) == IF waiting[t] /\ lock[Current(t).row] \notin {"free", t}
              THEN lock[Current(t).row] ELSE t

\* PostgreSQL aborts one transaction of a cycle of waits.
BreakDeadlock(t) ==
    /\ Blocker(t) # t
    /\ Blocker(Blocker(t)) = t \/ Blocker(Blocker(Blocker(t))) = t
    /\ Rollback(t)

Next ==
    /\ \E t \in Txns :
          Begin(t) \/ StartStatement(t) \/ LockRow(t) \/ Commit(t) \/ BreakDeadlock(t)
    /\ UNCHANGED operation

Spec == Init /\ [][Next]_vars

-----------------------------------------------------------------------------
\* A transaction moves on.
Proceed(t) ==
    /\ StartStatement(t) \/ LockRow(t) \/ Commit(t) \/ BreakDeadlock(t)
    /\ UNCHANGED operation

\* PostgreSQL executes statements, grants each lock in the order it was asked
\* for, commits and finds deadlocks, so no transaction waits for ever; the
\* control plane's loop starts a retention pass every ten minutes.
Fairness ==
    /\ \A t \in Txns : SF_vars(Proceed(t))
    /\ \A t \in Txns : Kind[t] = "retain" => WF_vars(Begin(t) /\ UNCHANGED operation)

FairSpec == Spec /\ Fairness

-----------------------------------------------------------------------------
\* Rows, writes, locks and positions stay within their types.
TypeOK ==
    /\ db \in [run : {"validating", "ready", "invalid"} \cup Gone,
               job : {"none"} \cup Open \cup Closed,
               attempt : {"none"} \cup AnyAttempt,
               artifact : {"none", "registered", "withdrawn"}]
    /\ \A t \in Txns : DOMAIN writes[t] \subseteq Rows /\ pc[t] \in 0 .. Len(Program(t)) + 1
    /\ lock \in [Rows -> Txns \cup {"free"}]
    /\ waiting \in [Txns -> BOOLEAN]
    /\ ended \subseteq Txns

\* Once a deletion has committed, the tenant's or retention's, the job on the run
\* is closed, and after the tenant's it offers no artifact, whatever transactions
\* were in flight then or begin later.
DeletionIsComplete ==
    /\ db.run \in Gone => db.job \notin Open
    /\ db.run = "deleted" => db.artifact # "registered"

\* A success commits whole: job, attempt and artifact agree although a deletion
\* or a cancellation ran between the completion's statements.
SuccessIsWhole ==
    /\ db.job = "succeeded" <=> db.attempt = "succeeded"
    /\ db.job = "succeeded" <=> db.artifact # "none"

\* Only a deletion can close a job and leave its attempt running: whoever else
\* closes the job locks it before it looks for attempts.
OnlyDeletionLeavesAttempts ==
    db.job \in Closed /\ db.attempt = "running" => db.run \in Gone

\* A retry waits for a fenced attempt, and an attempt that a failure or a lapsed
\* lease fenced is never the one a job succeeds or fails with.
RetriesAreFenced ==
    /\ db.job = "retry_wait" => db.attempt = "fenced"
    /\ db.attempt = "fenced" => db.job \in {"retry_wait", "cancelled"}

\* What is committed is what the transactions would leave if they ran one after
\* the other, as JobLifecycle runs them, up to an attempt that a deletion misses.
CommittedIsSerial ==
    /\ TypeOK /\ DeletionIsComplete /\ SuccessIsWhole /\ OnlyDeletionLeavesAttempts
    /\ RetriesAreFenced

\* A closed job stays as it is, whatever commits after it.
ClosedIsFinal ==
    [][db.job \in Closed => db'.job = db.job]_vars

\* Every transaction that begins ends: waits are granted or broken.
TransactionsEnd == \A t \in Txns : pc[t] # 0 ~> pc[t] = 0

\* Transactions that meet come to an end that stays: every wait ends, and a closed
\* job is neither opened nor closed again.
TransactionsSettle == TransactionsEnd /\ ClosedIsFinal

\* An attempt that a deletion missed is cancelled by a later retention pass.
DeletionFencesEventually ==
    db.run \in Gone /\ db.attempt = "running" ~> db.attempt # "running"

\* A deletion fences the work it cancels: the transition table says of a
\* resolved cancellation that the current attempt is fenced.
DeletionFencesAttempts ==
    db.run = "deleted" => db.attempt # "running"
=============================================================================
