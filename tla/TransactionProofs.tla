------------------------ MODULE TransactionProofs ------------------------
(***************************************************************************)
(* Proofs about LifecycleTransactions for any number of transactions of    *)
(* every kind: what is committed is what some serial order would leave,    *)
(* and a closed job stays closed.                                          *)
(***************************************************************************)
EXTENDS LifecycleTransactions, TLAPS

-----------------------------------------------------------------------------
(***************************************************************************)
(* The inductive invariant.                                                *)
(***************************************************************************)

\* Every variable is a function of the transactions.
Typed ==
    /\ operation \in {"validate", "analysis"}
    /\ writes = [t \in Txns |-> writes[t]]
    /\ pc \in [Txns -> Nat]
    /\ TypeOK

\* What a transaction of kind k may write over a committed value.
Legal(k, row, from, to) ==
    CASE row = "run" ->
            \/ k = "delete" /\ from \notin Gone /\ to = "deleted"
            \/ k = "expire" /\ from \notin Gone /\ to = "expired"
            \/ k = "complete" /\ from = "validating" /\ to = "ready"
            \/ k = "fail" /\ from = "validating" /\ to = "invalid"
      [] row = "job" ->
            \/ k = "create" /\ from = "none" /\ to = "queued"
            \/ k = "claim" /\ from = "queued" /\ to = "running"
            \/ k = "complete" /\ from = "running" /\ to = "succeeded"
            \/ k = "fail" /\ from = "running" /\ to = "failed"
            \/ k \in {"retry", "reconcile"} /\ from = "running" /\ to = "retry_wait"
            \/ k \in {"delete", "cancel", "retain", "expire"} /\ from \in Open /\ to = "cancelled"
      [] row = "attempt" ->
            \/ k = "claim" /\ from = "none" /\ to = "running"
            \/ k = "complete" /\ from = "running" /\ to = "succeeded"
            \/ k = "fail" /\ from = "running" /\ to = "failed"
            \/ k \in {"retry", "reconcile"} /\ from = "running" /\ to = "fenced"
            \/ k \in {"delete", "cancel", "retain", "expire"} /\ from = "running" /\ to = "cancelled"
      [] row = "artifact" ->
            \/ k = "complete" /\ from = "none" /\ to = "registered"
            \/ k = "delete" /\ from = "registered" /\ to = "withdrawn"

\* A row that is written and not committed is locked by its writer, so the
\* committed value under it is the one the writer found.
WritesLegally(t) ==
    \A row \in DOMAIN writes[t] : lock[row] = t /\ Legal(Kind[t], row, db[row], writes[t][row])

Wrote(t, row) == row \in DOMAIN writes[t]

\* What a transaction may rely on at each of its statements.
DeleteKnows(t) ==
    /\ pc[t] >= 2 => lock["run"] = t /\ Wrote(t, "run")
    /\ pc[t] >= 4 => Sees(t, "job") \notin Open
    /\ pc[t] >= 5 => Sees(t, "artifact") # "registered"
CreateKnows(t) == pc[t] >= 2 => lock["run"] = t /\ db["run"] = "ready"
ClaimKnows(t) == pc[t] >= 2 => lock["job"] = t /\ db["job"] = "queued"
CheckKnows(t) ==
    /\ pc[t] >= 3 => lock["job"] = t /\ db["job"] = "running"
    /\ pc[t] >= 4 => lock["attempt"] = t /\ db["attempt"] = "running"
CompleteKnows(t) ==
    LET run == IF operation = "validate" THEN 1 ELSE 0
    IN /\ pc[t] >= 5 => Wrote(t, "artifact")
       /\ pc[t] >= 6 + run => Wrote(t, "attempt")
       /\ pc[t] >= 7 + run => Wrote(t, "job")
FailKnows(t) ==
    /\ pc[t] >= 5 => Wrote(t, "attempt")
    /\ pc[t] >= 6 => Wrote(t, "job")
ReconcileKnows(t) ==
    /\ pc[t] >= 2 => lock["job"] = t /\ db["job"] = "running"
    /\ pc[t] >= 3 => lock["attempt"] = t /\ db["attempt"] = "running"
    /\ pc[t] = 3 => Sees(t, "attempt") = "running"
    /\ pc[t] >= 4 => Wrote(t, "attempt")
    /\ pc[t] \in {2, 3, 4} => Sees(t, "job") = "running"
    /\ pc[t] >= 5 => Wrote(t, "job")
CancelKnows(t) ==
    /\ pc[t] >= 2 => lock["job"] = t /\ db["job"] \in Open
    /\ pc[t] >= 3 => Sees(t, "attempt") # "running"
RetainKnows(t) == pc[t] >= 2 => db["run"] \in Gone
ExpireKnows(t) ==
    /\ pc[t] >= 3 => Wrote(t, "run") \/ db["run"] \in Gone
    /\ pc[t] >= 5 => Sees(t, "job") \notin Open
Knows(t) ==
    /\ Kind[t] = "delete" => DeleteKnows(t)
    /\ Kind[t] = "create" => CreateKnows(t)
    /\ Kind[t] = "claim" => ClaimKnows(t)
    /\ Kind[t] \in {"beat", "complete", "fail", "retry"} => CheckKnows(t)
    /\ Kind[t] = "complete" => CompleteKnows(t)
    /\ Kind[t] \in {"fail", "retry"} => FailKnows(t)
    /\ Kind[t] = "reconcile" => ReconcileKnows(t)
    /\ Kind[t] = "cancel" => CancelKnows(t)
    /\ Kind[t] = "retain" => RetainKnows(t)
    /\ Kind[t] = "expire" => ExpireKnows(t)

\* A statement that waits is a statement, and takes a lock.
WaitsForRow(t) == waiting[t] => pc[t] \in 1 .. Len(Program(t)) /\ Current(t).kind # "read"

TransactionHolds(t) == WritesLegally(t) /\ Knows(t) /\ WaitsForRow(t)

\* The inductive invariant.
Serial == Typed /\ CommittedIsSerial /\ \A t \in Txns : TransactionHolds(t)

-----------------------------------------------------------------------------
(***************************************************************************)
(* What one statement does.                                                *)
(***************************************************************************)

\* The statement has picked its row and now waits for the lock.
Waits(t) ==
    /\ Current(t).kind # "read"
    /\ waiting' = [waiting EXCEPT ![t] = TRUE]
    /\ UNCHANGED <<db, writes, lock, pc, ended>>

\* The statement read its row, or passed over it because nothing qualified.
Passes(t) ==
    /\ Current(t).kind = "read" \/ ~ Current(t).must
    /\ Current(t).kind # "read" => Sees(t, Current(t).row) \notin Current(t).in
    /\ Current(t).kind = "read" => Sees(t, Current(t).row) \in Current(t).in
    /\ pc' = [pc EXCEPT ![t] = @ + 1]
    /\ waiting' = [waiting EXCEPT ![t] = FALSE]
    /\ UNCHANGED <<db, writes, lock, ended>>

\* The statement locked its row and wrote it, if it writes.
Takes(t) ==
    LET s == Current(t) IN
    /\ s.kind # "read" /\ Sees(t, s.row) \in s.in /\ lock[s.row] \in {"free", t}
    /\ lock' = [lock EXCEPT ![s.row] = t]
    /\ writes' = [writes EXCEPT ![t] =
           IF s.to = Same THEN @
           ELSE [row \in DOMAIN @ \cup {s.row} |-> IF row = s.row THEN s.to ELSE @[row]]]
    /\ pc' = [pc EXCEPT ![t] = @ + 1]
    /\ waiting' = [waiting EXCEPT ![t] = FALSE]
    /\ UNCHANGED <<db, ended>>

\* The statement that t is at.
At(t, kind, row, in, to, must) ==
    LET s == Current(t)
    IN s.kind = kind /\ s.row = row /\ s.in = in /\ s.to = to /\ s.must = must

\* The statements of a deletion.
LEMMA DeleteStatements ==
    ASSUME NEW t \in Txns, Typed, Kind[t] = "delete"
    PROVE  /\ Len(Program(t)) = 4
           /\ pc[t] \in 1 .. Len(Program(t)) =>
                  \/ pc[t] = 1 /\ At(t, "update", "run", {"validating", "ready", "invalid"}, "deleted", TRUE)
                  \/ pc[t] = 2 /\ At(t, "update", "attempt", {"running"}, "cancelled", FALSE)
                  \/ pc[t] = 3 /\ At(t, "update", "job", Open, "cancelled", FALSE)
                  \/ pc[t] = 4 /\ At(t, "update", "artifact", {"registered"}, "withdrawn", FALSE)
<1>1. Len(Program(t)) = 4
    BY DEF Typed, Program, Programs, DeleteRunTx
<1>2. pc[t] \in 1 .. Len(Program(t)) => pc[t] \in {1, 2, 3, 4}
    BY <1>1
<1>3. ASSUME pc[t] = 1 PROVE At(t, "update", "run", {"validating", "ready", "invalid"}, "deleted", TRUE)
    BY <1>3 DEF Typed, Program, Programs, Current, At, Statement, DeleteRunTx
<1>4. ASSUME pc[t] = 2 PROVE At(t, "update", "attempt", {"running"}, "cancelled", FALSE)
    BY <1>4 DEF Typed, Program, Programs, Current, At, Statement, DeleteRunTx
<1>5. ASSUME pc[t] = 3 PROVE At(t, "update", "job", Open, "cancelled", FALSE)
    BY <1>5 DEF Typed, Program, Programs, Current, At, Statement, DeleteRunTx
<1>6. ASSUME pc[t] = 4 PROVE At(t, "update", "artifact", {"registered"}, "withdrawn", FALSE)
    BY <1>6 DEF Typed, Program, Programs, Current, At, Statement, DeleteRunTx
<1> QED BY <1>1, <1>2, <1>3, <1>4, <1>5, <1>6

\* The statements of a creation.
LEMMA CreateStatements ==
    ASSUME NEW t \in Txns, Typed, Kind[t] = "create"
    PROVE  /\ Len(Program(t)) = 2
           /\ pc[t] \in 1 .. Len(Program(t)) =>
                  \/ pc[t] = 1 /\ At(t, "select", "run", {"ready"}, Same, TRUE)
                  \/ pc[t] = 2 /\ At(t, "insert", "job", {"none"}, "queued", TRUE)
<1>1. Len(Program(t)) = 2
    BY DEF Typed, Program, Programs, CreateJobTx
<1>2. pc[t] \in 1 .. Len(Program(t)) => pc[t] \in {1, 2}
    BY <1>1
<1>3. ASSUME pc[t] = 1 PROVE At(t, "select", "run", {"ready"}, Same, TRUE)
    BY <1>3 DEF Typed, Program, Programs, Current, At, Statement, CreateJobTx
<1>4. ASSUME pc[t] = 2 PROVE At(t, "insert", "job", {"none"}, "queued", TRUE)
    BY <1>4 DEF Typed, Program, Programs, Current, At, Statement, CreateJobTx
<1> QED BY <1>1, <1>2, <1>3, <1>4

\* The statements of a claim.
LEMMA ClaimStatements ==
    ASSUME NEW t \in Txns, Typed, Kind[t] = "claim"
    PROVE  /\ Len(Program(t)) = 4
           /\ pc[t] \in 1 .. Len(Program(t)) =>
                  \/ pc[t] = 1 /\ At(t, "select", "job", {"queued"}, Same, TRUE)
                  \/ pc[t] = 2 /\ At(t, "insert", "attempt", {"none"}, "running", TRUE)
                  \/ pc[t] = 3 /\ At(t, "update", "job", {"queued"}, "running", FALSE)
                  \/ pc[t] = 4 /\ At(t, "read", "run", {Usable(operation)}, Same, TRUE)
<1>1. Len(Program(t)) = 4
    BY DEF Typed, Program, Programs, ClaimTx
<1>2. pc[t] \in 1 .. Len(Program(t)) => pc[t] \in {1, 2, 3, 4}
    BY <1>1
<1>3. ASSUME pc[t] = 1 PROVE At(t, "select", "job", {"queued"}, Same, TRUE)
    BY <1>3 DEF Typed, Program, Programs, Current, At, Statement, ClaimTx
<1>4. ASSUME pc[t] = 2 PROVE At(t, "insert", "attempt", {"none"}, "running", TRUE)
    BY <1>4 DEF Typed, Program, Programs, Current, At, Statement, ClaimTx
<1>5. ASSUME pc[t] = 3 PROVE At(t, "update", "job", {"queued"}, "running", FALSE)
    BY <1>5 DEF Typed, Program, Programs, Current, At, Statement, ClaimTx
<1>6. ASSUME pc[t] = 4 PROVE At(t, "read", "run", {Usable(operation)}, Same, TRUE)
    BY <1>6 DEF Typed, Program, Programs, Current, At, Statement, ClaimTx
<1> QED BY <1>1, <1>2, <1>3, <1>4, <1>5, <1>6

\* The statements of checkAttempt.
LEMMA CheckStatements ==
    ASSUME NEW t \in Txns, Typed, Kind[t] \in {"beat", "complete", "fail", "retry"}
    PROVE  /\ Kind[t] = "beat" => Len(Program(t)) = 3
           /\ pc[t] \in 1 .. 3 =>
                  \/ pc[t] = 1 /\ At(t, "read", "run", {Usable(operation)}, Same, TRUE)
                  \/ pc[t] = 2 /\ At(t, "select", "job", {"running"}, Same, TRUE)
                  \/ pc[t] = 3 /\ At(t, "select", "attempt", {"running"}, Same, TRUE)
<1> DEFINE c == CheckAttemptTx(operation)
<1>1. Kind[t] = "beat" => Len(Program(t)) = 3
    BY DEF Typed, Program, Programs, HeartbeatTx, CheckAttemptTx
<1>2. Program(t)[1] = c[1] /\ Program(t)[2] = c[2] /\ Program(t)[3] = c[3]
    <2>1. CASE Kind[t] = "beat"
        BY <2>1 DEF Typed, Program, Programs, HeartbeatTx
    <2>2. CASE Kind[t] = "complete" /\ operation = "validate"
        BY <2>2 DEF Program, Programs, CompleteAttemptTx
    <2>3. CASE Kind[t] = "complete" /\ operation = "analysis"
        BY <2>3 DEF Program, Programs, CompleteAttemptTx
    <2>4. CASE Kind[t] = "fail" /\ operation = "validate"
        BY <2>4 DEF Program, Programs, FailAttemptTx
    <2>5. CASE Kind[t] = "fail" /\ operation = "analysis"
        BY <2>5 DEF Program, Programs, FailAttemptTx
    <2>6. CASE Kind[t] = "retry"
        BY <2>6 DEF Typed, Program, Programs, RetryAttemptTx
    <2> QED BY <2>1, <2>2, <2>3, <2>4, <2>5, <2>6 DEF Typed
<1>3. pc[t] \in 1 .. 3 => pc[t] \in {1, 2, 3}
    OBVIOUS
<1>4. ASSUME pc[t] = 1 PROVE At(t, "read", "run", {Usable(operation)}, Same, TRUE)
    BY <1>2, <1>4 DEF CheckAttemptTx, Current, Statement, At
<1>5. ASSUME pc[t] = 2 PROVE At(t, "select", "job", {"running"}, Same, TRUE)
    BY <1>2, <1>5 DEF CheckAttemptTx, Current, Statement, At
<1>6. ASSUME pc[t] = 3 PROVE At(t, "select", "attempt", {"running"}, Same, TRUE)
    BY <1>2, <1>6 DEF CheckAttemptTx, Current, Statement, At
<1> QED BY <1>1, <1>3, <1>4, <1>5, <1>6

\* The statements of the completion of a validation after its check.
LEMMA ValidationCompleteStatements ==
    ASSUME NEW t \in Txns, Typed, Kind[t] = "complete", operation = "validate"
    PROVE  /\ Len(Program(t)) = 7
           /\ pc[t] \in 4 .. Len(Program(t)) =>
                  \/ pc[t] = 4 /\ At(t, "insert", "artifact", {"none"}, "registered", TRUE)
                  \/ pc[t] = 5 /\ At(t, "update", "run", {"validating"}, "ready", TRUE)
                  \/ pc[t] = 6 /\ At(t, "update", "attempt", AnyAttempt, "succeeded", FALSE)
                  \/ pc[t] = 7 /\ At(t, "update", "job", {"running"}, "succeeded", TRUE)
<1>1. Len(Program(t)) = 7
    BY DEF Typed, Program, Programs, CompleteAttemptTx
<1>2. pc[t] \in 4 .. Len(Program(t)) => pc[t] \in {4, 5, 6, 7}
    BY <1>1
<1>3. ASSUME pc[t] = 4 PROVE At(t, "insert", "artifact", {"none"}, "registered", TRUE)
    BY <1>3 DEF Typed, Program, Programs, Current, At, Statement, CompleteAttemptTx
<1>4. ASSUME pc[t] = 5 PROVE At(t, "update", "run", {"validating"}, "ready", TRUE)
    BY <1>4 DEF Typed, Program, Programs, Current, At, Statement, CompleteAttemptTx
<1>5. ASSUME pc[t] = 6 PROVE At(t, "update", "attempt", AnyAttempt, "succeeded", FALSE)
    BY <1>5 DEF Typed, Program, Programs, Current, At, Statement, CompleteAttemptTx
<1>6. ASSUME pc[t] = 7 PROVE At(t, "update", "job", {"running"}, "succeeded", TRUE)
    BY <1>6 DEF Typed, Program, Programs, Current, At, Statement, CompleteAttemptTx
<1> QED BY <1>1, <1>2, <1>3, <1>4, <1>5, <1>6

\* The statements of the completion of an analysis after its check.
LEMMA AnalysisCompleteStatements ==
    ASSUME NEW t \in Txns, Typed, Kind[t] = "complete", operation = "analysis"
    PROVE  /\ Len(Program(t)) = 6
           /\ pc[t] \in 4 .. Len(Program(t)) =>
                  \/ pc[t] = 4 /\ At(t, "insert", "artifact", {"none"}, "registered", TRUE)
                  \/ pc[t] = 5 /\ At(t, "update", "attempt", AnyAttempt, "succeeded", FALSE)
                  \/ pc[t] = 6 /\ At(t, "update", "job", {"running"}, "succeeded", TRUE)
<1>1. Len(Program(t)) = 6
    BY DEF Typed, Program, Programs, CompleteAttemptTx
<1>2. pc[t] \in 4 .. Len(Program(t)) => pc[t] \in {4, 5, 6}
    BY <1>1
<1>3. ASSUME pc[t] = 4 PROVE At(t, "insert", "artifact", {"none"}, "registered", TRUE)
    BY <1>3 DEF Typed, Program, Programs, Current, At, Statement, CompleteAttemptTx
<1>4. ASSUME pc[t] = 5 PROVE At(t, "update", "attempt", AnyAttempt, "succeeded", FALSE)
    BY <1>4 DEF Typed, Program, Programs, Current, At, Statement, CompleteAttemptTx
<1>5. ASSUME pc[t] = 6 PROVE At(t, "update", "job", {"running"}, "succeeded", TRUE)
    BY <1>5 DEF Typed, Program, Programs, Current, At, Statement, CompleteAttemptTx
<1> QED BY <1>1, <1>2, <1>3, <1>4, <1>5

\* The statements of the failure of a validation after its check.
LEMMA ValidationFailStatements ==
    ASSUME NEW t \in Txns, Typed, Kind[t] = "fail", operation = "validate"
    PROVE  /\ Len(Program(t)) = 6
           /\ pc[t] \in 4 .. Len(Program(t)) =>
                  \/ pc[t] = 4 /\ At(t, "update", "attempt", AnyAttempt, "failed", FALSE)
                  \/ pc[t] = 5 /\ At(t, "update", "job", Open \cup Closed, "failed", FALSE)
                  \/ pc[t] = 6 /\ At(t, "update", "run", {"validating"}, "invalid", FALSE)
<1>1. Len(Program(t)) = 6
    BY DEF Typed, Program, Programs, FailAttemptTx
<1>2. pc[t] \in 4 .. Len(Program(t)) => pc[t] \in {4, 5, 6}
    BY <1>1
<1>3. ASSUME pc[t] = 4 PROVE At(t, "update", "attempt", AnyAttempt, "failed", FALSE)
    BY <1>3 DEF Typed, Program, Programs, Current, At, Statement, FailAttemptTx
<1>4. ASSUME pc[t] = 5 PROVE At(t, "update", "job", Open \cup Closed, "failed", FALSE)
    BY <1>4 DEF Typed, Program, Programs, Current, At, Statement, FailAttemptTx
<1>5. ASSUME pc[t] = 6 PROVE At(t, "update", "run", {"validating"}, "invalid", FALSE)
    BY <1>5 DEF Typed, Program, Programs, Current, At, Statement, FailAttemptTx
<1> QED BY <1>1, <1>2, <1>3, <1>4, <1>5

\* The statements of the failure of an analysis after its check.
LEMMA AnalysisFailStatements ==
    ASSUME NEW t \in Txns, Typed, Kind[t] = "fail", operation = "analysis"
    PROVE  /\ Len(Program(t)) = 5
           /\ pc[t] \in 4 .. Len(Program(t)) =>
                  \/ pc[t] = 4 /\ At(t, "update", "attempt", AnyAttempt, "failed", FALSE)
                  \/ pc[t] = 5 /\ At(t, "update", "job", Open \cup Closed, "failed", FALSE)
<1>1. Len(Program(t)) = 5
    BY DEF Typed, Program, Programs, FailAttemptTx
<1>2. pc[t] \in 4 .. Len(Program(t)) => pc[t] \in {4, 5}
    BY <1>1
<1>3. ASSUME pc[t] = 4 PROVE At(t, "update", "attempt", AnyAttempt, "failed", FALSE)
    BY <1>3 DEF Typed, Program, Programs, Current, At, Statement, FailAttemptTx
<1>4. ASSUME pc[t] = 5 PROVE At(t, "update", "job", Open \cup Closed, "failed", FALSE)
    BY <1>4 DEF Typed, Program, Programs, Current, At, Statement, FailAttemptTx
<1> QED BY <1>1, <1>2, <1>3, <1>4

\* The statements of a retryable failure after its check.
LEMMA RetryStatements ==
    ASSUME NEW t \in Txns, Typed, Kind[t] = "retry"
    PROVE  /\ Len(Program(t)) = 5
           /\ pc[t] \in 4 .. Len(Program(t)) =>
                  \/ pc[t] = 4 /\ At(t, "update", "attempt", AnyAttempt, "fenced", FALSE)
                  \/ pc[t] = 5 /\ At(t, "update", "job", Open \cup Closed, "retry_wait", FALSE)
<1>1. Len(Program(t)) = 5
    BY DEF Typed, Program, Programs, RetryAttemptTx
<1>2. pc[t] \in 4 .. Len(Program(t)) => pc[t] \in {4, 5}
    BY <1>1
<1>3. ASSUME pc[t] = 4 PROVE At(t, "update", "attempt", AnyAttempt, "fenced", FALSE)
    BY <1>3 DEF Typed, Program, Programs, Current, At, Statement, RetryAttemptTx
<1>4. ASSUME pc[t] = 5 PROVE At(t, "update", "job", Open \cup Closed, "retry_wait", FALSE)
    BY <1>4 DEF Typed, Program, Programs, Current, At, Statement, RetryAttemptTx
<1> QED BY <1>1, <1>2, <1>3, <1>4

\* The statements of a reconciliation.
LEMMA ReconcileStatements ==
    ASSUME NEW t \in Txns, Typed, Kind[t] = "reconcile"
    PROVE  /\ Len(Program(t)) = 4
           /\ pc[t] \in 1 .. Len(Program(t)) =>
                  \/ pc[t] = 1 /\ At(t, "skip", "job", {"running"}, Same, TRUE)
                  \/ pc[t] = 2 /\ At(t, "skip", "attempt", {"running"}, Same, TRUE)
                  \/ pc[t] = 3 /\ At(t, "update", "attempt", {"running"}, "fenced", FALSE)
                  \/ pc[t] = 4 /\ At(t, "update", "job", {"running"}, "retry_wait", FALSE)
<1>1. Len(Program(t)) = 4
    BY DEF Typed, Program, Programs, ReconcileTx
<1>2. pc[t] \in 1 .. Len(Program(t)) => pc[t] \in {1, 2, 3, 4}
    BY <1>1
<1>3. ASSUME pc[t] = 1 PROVE At(t, "skip", "job", {"running"}, Same, TRUE)
    BY <1>3 DEF Typed, Program, Programs, Current, At, Statement, ReconcileTx
<1>4. ASSUME pc[t] = 2 PROVE At(t, "skip", "attempt", {"running"}, Same, TRUE)
    BY <1>4 DEF Typed, Program, Programs, Current, At, Statement, ReconcileTx
<1>5. ASSUME pc[t] = 3 PROVE At(t, "update", "attempt", {"running"}, "fenced", FALSE)
    BY <1>5 DEF Typed, Program, Programs, Current, At, Statement, ReconcileTx
<1>6. ASSUME pc[t] = 4 PROVE At(t, "update", "job", {"running"}, "retry_wait", FALSE)
    BY <1>6 DEF Typed, Program, Programs, Current, At, Statement, ReconcileTx
<1> QED BY <1>1, <1>2, <1>3, <1>4, <1>5, <1>6

\* The statements of a cancellation.
LEMMA CancelStatements ==
    ASSUME NEW t \in Txns, Typed, Kind[t] = "cancel"
    PROVE  /\ Len(Program(t)) = 3
           /\ pc[t] \in 1 .. Len(Program(t)) =>
                  \/ pc[t] = 1 /\ At(t, "update", "job", Open, Same, TRUE)
                  \/ pc[t] = 2 /\ At(t, "update", "attempt", {"running"}, "cancelled", FALSE)
                  \/ pc[t] = 3 /\ At(t, "update", "job", Open, "cancelled", FALSE)
<1>1. Len(Program(t)) = 3
    BY DEF Typed, Program, Programs, RequestCancellationTx
<1>2. pc[t] \in 1 .. Len(Program(t)) => pc[t] \in {1, 2, 3}
    BY <1>1
<1>3. ASSUME pc[t] = 1 PROVE At(t, "update", "job", Open, Same, TRUE)
    BY <1>3 DEF Typed, Program, Programs, Current, At, Statement, RequestCancellationTx
<1>4. ASSUME pc[t] = 2 PROVE At(t, "update", "attempt", {"running"}, "cancelled", FALSE)
    BY <1>4 DEF Typed, Program, Programs, Current, At, Statement, RequestCancellationTx
<1>5. ASSUME pc[t] = 3 PROVE At(t, "update", "job", Open, "cancelled", FALSE)
    BY <1>5 DEF Typed, Program, Programs, Current, At, Statement, RequestCancellationTx
<1> QED BY <1>1, <1>2, <1>3, <1>4, <1>5

\* The statements of a retention pass.
LEMMA RetainStatements ==
    ASSUME NEW t \in Txns, Typed, Kind[t] = "retain"
    PROVE  /\ Len(Program(t)) = 3
           /\ pc[t] \in 1 .. Len(Program(t)) =>
                  \/ pc[t] = 1 /\ At(t, "read", "run", Gone, Same, TRUE)
                  \/ pc[t] = 2 /\ At(t, "update", "attempt", {"running"}, "cancelled", FALSE)
                  \/ pc[t] = 3 /\ At(t, "update", "job", Open, "cancelled", FALSE)
<1>1. Len(Program(t)) = 3
    BY DEF Typed, Program, Programs, EnforceRetentionTx
<1>2. pc[t] \in 1 .. Len(Program(t)) => pc[t] \in {1, 2, 3}
    BY <1>1
<1>3. ASSUME pc[t] = 1 PROVE At(t, "read", "run", Gone, Same, TRUE)
    BY <1>3 DEF Typed, Program, Programs, Current, At, Statement, EnforceRetentionTx
<1>4. ASSUME pc[t] = 2 PROVE At(t, "update", "attempt", {"running"}, "cancelled", FALSE)
    BY <1>4 DEF Typed, Program, Programs, Current, At, Statement, EnforceRetentionTx
<1>5. ASSUME pc[t] = 3 PROVE At(t, "update", "job", Open, "cancelled", FALSE)
    BY <1>5 DEF Typed, Program, Programs, Current, At, Statement, EnforceRetentionTx
<1> QED BY <1>1, <1>2, <1>3, <1>4, <1>5

\* The statements of a retention pass that expires the run.
LEMMA ExpireStatements ==
    ASSUME NEW t \in Txns, Typed, Kind[t] = "expire"
    PROVE  /\ Len(Program(t)) = 4
           /\ pc[t] \in 1 .. Len(Program(t)) =>
                  \/ pc[t] = 1 /\ At(t, "update", "run", {"validating", "ready", "invalid"}, "expired", FALSE)
                  \/ pc[t] = 2 /\ At(t, "read", "run", Gone, Same, TRUE)
                  \/ pc[t] = 3 /\ At(t, "update", "attempt", {"running"}, "cancelled", FALSE)
                  \/ pc[t] = 4 /\ At(t, "update", "job", Open, "cancelled", FALSE)
<1>1. Len(Program(t)) = 4
    BY DEF Typed, Program, Programs, ExpireRunTx
<1>2. pc[t] \in 1 .. Len(Program(t)) => pc[t] \in {1, 2, 3, 4}
    BY <1>1
<1>3. ASSUME pc[t] = 1 PROVE At(t, "update", "run", {"validating", "ready", "invalid"}, "expired", FALSE)
    BY <1>3 DEF Typed, Program, Programs, Current, At, Statement, ExpireRunTx
<1>4. ASSUME pc[t] = 2 PROVE At(t, "read", "run", Gone, Same, TRUE)
    BY <1>4 DEF Typed, Program, Programs, Current, At, Statement, ExpireRunTx
<1>5. ASSUME pc[t] = 3 PROVE At(t, "update", "attempt", {"running"}, "cancelled", FALSE)
    BY <1>5 DEF Typed, Program, Programs, Current, At, Statement, ExpireRunTx
<1>6. ASSUME pc[t] = 4 PROVE At(t, "update", "job", Open, "cancelled", FALSE)
    BY <1>6 DEF Typed, Program, Programs, Current, At, Statement, ExpireRunTx
<1> QED BY <1>1, <1>2, <1>3, <1>4, <1>5, <1>6

\* Every transaction has an end.
LEMMA ProgramsEnd ==
    ASSUME NEW t \in Txns, Typed
    PROVE  Len(Program(t)) \in Nat
<1>1. CASE Kind[t] = "delete"
    BY <1>1, DeleteStatements
<1>2. CASE Kind[t] = "create"
    BY <1>2, CreateStatements
<1>3. CASE Kind[t] = "claim"
    BY <1>3, ClaimStatements
<1>4. CASE Kind[t] = "beat"
    BY <1>4, CheckStatements
<1>5. CASE Kind[t] = "complete"
    BY <1>5, ValidationCompleteStatements, AnalysisCompleteStatements DEF Typed
<1>6. CASE Kind[t] = "fail"
    BY <1>6, ValidationFailStatements, AnalysisFailStatements DEF Typed
<1>7. CASE Kind[t] = "cancel"
    BY <1>7, CancelStatements
<1>8. CASE Kind[t] = "retain"
    BY <1>8, RetainStatements
<1>9. CASE Kind[t] = "retry"
    BY <1>9, RetryStatements
<1>10. CASE Kind[t] = "reconcile"
    BY <1>10, ReconcileStatements
<1>11. CASE Kind[t] = "expire"
    BY <1>11, ExpireStatements
<1> QED BY <1>1, <1>2, <1>3, <1>4, <1>5, <1>6, <1>7, <1>8, <1>9, <1>10, <1>11, KindAssumption DEF Kinds

\* A statement is about a row that is modelled, and one that does not wait insists on it.
LEMMA StatementsSound ==
    ASSUME NEW t \in Txns, Typed, pc[t] \in 1 .. Len(Program(t))
    PROVE  Current(t).row \in Rows /\ (Current(t).kind \in {"read", "skip"} => Current(t).must = TRUE)
<1> USE DEF At, Rows
<1>0. pc[t] \in 1 .. 3 \/ pc[t] \in 4 .. Len(Program(t))
    BY ProgramsEnd
<1>1. CASE Kind[t] = "delete"
    BY <1>1, DeleteStatements
<1>2. CASE Kind[t] = "create"
    BY <1>2, CreateStatements
<1>3. CASE Kind[t] = "claim"
    BY <1>3, ClaimStatements
<1>4. CASE Kind[t] = "beat"
    BY <1>4, CheckStatements
<1>5. CASE Kind[t] = "complete"
    BY <1>0, <1>5, CheckStatements, ValidationCompleteStatements, AnalysisCompleteStatements DEF Typed
<1>6. CASE Kind[t] = "fail"
    BY <1>0, <1>6, CheckStatements, ValidationFailStatements, AnalysisFailStatements DEF Typed
<1>7. CASE Kind[t] = "cancel"
    BY <1>7, CancelStatements
<1>8. CASE Kind[t] = "retain"
    BY <1>8, RetainStatements
<1>9. CASE Kind[t] = "retry"
    BY <1>0, <1>9, CheckStatements, RetryStatements
<1>10. CASE Kind[t] = "reconcile"
    BY <1>10, ReconcileStatements
<1>11. CASE Kind[t] = "expire"
    BY <1>11, ExpireStatements
<1> QED BY <1>1, <1>2, <1>3, <1>4, <1>5, <1>6, <1>7, <1>8, <1>9, <1>10, <1>11, KindAssumption DEF Kinds

\* A statement waits, passes or takes its row, or ends its transaction.
LEMMA StatementSteps ==
    ASSUME NEW t \in Txns, Serial, StartStatement(t) \/ LockRow(t)
    PROVE  /\ pc[t] \in 1 .. Len(Program(t))
           /\ Rollback(t) \/ Waits(t) \/ Passes(t) \/ Takes(t)
<1> USE DEF Serial, Typed, TypeOK
<1>1. CASE StartStatement(t)
    <2>1. pc[t] \in 1 .. Len(Program(t)) /\ ~ waiting[t]
        BY <1>1 DEF StartStatement
    <2>2. [waiting EXCEPT ![t] = FALSE] = waiting
        BY <2>1
    <2> QED BY <1>1, <2>1, <2>2, StatementsSound DEF StartStatement, Waits, Passes, Skip, Take, Takes
<1>2. CASE LockRow(t)
    <2>1. pc[t] \in 1 .. Len(Program(t)) /\ Current(t).kind # "read"
        BY <1>2 DEF LockRow, TransactionHolds, WaitsForRow
    <2> QED BY <1>2, <2>1 DEF LockRow, Take, Takes, Passes, Skip
<1> QED BY <1>1, <1>2

-----------------------------------------------------------------------------
(***************************************************************************)
(* What a statement leaves.                                                *)
(***************************************************************************)

\* After a statement that took its row.
LEMMA Taken ==
    ASSUME NEW t \in Txns, Serial, Takes(t), NEW row \in Rows, NEW to,
           Current(t).row = row, Current(t).to = to
    PROVE  /\ pc'[t] = pc[t] + 1 /\ db' = db
           /\ lock'[row] = t /\ \A r \in Rows \ {row} : lock'[r] = lock[r]
           /\ \A r \in Rows : Wrote(t, r)' <=> (Wrote(t, r) \/ (r = row /\ to # Same))
           /\ \A r \in Rows : Wrote(t, r)' =>
                  writes'[t][r] = IF r = row /\ to # Same THEN to ELSE writes[t][r]
           /\ \A r \in Rows : Sees(t, r)' = IF r = row /\ to # Same THEN to ELSE Sees(t, r)
<1>1. pc'[t] = pc[t] + 1 /\ db' = db
    BY DEF Takes, Serial, Typed
<1>2. lock'[row] = t /\ \A r \in Rows \ {row} : lock'[r] = lock[r]
    BY DEF Takes, Serial, Typed, TypeOK
<1>3. writes'[t] = IF to = Same THEN writes[t]
                   ELSE [r \in DOMAIN writes[t] \cup {row} |-> IF r = row THEN to ELSE writes[t][r]]
    BY DEF Takes, Serial, Typed
<1>4. \A r \in Rows : Wrote(t, r)' <=> (Wrote(t, r) \/ (r = row /\ to # Same))
    BY <1>3 DEF Wrote
<1>5. \A r \in Rows : Wrote(t, r)' =>
          writes'[t][r] = IF r = row /\ to # Same THEN to ELSE writes[t][r]
    BY <1>3 DEF Wrote
<1>6. \A r \in Rows : Sees(t, r)' = IF r = row /\ to # Same THEN to ELSE Sees(t, r)
    BY <1>1, <1>4, <1>5 DEF Wrote, Sees
<1> QED BY <1>1, <1>2, <1>4, <1>5, <1>6

\* After a statement that passed.
LEMMA Passed ==
    ASSUME NEW t \in Txns, Serial, Passes(t)
    PROVE  /\ pc'[t] = pc[t] + 1 /\ db' = db /\ lock' = lock /\ writes' = writes
           /\ \A r \in Rows : Wrote(t, r)' <=> Wrote(t, r)
           /\ \A r \in Rows : Sees(t, r)' = Sees(t, r)
BY DEF Passes, Serial, Typed, Wrote, Sees

\* A kind of transaction writes one value into a row.
LEMMA LegalValue ==
    ASSUME NEW k \in Kinds, NEW row \in Rows, NEW a, NEW b, NEW c, NEW d,
           Legal(k, row, a, b), Legal(k, row, c, d)
    PROVE  b = d
BY DEF Legal, Kinds, Rows

\* A write is legal if it is legal over the value the statement saw.
LEMMA LegalWrite ==
    ASSUME NEW t \in Txns, Serial, Takes(t), NEW row \in Rows, NEW to,
           Current(t).row = row, Current(t).to = to,
           to # Same => \/ Legal(Kind[t], row, db[row], to)
                        \/ Legal(Kind[t], row, Sees(t, row), to)
    PROVE  WritesLegally(t)'
<1>1. Kind[t] \in Kinds /\ DOMAIN writes[t] \subseteq Rows
    BY KindAssumption DEF Serial, Typed, TypeOK
<1>2. WritesLegally(t)
    BY DEF Serial, TransactionHolds
<1>3. to # Same => Legal(Kind[t], row, db[row], to)
    <2>1. CASE Wrote(t, row)
        <3>1. Legal(Kind[t], row, db[row], writes[t][row]) /\ Sees(t, row) = writes[t][row]
            BY <2>1, <1>2 DEF WritesLegally, Wrote, Sees
        <3> QED BY <3>1, <1>1, LegalValue
    <2>2. CASE ~ Wrote(t, row)
        BY <2>2 DEF Wrote, Sees
    <2> QED BY <2>1, <2>2
<1>4. DOMAIN writes'[t] \subseteq Rows
    BY <1>1 DEF Takes, Serial, Typed
<1>5. ASSUME NEW r \in Rows, Wrote(t, r)'
      PROVE  lock'[r] = t /\ Legal(Kind[t], r, db[r], writes'[t][r])
    <2>1. Wrote(t, r) \/ (r = row /\ to # Same)
        BY <1>5, Taken
    <2>2. CASE r = row /\ to # Same
        BY <2>2, <1>3, <1>5, Taken
    <2>3. CASE Wrote(t, r) /\ ~ (r = row /\ to # Same)
        <3>1. lock[r] = t /\ Legal(Kind[t], r, db[r], writes[t][r])
            BY <2>3, <1>2 DEF WritesLegally, Wrote
        <3>2. lock'[r] = t /\ writes'[t][r] = writes[t][r]
            BY <2>3, <3>1, <1>5, Taken
        <3> QED BY <3>1, <3>2
    <2> QED BY <2>1, <2>2, <2>3
<1> QED BY <1>4, <1>5, Taken DEF WritesLegally, Wrote

\* The current statement writes what its kind of transaction may write.
Writable(t) ==
    LET s == Current(t)
    IN /\ s.row \in Rows
       /\ s.to # Same => \/ Legal(Kind[t], s.row, db[s.row], s.to)
                         \/ Legal(Kind[t], s.row, Sees(t, s.row), s.to)

\* After a statement that passed or took its row.
LEMMA Advanced ==
    ASSUME NEW t \in Txns, Serial, Passes(t) \/ Takes(t), NEW row \in Rows, row = Current(t).row
    PROVE  /\ pc'[t] = pc[t] + 1 /\ db' = db
           /\ \A r \in Rows : lock[r] = t => lock'[r] = t
           /\ \A r \in Rows : Wrote(t, r) => Wrote(t, r)'
           /\ \A r \in Rows \ {row} : Sees(t, r)' = Sees(t, r)
           /\ Sees(t, row) \in Current(t).in \/ ~ Current(t).must
           /\ Current(t).kind # "read" /\ Sees(t, row) \in Current(t).in =>
                  lock'[row] = t /\ (Current(t).to # Same => Wrote(t, row)')
           /\ Sees(t, row)' =
                  IF Current(t).kind # "read" /\ Sees(t, row) \in Current(t).in /\ Current(t).to # Same
                  THEN Current(t).to ELSE Sees(t, row)
<1>1. CASE Passes(t)
    BY <1>1, Passed DEF Passes
<1>2. CASE Takes(t)
    <2>1. Sees(t, row) \in Current(t).in /\ Current(t).kind # "read"
        BY <1>2 DEF Takes
    <2> QED BY <1>2, <2>1, Taken
<1> QED BY <1>1, <1>2

\* What a transaction sees of a row that its kind does not write, or has not
\* written yet, is committed.
LEMMA SeesCommitted ==
    ASSUME NEW t \in Txns, Serial
    PROVE  /\ Kind[t] \in {"create", "retain"} => Sees(t, "run") = db["run"]
           /\ Kind[t] = "claim" /\ Sees(t, "job") = "queued" => db["job"] = "queued"
           /\ Kind[t] \in {"beat", "complete", "fail", "retry", "reconcile"} =>
                  /\ Sees(t, "job") = "running" => db["job"] = "running"
                  /\ Sees(t, "attempt") = "running" => db["attempt"] = "running"
                  /\ db["attempt"] = "running" => Sees(t, "attempt") \in AnyAttempt
                  /\ db["job"] = "running" => Sees(t, "job") \in Open \cup Closed
           /\ Kind[t] = "cancel" /\ Sees(t, "job") \in Open => db["job"] \in Open
<1>1. \A row \in DOMAIN writes[t] : Legal(Kind[t], row, db[row], writes[t][row])
    BY DEF Serial, TransactionHolds, WritesLegally
<1> QED BY <1>1 DEF Sees, Legal, Open, Closed, AnyAttempt, Gone

\* What a deletion relies on lasts until its next statement.
LEMMA DeleteAdvances ==
    ASSUME NEW t \in Txns, Serial, Kind[t] = "delete", Passes(t) \/ Takes(t),
           pc[t] \in 1 .. Len(Program(t)), DeleteKnows(t)
    PROVE  DeleteKnows(t)' /\ (Takes(t) => Writable(t))
<1> USE DEF DeleteKnows, Rows, Open, Same, Gone
<1>1. \/ pc[t] = 1 /\ At(t, "update", "run", {"validating", "ready", "invalid"}, "deleted", TRUE)
      \/ pc[t] = 2 /\ At(t, "update", "attempt", {"running"}, "cancelled", FALSE)
      \/ pc[t] = 3 /\ At(t, "update", "job", Open, "cancelled", FALSE)
      \/ pc[t] = 4 /\ At(t, "update", "artifact", {"registered"}, "withdrawn", FALSE)
    BY DeleteStatements DEF Serial
<1>2. Takes(t) => Writable(t)
    BY <1>1 DEF At, Takes, Writable, Legal
<1>3. CASE pc[t] = 1 /\ At(t, "update", "run", {"validating", "ready", "invalid"}, "deleted", TRUE)
    BY <1>2, <1>3, Advanced DEF At
<1>4. CASE pc[t] = 2 /\ At(t, "update", "attempt", {"running"}, "cancelled", FALSE)
    BY <1>2, <1>4, Advanced DEF At
<1>5. CASE pc[t] = 3 /\ At(t, "update", "job", Open, "cancelled", FALSE)
    BY <1>2, <1>5, Advanced DEF At
<1>6. CASE pc[t] = 4 /\ At(t, "update", "artifact", {"registered"}, "withdrawn", FALSE)
    BY <1>2, <1>6, Advanced DEF At
<1> QED BY <1>1, <1>2, <1>3, <1>4, <1>5, <1>6

\* What a creation relies on lasts until its next statement.
LEMMA CreateAdvances ==
    ASSUME NEW t \in Txns, Serial, Kind[t] = "create", Passes(t) \/ Takes(t),
           pc[t] \in 1 .. Len(Program(t)), CreateKnows(t)
    PROVE  CreateKnows(t)' /\ (Takes(t) => Writable(t))
<1> USE DEF CreateKnows, Rows, Open, Same
<1>1. \/ pc[t] = 1 /\ At(t, "select", "run", {"ready"}, Same, TRUE)
      \/ pc[t] = 2 /\ At(t, "insert", "job", {"none"}, "queued", TRUE)
    BY CreateStatements DEF Serial
<1>2. Takes(t) => Writable(t)
    BY <1>1 DEF At, Takes, Writable, Legal
<1>3. CASE pc[t] = 1 /\ At(t, "select", "run", {"ready"}, Same, TRUE)
    BY <1>2, <1>3, Advanced, SeesCommitted DEF At
<1>4. CASE pc[t] = 2 /\ At(t, "insert", "job", {"none"}, "queued", TRUE)
    BY <1>2, <1>4, Advanced, SeesCommitted DEF At
<1> QED BY <1>1, <1>2, <1>3, <1>4

\* What a claim relies on lasts until its next statement.
LEMMA ClaimAdvances ==
    ASSUME NEW t \in Txns, Serial, Kind[t] = "claim", Passes(t) \/ Takes(t),
           pc[t] \in 1 .. Len(Program(t)), ClaimKnows(t)
    PROVE  ClaimKnows(t)' /\ (Takes(t) => Writable(t))
<1> USE DEF ClaimKnows, Rows, Open, Same
<1>1. \/ pc[t] = 1 /\ At(t, "select", "job", {"queued"}, Same, TRUE)
      \/ pc[t] = 2 /\ At(t, "insert", "attempt", {"none"}, "running", TRUE)
      \/ pc[t] = 3 /\ At(t, "update", "job", {"queued"}, "running", FALSE)
      \/ pc[t] = 4 /\ At(t, "read", "run", {Usable(operation)}, Same, TRUE)
    BY ClaimStatements DEF Serial
<1>2. Takes(t) => Writable(t)
    BY <1>1 DEF At, Takes, Writable, Legal
<1>3. CASE pc[t] = 1 /\ At(t, "select", "job", {"queued"}, Same, TRUE)
    BY <1>2, <1>3, Advanced, SeesCommitted DEF At
<1>4. CASE pc[t] = 2 /\ At(t, "insert", "attempt", {"none"}, "running", TRUE)
    BY <1>2, <1>4, Advanced, SeesCommitted DEF At
<1>5. CASE pc[t] = 3 /\ At(t, "update", "job", {"queued"}, "running", FALSE)
    BY <1>2, <1>5, Advanced, SeesCommitted DEF At
<1>6. CASE pc[t] = 4 /\ At(t, "read", "run", {Usable(operation)}, Same, TRUE)
    BY <1>2, <1>6, Advanced, SeesCommitted DEF At
<1> QED BY <1>1, <1>2, <1>3, <1>4, <1>5, <1>6

\* What a cancellation relies on lasts until its next statement.
LEMMA CancelAdvances ==
    ASSUME NEW t \in Txns, Serial, Kind[t] = "cancel", Passes(t) \/ Takes(t),
           pc[t] \in 1 .. Len(Program(t)), CancelKnows(t)
    PROVE  CancelKnows(t)' /\ (Takes(t) => Writable(t))
<1> USE DEF CancelKnows, Rows, Open, Same
<1>1. \/ pc[t] = 1 /\ At(t, "update", "job", Open, Same, TRUE)
      \/ pc[t] = 2 /\ At(t, "update", "attempt", {"running"}, "cancelled", FALSE)
      \/ pc[t] = 3 /\ At(t, "update", "job", Open, "cancelled", FALSE)
    BY CancelStatements DEF Serial
<1>2. Takes(t) => Writable(t)
    BY <1>1 DEF At, Takes, Writable, Legal
<1>3. CASE pc[t] = 1 /\ At(t, "update", "job", Open, Same, TRUE)
    BY <1>2, <1>3, Advanced, SeesCommitted DEF At
<1>4. CASE pc[t] = 2 /\ At(t, "update", "attempt", {"running"}, "cancelled", FALSE)
    BY <1>2, <1>4, Advanced, SeesCommitted DEF At
<1>5. CASE pc[t] = 3 /\ At(t, "update", "job", Open, "cancelled", FALSE)
    BY <1>2, <1>5, Advanced, SeesCommitted DEF At
<1> QED BY <1>1, <1>2, <1>3, <1>4, <1>5

\* What a retention pass relies on lasts until its next statement.
LEMMA RetainAdvances ==
    ASSUME NEW t \in Txns, Serial, Kind[t] = "retain", Passes(t) \/ Takes(t),
           pc[t] \in 1 .. Len(Program(t)), RetainKnows(t)
    PROVE  RetainKnows(t)' /\ (Takes(t) => Writable(t))
<1> USE DEF RetainKnows, Rows, Open, Same, Gone
<1>1. \/ pc[t] = 1 /\ At(t, "read", "run", Gone, Same, TRUE)
      \/ pc[t] = 2 /\ At(t, "update", "attempt", {"running"}, "cancelled", FALSE)
      \/ pc[t] = 3 /\ At(t, "update", "job", Open, "cancelled", FALSE)
    BY RetainStatements DEF Serial
<1>2. Takes(t) => Writable(t)
    BY <1>1 DEF At, Takes, Writable, Legal
<1>3. CASE pc[t] = 1 /\ At(t, "read", "run", Gone, Same, TRUE)
    BY <1>2, <1>3, Advanced, SeesCommitted DEF At
<1>4. CASE pc[t] = 2 /\ At(t, "update", "attempt", {"running"}, "cancelled", FALSE)
    BY <1>2, <1>4, Advanced, SeesCommitted DEF At
<1>5. CASE pc[t] = 3 /\ At(t, "update", "job", Open, "cancelled", FALSE)
    BY <1>2, <1>5, Advanced, SeesCommitted DEF At
<1> QED BY <1>1, <1>2, <1>3, <1>4, <1>5

\* What a reconciliation relies on lasts until its next statement.
LEMMA ReconcileAdvances ==
    ASSUME NEW t \in Txns, Serial, Kind[t] = "reconcile", Passes(t) \/ Takes(t),
           pc[t] \in 1 .. Len(Program(t)), ReconcileKnows(t)
    PROVE  ReconcileKnows(t)' /\ (Takes(t) => Writable(t))
<1> USE DEF ReconcileKnows, Rows, Open, Same
<1>1. \/ pc[t] = 1 /\ At(t, "skip", "job", {"running"}, Same, TRUE)
      \/ pc[t] = 2 /\ At(t, "skip", "attempt", {"running"}, Same, TRUE)
      \/ pc[t] = 3 /\ At(t, "update", "attempt", {"running"}, "fenced", FALSE)
      \/ pc[t] = 4 /\ At(t, "update", "job", {"running"}, "retry_wait", FALSE)
    BY ReconcileStatements DEF Serial
<1>2. Takes(t) => Writable(t)
    BY <1>1 DEF At, Takes, Writable, Legal
<1>3. CASE pc[t] = 1 /\ At(t, "skip", "job", {"running"}, Same, TRUE)
    BY <1>2, <1>3, Advanced, SeesCommitted DEF At
<1>4. CASE pc[t] = 2 /\ At(t, "skip", "attempt", {"running"}, Same, TRUE)
    BY <1>2, <1>4, Advanced, SeesCommitted DEF At
<1>5. CASE pc[t] = 3 /\ At(t, "update", "attempt", {"running"}, "fenced", FALSE)
    BY <1>2, <1>5, Advanced, SeesCommitted DEF At
<1>6. CASE pc[t] = 4 /\ At(t, "update", "job", {"running"}, "retry_wait", FALSE)
    BY <1>2, <1>6, Advanced, SeesCommitted DEF At
<1> QED BY <1>1, <1>2, <1>3, <1>4, <1>5, <1>6

\* What a pass that expires the run relies on lasts until its next statement.
LEMMA ExpireAdvances ==
    ASSUME NEW t \in Txns, Serial, Kind[t] = "expire", Passes(t) \/ Takes(t),
           pc[t] \in 1 .. Len(Program(t)), ExpireKnows(t)
    PROVE  ExpireKnows(t)' /\ (Takes(t) => Writable(t))
<1> USE DEF ExpireKnows, Rows, Open, Same, Gone
<1>1. \/ pc[t] = 1 /\ At(t, "update", "run", {"validating", "ready", "invalid"}, "expired", FALSE)
      \/ pc[t] = 2 /\ At(t, "read", "run", Gone, Same, TRUE)
      \/ pc[t] = 3 /\ At(t, "update", "attempt", {"running"}, "cancelled", FALSE)
      \/ pc[t] = 4 /\ At(t, "update", "job", Open, "cancelled", FALSE)
    BY ExpireStatements DEF Serial
<1>2. Takes(t) => Writable(t)
    BY <1>1 DEF At, Takes, Writable, Legal
<1>3. CASE pc[t] = 1 /\ At(t, "update", "run", {"validating", "ready", "invalid"}, "expired", FALSE)
    BY <1>2, <1>3, Advanced DEF At
<1>4. CASE pc[t] = 2 /\ At(t, "read", "run", Gone, Same, TRUE)
    <2>1. Sees(t, "run") \in Gone => Wrote(t, "run") \/ db["run"] \in Gone
        BY DEF Sees, Wrote
    <2> QED BY <1>2, <1>4, <2>1, Advanced DEF At
<1>5. CASE pc[t] = 3 /\ At(t, "update", "attempt", {"running"}, "cancelled", FALSE)
    BY <1>2, <1>5, Advanced DEF At
<1>6. CASE pc[t] = 4 /\ At(t, "update", "job", Open, "cancelled", FALSE)
    BY <1>2, <1>6, Advanced DEF At
<1> QED BY <1>1, <1>2, <1>3, <1>4, <1>5, <1>6

\* What checkAttempt relies on lasts until its next statement.
LEMMA CheckAdvances ==
    ASSUME NEW t \in Txns, Serial, Kind[t] \in {"beat", "complete", "fail", "retry"}, Passes(t) \/ Takes(t),
           pc[t] \in 1 .. 3, CheckKnows(t)
    PROVE  CheckKnows(t)' /\ pc'[t] = pc[t] + 1 /\ (Takes(t) => Writable(t))
<1> USE DEF CheckKnows, Rows, Open, Same
<1>1. \/ pc[t] = 1 /\ At(t, "read", "run", {Usable(operation)}, Same, TRUE)
      \/ pc[t] = 2 /\ At(t, "select", "job", {"running"}, Same, TRUE)
      \/ pc[t] = 3 /\ At(t, "select", "attempt", {"running"}, Same, TRUE)
    BY CheckStatements DEF Serial
<1>2. Takes(t) => Writable(t)
    BY <1>1 DEF At, Takes, Writable, Legal
<1>3. CASE pc[t] = 1 /\ At(t, "read", "run", {Usable(operation)}, Same, TRUE)
    BY <1>2, <1>3, Advanced, SeesCommitted DEF At
<1>4. CASE pc[t] = 2 /\ At(t, "select", "job", {"running"}, Same, TRUE)
    BY <1>2, <1>4, Advanced, SeesCommitted DEF At
<1>5. CASE pc[t] = 3 /\ At(t, "select", "attempt", {"running"}, Same, TRUE)
    BY <1>2, <1>5, Advanced, SeesCommitted DEF At
<1> QED BY <1>1, <1>2, <1>3, <1>4, <1>5

\* What the completion of a validation relies on lasts until its next statement.
LEMMA ValidationCompleteAdvances ==
    ASSUME NEW t \in Txns, Serial, Kind[t] = "complete", Passes(t) \/ Takes(t),
           operation = "validate", operation' = operation,
           pc[t] \in 4 .. Len(Program(t)), CheckKnows(t) /\ CompleteKnows(t)
    PROVE  CheckKnows(t)' /\ CompleteKnows(t)' /\ (Takes(t) => Writable(t))
<1> USE DEF CheckKnows, CompleteKnows, Rows, Open, Same, AnyAttempt, Closed
<1>1. \/ pc[t] = 4 /\ At(t, "insert", "artifact", {"none"}, "registered", TRUE)
      \/ pc[t] = 5 /\ At(t, "update", "run", {"validating"}, "ready", TRUE)
      \/ pc[t] = 6 /\ At(t, "update", "attempt", AnyAttempt, "succeeded", FALSE)
      \/ pc[t] = 7 /\ At(t, "update", "job", {"running"}, "succeeded", TRUE)
    BY ValidationCompleteStatements DEF Serial
<1>2. Takes(t) => Writable(t)
    <2>1. db["job"] = "running" /\ db["attempt"] = "running"
        BY <1>1
    <2> QED BY <1>1, <2>1 DEF At, Takes, Writable, Legal
<1>3. CASE pc[t] = 4 /\ At(t, "insert", "artifact", {"none"}, "registered", TRUE)
    BY <1>2, <1>3, Advanced, SeesCommitted DEF At
<1>4. CASE pc[t] = 5 /\ At(t, "update", "run", {"validating"}, "ready", TRUE)
    BY <1>2, <1>4, Advanced, SeesCommitted DEF At
<1>5. CASE pc[t] = 6 /\ At(t, "update", "attempt", AnyAttempt, "succeeded", FALSE)
    BY <1>2, <1>5, Advanced, SeesCommitted DEF At
<1>6. CASE pc[t] = 7 /\ At(t, "update", "job", {"running"}, "succeeded", TRUE)
    BY <1>2, <1>6, Advanced, SeesCommitted DEF At
<1> QED BY <1>1, <1>2, <1>3, <1>4, <1>5, <1>6

\* What the completion of an analysis relies on lasts until its next statement.
LEMMA AnalysisCompleteAdvances ==
    ASSUME NEW t \in Txns, Serial, Kind[t] = "complete", Passes(t) \/ Takes(t),
           operation = "analysis", operation' = operation,
           pc[t] \in 4 .. Len(Program(t)), CheckKnows(t) /\ CompleteKnows(t)
    PROVE  CheckKnows(t)' /\ CompleteKnows(t)' /\ (Takes(t) => Writable(t))
<1> USE DEF CheckKnows, CompleteKnows, Rows, Open, Same, AnyAttempt, Closed
<1>1. \/ pc[t] = 4 /\ At(t, "insert", "artifact", {"none"}, "registered", TRUE)
      \/ pc[t] = 5 /\ At(t, "update", "attempt", AnyAttempt, "succeeded", FALSE)
      \/ pc[t] = 6 /\ At(t, "update", "job", {"running"}, "succeeded", TRUE)
    BY AnalysisCompleteStatements DEF Serial
<1>2. Takes(t) => Writable(t)
    <2>1. db["job"] = "running" /\ db["attempt"] = "running"
        BY <1>1
    <2> QED BY <1>1, <2>1 DEF At, Takes, Writable, Legal
<1>3. CASE pc[t] = 4 /\ At(t, "insert", "artifact", {"none"}, "registered", TRUE)
    BY <1>2, <1>3, Advanced, SeesCommitted DEF At
<1>4. CASE pc[t] = 5 /\ At(t, "update", "attempt", AnyAttempt, "succeeded", FALSE)
    BY <1>2, <1>4, Advanced, SeesCommitted DEF At
<1>5. CASE pc[t] = 6 /\ At(t, "update", "job", {"running"}, "succeeded", TRUE)
    BY <1>2, <1>5, Advanced, SeesCommitted DEF At
<1> QED BY <1>1, <1>2, <1>3, <1>4, <1>5

\* What the failure of a validation relies on lasts until its next statement.
LEMMA ValidationFailAdvances ==
    ASSUME NEW t \in Txns, Serial, Kind[t] = "fail", Passes(t) \/ Takes(t),
           operation = "validate", operation' = operation,
           pc[t] \in 4 .. Len(Program(t)), CheckKnows(t) /\ FailKnows(t)
    PROVE  CheckKnows(t)' /\ FailKnows(t)' /\ (Takes(t) => Writable(t))
<1> USE DEF CheckKnows, FailKnows, Rows, Open, Same, AnyAttempt, Closed
<1>1. \/ pc[t] = 4 /\ At(t, "update", "attempt", AnyAttempt, "failed", FALSE)
      \/ pc[t] = 5 /\ At(t, "update", "job", Open \cup Closed, "failed", FALSE)
      \/ pc[t] = 6 /\ At(t, "update", "run", {"validating"}, "invalid", FALSE)
    BY ValidationFailStatements DEF Serial
<1>2. Takes(t) => Writable(t)
    <2>1. db["job"] = "running" /\ db["attempt"] = "running"
        BY <1>1
    <2> QED BY <1>1, <2>1 DEF At, Takes, Writable, Legal
<1>3. CASE pc[t] = 4 /\ At(t, "update", "attempt", AnyAttempt, "failed", FALSE)
    BY <1>2, <1>3, Advanced, SeesCommitted DEF At
<1>4. CASE pc[t] = 5 /\ At(t, "update", "job", Open \cup Closed, "failed", FALSE)
    BY <1>2, <1>4, Advanced, SeesCommitted DEF At
<1>5. CASE pc[t] = 6 /\ At(t, "update", "run", {"validating"}, "invalid", FALSE)
    BY <1>2, <1>5, Advanced, SeesCommitted DEF At
<1> QED BY <1>1, <1>2, <1>3, <1>4, <1>5

\* What the failure of an analysis relies on lasts until its next statement.
LEMMA AnalysisFailAdvances ==
    ASSUME NEW t \in Txns, Serial, Kind[t] = "fail", Passes(t) \/ Takes(t),
           operation = "analysis", operation' = operation,
           pc[t] \in 4 .. Len(Program(t)), CheckKnows(t) /\ FailKnows(t)
    PROVE  CheckKnows(t)' /\ FailKnows(t)' /\ (Takes(t) => Writable(t))
<1> USE DEF CheckKnows, FailKnows, Rows, Open, Same, AnyAttempt, Closed
<1>1. \/ pc[t] = 4 /\ At(t, "update", "attempt", AnyAttempt, "failed", FALSE)
      \/ pc[t] = 5 /\ At(t, "update", "job", Open \cup Closed, "failed", FALSE)
    BY AnalysisFailStatements DEF Serial
<1>2. Takes(t) => Writable(t)
    <2>1. db["job"] = "running" /\ db["attempt"] = "running"
        BY <1>1
    <2> QED BY <1>1, <2>1 DEF At, Takes, Writable, Legal
<1>3. CASE pc[t] = 4 /\ At(t, "update", "attempt", AnyAttempt, "failed", FALSE)
    BY <1>2, <1>3, Advanced, SeesCommitted DEF At
<1>4. CASE pc[t] = 5 /\ At(t, "update", "job", Open \cup Closed, "failed", FALSE)
    BY <1>2, <1>4, Advanced, SeesCommitted DEF At
<1> QED BY <1>1, <1>2, <1>3, <1>4

\* What a retryable failure relies on lasts until its next statement.
LEMMA RetryAdvances ==
    ASSUME NEW t \in Txns, Serial, Kind[t] = "retry", Passes(t) \/ Takes(t),
           pc[t] \in 4 .. Len(Program(t)), CheckKnows(t) /\ FailKnows(t)
    PROVE  CheckKnows(t)' /\ FailKnows(t)' /\ (Takes(t) => Writable(t))
<1> USE DEF CheckKnows, FailKnows, Rows, Open, Same, AnyAttempt, Closed
<1>1. \/ pc[t] = 4 /\ At(t, "update", "attempt", AnyAttempt, "fenced", FALSE)
      \/ pc[t] = 5 /\ At(t, "update", "job", Open \cup Closed, "retry_wait", FALSE)
    BY RetryStatements DEF Serial
<1>2. Takes(t) => Writable(t)
    <2>1. db["job"] = "running" /\ db["attempt"] = "running"
        BY <1>1
    <2> QED BY <1>1, <2>1 DEF At, Takes, Writable, Legal
<1>3. CASE pc[t] = 4 /\ At(t, "update", "attempt", AnyAttempt, "fenced", FALSE)
    BY <1>2, <1>3, Advanced, SeesCommitted DEF At
<1>4. CASE pc[t] = 5 /\ At(t, "update", "job", Open \cup Closed, "retry_wait", FALSE)
    BY <1>2, <1>4, Advanced, SeesCommitted DEF At
<1> QED BY <1>1, <1>2, <1>3, <1>4

\* A statement keeps what its transaction relies on.
LEMMA AdvancesHold ==
    ASSUME NEW t \in Txns, Serial, pc[t] \in 1 .. Len(Program(t)), Passes(t) \/ Takes(t),
           operation' = operation
    PROVE  Knows(t)' /\ WritesLegally(t)'
<1>0. Knows(t) /\ WritesLegally(t) /\ Kind[t] \in Kinds /\ operation \in {"validate", "analysis"}
    BY KindAssumption DEF Serial, Typed, TransactionHolds
<1>1. Knows(t)' /\ (Takes(t) => Writable(t))
    <2> USE DEF Knows
    <2>1. CASE Kind[t] = "delete"
        BY <1>0, <2>1, DeleteAdvances
    <2>2. CASE Kind[t] = "create"
        BY <1>0, <2>2, CreateAdvances
    <2>3. CASE Kind[t] = "claim"
        BY <1>0, <2>3, ClaimAdvances
    <2>4. CASE Kind[t] = "beat"
        <3>1. pc[t] \in 1 .. 3
            BY <2>4, CheckStatements DEF Serial
        <3> QED BY <1>0, <2>4, <3>1, CheckAdvances
    <2>5. CASE Kind[t] = "complete"
        <3>1. CASE pc[t] \in 1 .. 3
            <4>1. CheckKnows(t)' /\ pc'[t] \in 1 .. 4 /\ (Takes(t) => Writable(t))
                BY <1>0, <2>5, <3>1, CheckAdvances
            <4> QED BY <2>5, <4>1 DEF CompleteKnows
        <3>2. CASE pc[t] \in 4 .. Len(Program(t))
            BY <1>0, <2>5, <3>2, ValidationCompleteAdvances, AnalysisCompleteAdvances
        <3> QED BY <3>1, <3>2, ProgramsEnd DEF Serial
    <2>6. CASE Kind[t] = "fail"
        <3>1. CASE pc[t] \in 1 .. 3
            <4>1. CheckKnows(t)' /\ pc'[t] \in 1 .. 4 /\ (Takes(t) => Writable(t))
                BY <1>0, <2>6, <3>1, CheckAdvances
            <4> QED BY <2>6, <4>1 DEF FailKnows
        <3>2. CASE pc[t] \in 4 .. Len(Program(t))
            BY <1>0, <2>6, <3>2, ValidationFailAdvances, AnalysisFailAdvances
        <3> QED BY <3>1, <3>2, ProgramsEnd DEF Serial
    <2>7. CASE Kind[t] = "cancel"
        BY <1>0, <2>7, CancelAdvances
    <2>8. CASE Kind[t] = "retain"
        BY <1>0, <2>8, RetainAdvances
    <2>9. CASE Kind[t] = "retry"
        <3>1. CASE pc[t] \in 1 .. 3
            <4>1. CheckKnows(t)' /\ pc'[t] \in 1 .. 4 /\ (Takes(t) => Writable(t))
                BY <1>0, <2>9, <3>1, CheckAdvances
            <4> QED BY <2>9, <4>1 DEF FailKnows
        <3>2. CASE pc[t] \in 4 .. Len(Program(t))
            BY <1>0, <2>9, <3>2, RetryAdvances
        <3> QED BY <3>1, <3>2, ProgramsEnd DEF Serial
    <2>10. CASE Kind[t] = "reconcile"
        BY <1>0, <2>10, ReconcileAdvances
    <2>11. CASE Kind[t] = "expire"
        BY <1>0, <2>11, ExpireAdvances
    <2> QED BY <1>0, <2>1, <2>2, <2>3, <2>4, <2>5, <2>6, <2>7, <2>8, <2>9, <2>10, <2>11 DEF Kinds
<1>2. CASE Passes(t)
    <2>1. WritesLegally(t)'
        BY <1>0, <1>2, Passed DEF WritesLegally
    <2> QED BY <1>1, <2>1
<1>3. CASE Takes(t)
    <2>1. WritesLegally(t)'
        BY <1>1, <1>3, LegalWrite DEF Writable
    <2> QED BY <1>1, <2>1
<1> QED BY <1>2, <1>3

\* What a transaction relies on lasts while others touch neither its locks nor
\* the committed rows.
LEMMA OthersKeep ==
    ASSUME NEW u \in Txns, TransactionHolds(u), db' = db, operation' = operation,
           writes'[u] = writes[u], pc'[u] = pc[u], waiting'[u] = waiting[u],
           \A row \in Rows : lock[row] = u => lock'[row] = u,
           DOMAIN writes[u] \subseteq Rows
    PROVE  TransactionHolds(u)'
<1> USE DEF TransactionHolds
<1>1. \A row : Sees(u, row)' = Sees(u, row) /\ (Wrote(u, row)' <=> Wrote(u, row))
    BY DEF Sees, Wrote
<1>2. WritesLegally(u)'
    BY DEF WritesLegally
<1>3. Knows(u)'
    BY <1>1 DEF Knows, DeleteKnows, CreateKnows, ClaimKnows, CheckKnows, CompleteKnows, FailKnows,
                ReconcileKnows, CancelKnows, RetainKnows, ExpireKnows, Rows
<1>4. WaitsForRow(u)'
    BY DEF WaitsForRow, Program, Current
<1> QED BY <1>2, <1>3, <1>4

\* A transaction that is at its first statement, or over, relies on nothing.
LEMMA StartsKnowing ==
    ASSUME NEW t \in Txns, pc'[t] \in {0, 1}
    PROVE  Knows(t)'
BY DEF Knows, DeleteKnows, CreateKnows, ClaimKnows, CheckKnows, CompleteKnows, FailKnows,
       ReconcileKnows, CancelKnows, RetainKnows, ExpireKnows

\* A transaction that is over holds nothing; the others hold what they held.
LEMMA Finished ==
    ASSUME NEW t \in Txns, Serial, Finish(t), operation' = operation,
           db' \in [run : {"validating", "ready", "invalid"} \cup Gone,
                    job : {"none"} \cup Open \cup Closed,
                    attempt : {"none"} \cup AnyAttempt,
                    artifact : {"none", "registered", "withdrawn"}]
    PROVE  /\ Typed' /\ TransactionHolds(t)'
           /\ \A u \in Txns \ {t} : /\ writes'[u] = writes[u] /\ pc'[u] = pc[u]
                                    /\ waiting'[u] = waiting[u]
                                    /\ \A row \in Rows : lock[row] = u => lock'[row] = u
<1> USE DEF Serial, Typed, TypeOK, Finish
<1>1. pc'[t] = 0 /\ waiting'[t] = FALSE /\ DOMAIN writes'[t] = {}
    BY DEF NoWrites
<1>2. TransactionHolds(t)'
    BY <1>1, StartsKnowing DEF TransactionHolds, WritesLegally, WaitsForRow
<1>3. \A u \in Txns \ {t} : writes'[u] = writes[u] /\ pc'[u] = pc[u] /\ waiting'[u] = waiting[u]
    OBVIOUS
<1>4. \A u \in Txns \ {t} : \A row \in Rows : lock[row] = u => lock'[row] = u
    OBVIOUS
<1>5. \A u \in Txns : DOMAIN writes'[u] \subseteq Rows /\ pc'[u] \in 0 .. Len(Program(u)') + 1
    <2>1. \A u \in Txns : Program(u)' = Program(u) /\ Len(Program(u)) \in Nat
        BY ProgramsEnd DEF Program
    <2> QED BY <1>1, <1>3, <2>1
<1>6. Typed'
    <2>1. writes' = [u \in Txns |-> writes'[u]] /\ pc' \in [Txns -> Nat]
        OBVIOUS
    <2>2. lock' \in [Rows -> Txns \cup {"free"}] /\ waiting' \in [Txns -> BOOLEAN]
          /\ ended' \subseteq Txns
        OBVIOUS
    <2> QED BY <1>5, <2>1, <2>2
<1> QED BY <1>2, <1>3, <1>4, <1>6

-----------------------------------------------------------------------------
(***************************************************************************)
(* A commit.                                                               *)
(***************************************************************************)

\* A transaction that commits has done all its statements.
LEMMA CommitKnows ==
    ASSUME NEW t \in Txns, Serial, Commit(t)
    PROVE  /\ Kind[t] = "delete" =>
                  Wrote(t, "run") /\ Sees(t, "job") \notin Open /\ Sees(t, "artifact") # "registered"
           /\ Kind[t] = "create" => lock["run"] = t /\ db["run"] = "ready"
           /\ Kind[t] = "claim" => lock["job"] = t /\ db["job"] = "queued"
           /\ Kind[t] \in {"complete", "fail", "retry", "reconcile"} =>
                  lock["job"] = t /\ db["job"] = "running" /\ Wrote(t, "attempt") /\ Wrote(t, "job")
           /\ Kind[t] = "complete" => Wrote(t, "artifact")
           /\ Kind[t] = "cancel" => lock["job"] = t /\ Sees(t, "attempt") # "running"
           /\ Kind[t] = "retain" => db["run"] \in Gone
           /\ Kind[t] = "expire" => (Wrote(t, "run") \/ db["run"] \in Gone) /\ Sees(t, "job") \notin Open
<1>0. Typed /\ Knows(t) /\ pc[t] = Len(Program(t)) + 1
    BY DEF Serial, TransactionHolds, Commit
<1>1. CASE Kind[t] = "delete"
    <2>1. Len(Program(t)) = 4
        BY <1>0, <1>1, DeleteStatements
    <2>2. pc[t] = 5
        BY <1>0, <2>1
    <2> QED BY <1>0, <1>1, <2>2 DEF Knows, DeleteKnows
<1>2. CASE Kind[t] = "create"
    <2>1. Len(Program(t)) = 2
        BY <1>0, <1>2, CreateStatements
    <2>2. pc[t] = 3
        BY <1>0, <2>1
    <2> QED BY <1>0, <1>2, <2>2 DEF Knows, CreateKnows
<1>3. CASE Kind[t] = "claim"
    <2>1. Len(Program(t)) = 4
        BY <1>0, <1>3, ClaimStatements
    <2>2. pc[t] = 5
        BY <1>0, <2>1
    <2> QED BY <1>0, <1>3, <2>2 DEF Knows, ClaimKnows
<1>4. CASE Kind[t] = "complete"
    <2>1. Len(Program(t)) = IF operation = "validate" THEN 7 ELSE 6
        BY <1>0, <1>4, ValidationCompleteStatements, AnalysisCompleteStatements DEF Typed
    <2>2. pc[t] = IF operation = "validate" THEN 8 ELSE 7
        BY <1>0, <2>1
    <2> QED BY <1>0, <1>4, <2>2 DEF Knows, CheckKnows, CompleteKnows
<1>5. CASE Kind[t] = "fail"
    <2>1. Len(Program(t)) = IF operation = "validate" THEN 6 ELSE 5
        BY <1>0, <1>5, ValidationFailStatements, AnalysisFailStatements DEF Typed
    <2>2. pc[t] = IF operation = "validate" THEN 7 ELSE 6
        BY <1>0, <2>1
    <2> QED BY <1>0, <1>5, <2>2 DEF Knows, CheckKnows, FailKnows
<1>6. CASE Kind[t] = "cancel"
    <2>1. Len(Program(t)) = 3
        BY <1>0, <1>6, CancelStatements
    <2>2. pc[t] = 4
        BY <1>0, <2>1
    <2> QED BY <1>0, <1>6, <2>2 DEF Knows, CancelKnows
<1>7. CASE Kind[t] = "retain"
    <2>1. Len(Program(t)) = 3
        BY <1>0, <1>7, RetainStatements
    <2>2. pc[t] = 4
        BY <1>0, <2>1
    <2> QED BY <1>0, <1>7, <2>2 DEF Knows, RetainKnows
<1>8. CASE Kind[t] = "retry"
    <2>1. Len(Program(t)) = 5
        BY <1>0, <1>8, RetryStatements
    <2>2. pc[t] = 6
        BY <1>0, <2>1
    <2> QED BY <1>0, <1>8, <2>2 DEF Knows, CheckKnows, FailKnows
<1>9. CASE Kind[t] = "reconcile"
    <2>1. Len(Program(t)) = 4
        BY <1>0, <1>9, ReconcileStatements
    <2>2. pc[t] = 5
        BY <1>0, <2>1
    <2> QED BY <1>0, <1>9, <2>2 DEF Knows, ReconcileKnows
<1>10. CASE Kind[t] = "expire"
    <2>1. Len(Program(t)) = 4
        BY <1>0, <1>10, ExpireStatements
    <2>2. pc[t] = 5
        BY <1>0, <2>1
    <2> QED BY <1>0, <1>10, <2>2 DEF Knows, ExpireKnows
<1> QED BY <1>1, <1>2, <1>3, <1>4, <1>5, <1>6, <1>7, <1>8, <1>9, <1>10

\* What a commit does to a row: nothing, or a legal write under the lock.
LEMMA CommitWrites ==
    ASSUME NEW t \in Txns, Serial, Commit(t), NEW row \in Rows
    PROVE  /\ db'[row] = Sees(t, row)
           /\ \/ ~ Wrote(t, row) /\ db'[row] = db[row]
              \/ Wrote(t, row) /\ lock[row] = t /\ Legal(Kind[t], row, db[row], db'[row])
BY DEF Serial, TransactionHolds, WritesLegally, Commit, Wrote, Sees

\* The committed rows stay in order.
LEMMA CommitIsSerial ==
    ASSUME NEW t \in Txns, Serial, Commit(t)
    PROVE  /\ db' \in [run : {"validating", "ready", "invalid"} \cup Gone,
                       job : {"none"} \cup Open \cup Closed,
                       attempt : {"none"} \cup AnyAttempt,
                       artifact : {"none", "registered", "withdrawn"}]
           /\ DeletionIsComplete' /\ SuccessIsWhole' /\ OnlyDeletionLeavesAttempts' /\ RetriesAreFenced'
<1> USE DEF Open, Closed, AnyAttempt, Gone
<1>1. Kind[t] \in Kinds /\ DeletionIsComplete /\ SuccessIsWhole /\ OnlyDeletionLeavesAttempts /\ RetriesAreFenced
    BY KindAssumption DEF Serial, CommittedIsSerial
<1>2. /\ db["run"] \in {"validating", "ready", "invalid"} \cup Gone
      /\ db["job"] \in {"none"} \cup Open \cup Closed
      /\ db["attempt"] \in {"none"} \cup AnyAttempt
      /\ db["artifact"] \in {"none", "registered", "withdrawn"}
      /\ db.run = db["run"] /\ db.job = db["job"]
      /\ db.attempt = db["attempt"] /\ db.artifact = db["artifact"]
    BY DEF Serial, Typed, TypeOK
<1>3. /\ db'["run"] = db["run"] \/ (Wrote(t, "run") /\ Legal(Kind[t], "run", db["run"], db'["run"]))
      /\ db'["job"] = db["job"] \/ (Wrote(t, "job") /\ Legal(Kind[t], "job", db["job"], db'["job"]))
      /\ db'["attempt"] = db["attempt"]
         \/ (Wrote(t, "attempt") /\ Legal(Kind[t], "attempt", db["attempt"], db'["attempt"]))
      /\ db'["artifact"] = db["artifact"]
         \/ (Wrote(t, "artifact") /\ Legal(Kind[t], "artifact", db["artifact"], db'["artifact"]))
    BY CommitWrites DEF Rows
<1>4. /\ Wrote(t, "run") => Legal(Kind[t], "run", db["run"], db'["run"])
      /\ Wrote(t, "job") => Legal(Kind[t], "job", db["job"], db'["job"])
      /\ Wrote(t, "attempt") => Legal(Kind[t], "attempt", db["attempt"], db'["attempt"])
      /\ Wrote(t, "artifact") => Legal(Kind[t], "artifact", db["artifact"], db'["artifact"])
    BY CommitWrites DEF Rows
<1>5. db'["job"] = Sees(t, "job") /\ db'["attempt"] = Sees(t, "attempt")
      /\ db'["artifact"] = Sees(t, "artifact")
    BY CommitWrites DEF Rows
<1>6. /\ db'["run"] \in {"validating", "ready", "invalid"} \cup Gone
      /\ db'["job"] \in {"none"} \cup Open \cup Closed
      /\ db'["attempt"] \in {"none"} \cup AnyAttempt
      /\ db'["artifact"] \in {"none", "registered", "withdrawn"}
    BY <1>2, <1>3 DEF Legal
<1>7. db' \in [run : {"validating", "ready", "invalid"} \cup Gone,
               job : {"none"} \cup Open \cup Closed,
               attempt : {"none"} \cup AnyAttempt,
               artifact : {"none", "registered", "withdrawn"}]
    BY <1>6 DEF Commit, Rows
<1>8. /\ db'.run = db'["run"] /\ db'.job = db'["job"]
      /\ db'.attempt = db'["attempt"] /\ db'.artifact = db'["artifact"]
    BY <1>7
<1>9. DeletionIsComplete'
    BY <1>1, <1>2, <1>3, <1>5, <1>6, <1>8, CommitKnows DEF DeletionIsComplete, Legal, Kinds
<1>10. SuccessIsWhole'
    BY <1>1, <1>2, <1>3, <1>4, <1>6, <1>8, CommitKnows DEF SuccessIsWhole, Legal, Kinds
<1>11. OnlyDeletionLeavesAttempts'
    BY <1>1, <1>2, <1>3, <1>4, <1>5, <1>6, <1>8, CommitKnows
    DEF OnlyDeletionLeavesAttempts, Legal, Kinds
<1>12. RetriesAreFenced'
    BY <1>1, <1>2, <1>3, <1>4, <1>5, <1>6, <1>8, CommitKnows
    DEF RetriesAreFenced, DeletionIsComplete, Legal, Kinds
<1> QED BY <1>7, <1>9, <1>10, <1>11, <1>12

\* What the others rely on lasts.
LEMMA CommitKeepsOthers ==
    ASSUME NEW t \in Txns, Serial, Commit(t), operation' = operation, NEW u \in Txns \ {t},
           writes'[u] = writes[u], pc'[u] = pc[u], waiting'[u] = waiting[u],
           \A row \in Rows : lock[row] = u => lock'[row] = u
    PROVE  TransactionHolds(u)'
<1> USE DEF Rows
<1>1. WritesLegally(u) /\ Knows(u) /\ WaitsForRow(u) /\ DOMAIN writes[u] \subseteq Rows
      /\ Kind[u] \in Kinds /\ Kind[t] \in Kinds
    BY KindAssumption DEF Serial, Typed, TypeOK, TransactionHolds
<1>2. \A row \in Rows : lock[row] = u => db'[row] = db[row]
    BY CommitWrites
<1>3. \A row \in Rows : Wrote(u, row)' <=> Wrote(u, row)
    BY DEF Wrote
<1>4. \A row \in Rows : Sees(u, row)' = IF Wrote(u, row) THEN Sees(u, row) ELSE db'[row]
    BY DEF Wrote, Sees
<1>5. \A row \in Rows : ~ Wrote(u, row) => Sees(u, row) = db[row]
    BY DEF Wrote, Sees
<1>6. \A row \in Rows : Wrote(u, row) => lock[row] = u
    BY <1>1 DEF WritesLegally, Wrote
<1>7. WritesLegally(u)'
    BY <1>1, <1>2 DEF WritesLegally
<1>8. WaitsForRow(u)'
    BY <1>1 DEF WaitsForRow, Program, Current
<1>9. Kind[u] = "delete" => DeleteKnows(u)'
    <2> SUFFICES ASSUME Kind[u] = "delete" PROVE DeleteKnows(u)'
        OBVIOUS
    <2>0. DeleteKnows(u)
        BY <1>1 DEF Knows
    <2>1. pc[u] >= 2 => lock'["run"] = u /\ Wrote(u, "run")'
        BY <2>0, <1>3 DEF DeleteKnows
    <2>2. ASSUME pc[u] >= 4 PROVE Sees(u, "job")' \notin Open
        <3>1. lock["run"] = u /\ Sees(u, "job") \notin Open
            BY <2>0, <2>2, <1>1 DEF DeleteKnows, Serial, Typed
        <3>2. Kind[t] # "create"
            BY <3>1, CommitKnows
        <3>3. db'["job"] = db["job"] \/ Legal(Kind[t], "job", db["job"], db'["job"])
            BY CommitWrites
        <3> QED BY <3>1, <3>2, <3>3, <1>1, <1>4, <1>5 DEF Legal, Open, Kinds
    <2>3. ASSUME pc[u] >= 5 PROVE Sees(u, "artifact")' # "registered"
        <3>1. Sees(u, "job") \notin Open /\ Sees(u, "artifact") # "registered"
            BY <2>0, <2>3, <1>1 DEF DeleteKnows, Serial, Typed
        <3>2. Kind[t] # "complete"
            BY <3>1, <1>5, <1>6, CommitKnows DEF Open
        <3>3. db'["artifact"] = db["artifact"] \/ Legal(Kind[t], "artifact", db["artifact"], db'["artifact"])
            BY CommitWrites
        <3> QED BY <3>1, <3>2, <3>3, <1>1, <1>4, <1>5 DEF Legal, Kinds
    <2> QED BY <2>1, <2>2, <2>3 DEF DeleteKnows
<1>10. Kind[u] = "create" => CreateKnows(u)'
    BY <1>1, <1>2 DEF Knows, CreateKnows
<1>11. Kind[u] = "claim" => ClaimKnows(u)'
    BY <1>1, <1>2 DEF Knows, ClaimKnows
<1>12. Kind[u] \in {"beat", "complete", "fail", "retry"} => CheckKnows(u)'
    BY <1>1, <1>2 DEF Knows, CheckKnows
<1>13. Kind[u] = "complete" => CompleteKnows(u)'
    BY <1>1, <1>3 DEF Knows, CompleteKnows
<1>14. Kind[u] \in {"fail", "retry"} => FailKnows(u)'
    BY <1>1, <1>3 DEF Knows, FailKnows
<1>15. Kind[u] = "cancel" => CancelKnows(u)'
    <2> SUFFICES ASSUME Kind[u] = "cancel" PROVE CancelKnows(u)'
        OBVIOUS
    <2>0. CancelKnows(u)
        BY <1>1 DEF Knows
    <2>1. pc[u] >= 2 => lock'["job"] = u /\ db'["job"] \in Open
        BY <2>0, <1>2 DEF CancelKnows
    <2>2. ASSUME pc[u] >= 3 PROVE Sees(u, "attempt")' # "running"
        <3>1. lock["job"] = u /\ Sees(u, "attempt") # "running"
            BY <2>0, <2>2, <1>1 DEF CancelKnows, Serial, Typed
        <3>2. Kind[t] # "claim"
            BY <3>1, CommitKnows
        <3>3. db'["attempt"] = db["attempt"] \/ Legal(Kind[t], "attempt", db["attempt"], db'["attempt"])
            BY CommitWrites
        <3> QED BY <3>1, <3>2, <3>3, <1>1, <1>4, <1>5 DEF Legal, Kinds
    <2> QED BY <2>1, <2>2 DEF CancelKnows
<1>16. Kind[u] = "retain" => RetainKnows(u)'
    <2>1. db["run"] \in Gone => db'["run"] \in Gone
        BY CommitWrites DEF Legal, Gone
    <2> QED BY <1>1, <2>1 DEF Knows, RetainKnows
<1>18. Kind[u] = "reconcile" => ReconcileKnows(u)'
    <2> SUFFICES ASSUME Kind[u] = "reconcile" PROVE ReconcileKnows(u)'
        OBVIOUS
    <2>0. ReconcileKnows(u) /\ pc[u] \in Nat
        BY <1>1 DEF Knows, Serial, Typed
    <2>1. /\ pc[u] >= 2 => lock'["job"] = u /\ db'["job"] = "running" /\ Sees(u, "job")' = Sees(u, "job")
          /\ pc[u] >= 3 => lock'["attempt"] = u /\ db'["attempt"] = "running" /\ Sees(u, "attempt")' = Sees(u, "attempt")
        BY <2>0, <1>2, <1>4, <1>5 DEF ReconcileKnows
    <2> QED BY <2>0, <2>1, <1>3 DEF ReconcileKnows
<1>19. Kind[u] = "expire" => ExpireKnows(u)'
    <2> SUFFICES ASSUME Kind[u] = "expire" PROVE ExpireKnows(u)'
        OBVIOUS
    <2>0. ExpireKnows(u) /\ pc[u] \in Nat
        BY <1>1 DEF Knows, Serial, Typed
    <2>1. db["run"] \in Gone => db'["run"] \in Gone
        BY CommitWrites DEF Legal, Gone
    <2>2. pc[u] >= 3 => Wrote(u, "run")' \/ db'["run"] \in Gone
        BY <2>0, <2>1, <1>3 DEF ExpireKnows
    <2>3. ASSUME pc[u] >= 5 PROVE Sees(u, "job")' \notin Open
        <3>1. (lock["run"] = u \/ db["run"] \in Gone) /\ Sees(u, "job") \notin Open
            BY <2>0, <2>3, <1>6 DEF ExpireKnows
        <3>2. Kind[t] # "create"
            BY <3>1, CommitKnows DEF Gone
        <3>3. db'["job"] = db["job"] \/ Legal(Kind[t], "job", db["job"], db'["job"])
            BY CommitWrites
        <3> QED BY <3>1, <3>2, <3>3, <1>1, <1>4, <1>5 DEF Legal, Open, Kinds
    <2> QED BY <2>2, <2>3 DEF ExpireKnows
<1>17. Knows(u)'
    BY <1>9, <1>10, <1>11, <1>12, <1>13, <1>14, <1>15, <1>16, <1>18, <1>19 DEF Knows
<1> QED BY <1>7, <1>8, <1>17 DEF TransactionHolds

-----------------------------------------------------------------------------
(***************************************************************************)
(* The theorems.                                                           *)
(***************************************************************************)

\* Initially nothing is under way.
LEMMA InitSerial == ASSUME Init PROVE Serial
<1>1. operation \in {"validate", "analysis"}
    BY DEF Init, Programs
<1>2. \A t \in Txns : pc[t] = 0 /\ waiting[t] = FALSE /\ DOMAIN writes[t] = {}
    BY DEF Init, NoWrites
<1>3. Typed
    <2>1. \A t \in Txns : 0 \in 0 .. Len(Program(t)) + 1
        <3>1. ASSUME NEW t \in Txns PROVE Len(Program(t)) \in Nat
            BY <1>1, KindAssumption DEF Program, Programs, Kinds, DeleteRunTx, CreateJobTx,
               ClaimTx, HeartbeatTx, CheckAttemptTx, CompleteAttemptTx, FailAttemptTx,
               RetryAttemptTx, ReconcileTx, RequestCancellationTx, EnforceRetentionTx, ExpireRunTx
        <3>2. \A n \in Nat : 0 \in 0 .. n + 1
            OBVIOUS
        <3> QED BY <3>1, <3>2
    <2> QED BY <1>1, <1>2, <2>1
        DEF Init, Typed, TypeOK, Usable, Rows, Open, Closed, AnyAttempt, Gone
<1>4. DeletionIsComplete /\ SuccessIsWhole /\ OnlyDeletionLeavesAttempts /\ RetriesAreFenced
    BY <1>1 DEF Init, DeletionIsComplete, SuccessIsWhole, OnlyDeletionLeavesAttempts, RetriesAreFenced,
                Usable, Open, Closed, Gone
<1>5. \A t \in Txns : TransactionHolds(t)
    <2>1. \A t \in Txns : WritesLegally(t) /\ WaitsForRow(t)
        BY <1>2 DEF WritesLegally, WaitsForRow
    <2>2. ASSUME NEW t \in Txns PROVE Knows(t)
        BY <1>2 DEF Knows, DeleteKnows, CreateKnows, ClaimKnows, CheckKnows, CompleteKnows,
                    FailKnows, ReconcileKnows, CancelKnows, RetainKnows, ExpireKnows
    <2> QED BY <2>1, <2>2 DEF TransactionHolds
<1> QED BY <1>3, <1>4, <1>5 DEF Serial, CommittedIsSerial, Typed

\* A step that commits nothing keeps the committed rows in order.
LEMMA UncommittedStep ==
    ASSUME Serial, Typed', db' = db, \A t \in Txns : TransactionHolds(t)'
    PROVE  Serial'
BY DEF Serial, Typed, CommittedIsSerial, DeletionIsComplete, SuccessIsWhole, OnlyDeletionLeavesAttempts,
       RetriesAreFenced

\* The invariant is inductive.
LEMMA SerialStep == ASSUME Serial, [Next]_vars PROVE Serial'
<1>1. CASE UNCHANGED vars
    <2>1. \A t \in Txns : TransactionHolds(t)'
        BY <1>1, OthersKeep DEF vars, Serial, Typed, TypeOK
    <2>2. Typed'
        BY <1>1 DEF vars, Serial, Typed, TypeOK, Program
    <2> QED BY <1>1, <2>1, <2>2, UncommittedStep DEF vars
<1>2. ASSUME NEW t \in Txns, operation' = operation, Rollback(t)
      PROVE  Serial'
    <2>1. /\ Typed' /\ TransactionHolds(t)' /\ db' = db
          /\ \A u \in Txns \ {t} : /\ writes'[u] = writes[u] /\ pc'[u] = pc[u]
                                   /\ waiting'[u] = waiting[u]
                                   /\ \A row \in Rows : lock[row] = u => lock'[row] = u
        BY <1>2, Finished DEF Rollback, Serial, Typed, TypeOK
    <2>2. \A u \in Txns \ {t} : TransactionHolds(u)'
        BY <1>2, <2>1, OthersKeep DEF Serial, Typed, TypeOK
    <2> QED BY <2>1, <2>2, UncommittedStep
<1>3. ASSUME NEW t \in Txns, operation' = operation, Begin(t)
      PROVE  Serial'
    <2> USE DEF Serial, Typed, TypeOK, Begin
    <2>1. \A u \in Txns : Program(u)' = Program(u) /\ Len(Program(u)) \in Nat
        BY <1>3, ProgramsEnd DEF Program
    <2>2. Typed'
        BY <1>3, <2>1
    <2>3. TransactionHolds(t)'
        <3>1. Knows(t)'
            BY <1>3, StartsKnowing
        <3>2. WritesLegally(t)'
            BY <1>3 DEF TransactionHolds, WritesLegally
        <3>3. ~ waiting[t]
            BY <1>3 DEF TransactionHolds, WaitsForRow
        <3> QED BY <1>3, <3>1, <3>2, <3>3 DEF TransactionHolds, WaitsForRow
    <2>4. \A u \in Txns \ {t} : TransactionHolds(u)'
        BY <1>3, OthersKeep
    <2> QED BY <1>3, <2>2, <2>3, <2>4, UncommittedStep
<1>4. ASSUME NEW t \in Txns, operation' = operation, StartStatement(t) \/ LockRow(t)
      PROVE  Serial'
    <2> USE DEF Serial, Typed, TypeOK
    <2>1. pc[t] \in 1 .. Len(Program(t)) /\ (Rollback(t) \/ Waits(t) \/ Passes(t) \/ Takes(t))
        BY <1>4, StatementSteps
    <2>2. \A u \in Txns : Program(u)' = Program(u) /\ Len(Program(u)) \in Nat
        BY <1>4, ProgramsEnd DEF Program
    <2>3. CASE Waits(t)
        <3>1. Typed'
            BY <1>4, <2>2, <2>3 DEF Waits
        <3>2. \A u \in Txns \ {t} : TransactionHolds(u)'
            BY <1>4, <2>3, OthersKeep DEF Waits
        <3>3. Knows(t)' /\ WritesLegally(t)'
            <4>1. \A row : Sees(t, row)' = Sees(t, row) /\ (Wrote(t, row)' <=> Wrote(t, row))
                BY <2>3 DEF Waits, Sees, Wrote
            <4> QED BY <1>4, <2>3, <4>1 DEF Waits, TransactionHolds, WritesLegally, Knows, DeleteKnows,
                    CreateKnows, ClaimKnows, CheckKnows, CompleteKnows, FailKnows, ReconcileKnows, CancelKnows,
                    RetainKnows, ExpireKnows
        <3>4. WaitsForRow(t)'
            BY <1>4, <2>1, <2>2, <2>3 DEF Waits, WaitsForRow, Current
        <3> QED BY <2>3, <3>1, <3>2, <3>3, <3>4, UncommittedStep DEF Waits, TransactionHolds
    <2>4. CASE Passes(t) \/ Takes(t)
        <3>1. Knows(t)' /\ WritesLegally(t)'
            BY <1>4, <2>1, <2>4, AdvancesHold
        <3>2. /\ db' = db /\ ended' = ended
              /\ pc' = [pc EXCEPT ![t] = pc[t] + 1] /\ waiting' = [waiting EXCEPT ![t] = FALSE]
            BY <2>4 DEF Passes, Takes
        <3>3. /\ lock' \in [Rows -> Txns \cup {"free"}]
              /\ \A u \in Txns \ {t}, row \in Rows : lock[row] = u => lock'[row] = u
            <4>1. Current(t).row \in Rows
                BY <2>1, StatementsSound
            <4>2. CASE Passes(t)
                BY <4>2 DEF Passes
            <4>3. CASE Takes(t)
                BY <4>1, <4>3, KindAssumption DEF Takes
            <4> QED BY <2>4, <4>2, <4>3
        <3>4. /\ writes' = [u \in Txns |-> writes'[u]]
              /\ \A u \in Txns \ {t} : writes'[u] = writes[u]
            BY <2>4 DEF Passes, Takes
        <3>5. DOMAIN writes'[t] \subseteq Rows
            <4>1. Current(t).row \in Rows
                BY <2>1, StatementsSound
            <4>2. CASE Passes(t)
                BY <4>2 DEF Passes
            <4>3. CASE Takes(t)
                BY <4>1, <4>3 DEF Takes
            <4> QED BY <2>4, <4>2, <4>3
        <3>6. Typed'
            <4>1. pc' \in [Txns -> Nat] /\ \A u \in Txns : pc'[u] \in 0 .. Len(Program(u)) + 1
                BY <2>1, <2>2, <3>2
            <4>2. \A u \in Txns : DOMAIN writes'[u] \subseteq Rows
                BY <3>4, <3>5
            <4>3. db' = db /\ waiting' \in [Txns -> BOOLEAN] /\ ended' = ended
                BY <3>2
            <4> QED BY <1>4, <2>2, <3>3, <3>4, <4>1, <4>2, <4>3
        <3>7. \A u \in Txns \ {t} : TransactionHolds(u)'
            BY <1>4, <3>2, <3>3, <3>4, OthersKeep
        <3>8. WaitsForRow(t)'
            BY <3>2 DEF WaitsForRow
        <3> QED BY <3>1, <3>2, <3>6, <3>7, <3>8, UncommittedStep DEF TransactionHolds
    <2> QED BY <1>2, <1>4, <2>1, <2>3, <2>4
<1>5. ASSUME NEW t \in Txns, operation' = operation, Commit(t)
      PROVE  Serial'
    <2>1. Finish(t)
        BY <1>5 DEF Commit
    <2>2. /\ Typed' /\ TransactionHolds(t)'
          /\ \A u \in Txns \ {t} : /\ writes'[u] = writes[u] /\ pc'[u] = pc[u]
                                   /\ waiting'[u] = waiting[u]
                                   /\ \A row \in Rows : lock[row] = u => lock'[row] = u
        BY <1>5, <2>1, Finished, CommitIsSerial
    <2>3. \A u \in Txns \ {t} : TransactionHolds(u)'
        BY <1>5, <2>2, CommitKeepsOthers
    <2>4. CommittedIsSerial'
        BY <1>5, <2>2, CommitIsSerial DEF CommittedIsSerial, Typed
    <2> QED BY <2>2, <2>3, <2>4 DEF Serial
<1> QED BY <1>1, <1>2, <1>3, <1>4, <1>5 DEF Next, BreakDeadlock

\* What deletions, creations, claims, heartbeats, completions, failures, retries,
\* cancellations, reconciliations and retention passes commit under READ COMMITTED
\* is what they would leave one after the other, however many of each meet.
THEOREM CommitsAreSerial == Spec => []CommittedIsSerial
<1>1. Init => Serial
    BY InitSerial
<1>2. Serial /\ [Next]_vars => Serial'
    BY SerialStep
<1>3. Serial => CommittedIsSerial
    BY DEF Serial
<1> QED BY <1>1, <1>2, <1>3, PTL DEF Spec

\* No transaction, whatever it read before, writes a job that is closed.
THEOREM ClosedStaysClosed == Spec => ClosedIsFinal
<1>1. Init => Serial
    BY InitSerial
<1>2. Serial /\ [Next]_vars => Serial'
    BY SerialStep
<1>3. ASSUME Serial, [Next]_vars, db.job \in Closed
      PROVE  db'.job = db.job
    <2>1. CASE db' = db
        BY <2>1
    <2>2. ASSUME NEW t \in Txns, Commit(t) PROVE db'.job = db.job
        <3>1. db["job"] = db.job
            BY DEF Serial, Typed, TypeOK
        <3>2. db'["job"] = db["job"]
            BY <1>3, <2>2, <3>1, CommitWrites DEF Rows, Legal, Closed, Open
        <3>3. db'["job"] = db'.job
            BY <2>2, CommitIsSerial
        <3> QED BY <3>1, <3>2, <3>3
    <2>3. [Next]_vars => db' = db \/ \E t \in Txns : Commit(t)
        <3>1. ASSUME NEW t \in Txns, StartStatement(t) \/ LockRow(t) PROVE db' = db
            BY <1>3, <3>1, StatementSteps DEF Rollback, Waits, Passes, Takes
        <3> QED BY <3>1 DEF Next, vars, Begin, BreakDeadlock, Rollback
    <2> QED BY <1>3, <2>1, <2>2, <2>3
<1>4. Serial /\ [Next]_vars => [db.job \in Closed => db'.job = db.job]_vars
    BY <1>3
<1> QED BY <1>1, <1>2, <1>4, PTL DEF Spec, ClosedIsFinal
=====
