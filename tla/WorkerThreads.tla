--------------------------- MODULE WorkerThreads ---------------------------
(***************************************************************************)
(* One hosted worker process, tracewake/worker.py: the main thread that    *)
(* receives notifications, claims attempts, executes and settles them, and *)
(* beside it, per attempt, a thread that heartbeats and one that watches   *)
(* for cancellation.  Both stop the main thread with                       *)
(* _thread.interrupt_main(), which is also how SIGTERM reaches it: the     *)
(* interpreter keeps one pending flag and raises KeyboardInterrupt at the  *)
(* next bytecode of the main thread.                                       *)
(*                                                                         *)
(* The control plane is one job, by the notifications of its attempts: the *)
(* state of the attempt each of them starts, and whether its message is    *)
(* visible, hidden or deleted.  A request that changes the job is one step *)
(* at the control plane and one in which its reply is read; the reply may  *)
(* be lost.                                                                *)
(***************************************************************************)
EXTENDS Naturals, Sequences, FiniteSets

CONSTANTS
    MaxAttempts,  \* bound: notifications of the job
    Requested,    \* the operations the job may ask for
    None          \* nothing

Operations == {"validate", "diff", "localize", "otlp", "pprof"}
Notes == 1 .. MaxAttempts

ASSUME AttemptsAssumption == MaxAttempts \in Nat \ {0}
ASSUME RequestedAssumption == Requested \subseteq Operations \cup {"unsupported"}
ASSUME NoneAssumption == None \notin Notes /\ None \notin {"lease_lost", "cancelled"}

VARIABLES
    operation, \* what the job asks for
    job,      \* [Notes -> the job at the control plane, as of this notification]
    queue,    \* [Notes -> its message: "none", "visible", "hidden" or "deleted"]
    late,     \* [Notes -> renewals of visibility after the lease was gone]
    pc,       \* where the main thread is
    note,     \* the notification it works on, or None
    step,     \* the position in Plan
    reply,    \* the answer on its way to the main thread, or None
    failure,  \* the failure it reports, or None
    ending,   \* after the attempt: "loop", or "exit" when an interrupt propagates
    stop,     \* [Notes -> the stop event of the attempt]
    reason,   \* [Notes -> stop_reason[0], or None]
    beat,     \* [Notes -> the heartbeat thread]
    watch,    \* [Notes -> the cancellation thread]
    pending,  \* the interpreter has an interrupt for the main thread
    sigterm   \* SIGTERM was received

world == <<operation, job, queue, late>>
main == <<pc, note, step, reply, failure, ending>>
threads == <<stop, reason, beat, watch>>
vars == <<world, main, threads, pending, sigterm>>

ThreadStates == {"off", "wait", "ok", "lost", "cancelled", "set"}
Failures == {"unsupported", "value", "internal", "shutdown"}

Init ==
    /\ operation \in Requested
    /\ job = [n \in Notes |-> IF n = 1 THEN "queued" ELSE "none"]
    /\ queue = [n \in Notes |-> IF n = 1 THEN "visible" ELSE "none"]
    /\ late = [n \in Notes |-> 0]
    /\ pc = "idle" /\ note = None /\ step = 0 /\ reply = None
    /\ failure = None /\ ending = "loop"
    /\ stop = [n \in Notes |-> FALSE] /\ reason = [n \in Notes |-> None]
    /\ beat = [n \in Notes |-> "off"] /\ watch = [n \in Notes |-> "off"]
    /\ pending = FALSE /\ sigterm = FALSE

Live(n) == job[n] = "live"
InTry == pc \in {"running", "committing", "committed"}
InHandler == pc \in {"failing", "failed", "settling"}
\* The attempt is this worker's to execute.
Holding(n) == note = n /\ (InTry \/ InHandler)

-----------------------------------------------------------------------------
(***************************************************************************)
(* The control plane and the queue.                                        *)
(***************************************************************************)

\* A lease runs out and is reconciled, or the tenant cancels.
EndLease(n, state) ==
    /\ pc # "exit" /\ Live(n)
    /\ job' = [job EXCEPT ![n] = state]
    /\ UNCHANGED <<operation, queue, late, main, threads, pending, sigterm>>

\* Another worker got the job first, or it is no longer wanted.
TakenElsewhere(n) ==
    /\ pc # "exit" /\ job[n] = "queued"
    /\ job' = [job EXCEPT ![n] = "elsewhere"]
    /\ UNCHANGED <<operation, queue, late, main, threads, pending, sigterm>>

\* The retry is due: the next notification is published.
Reissue(n) ==
    /\ pc # "exit" /\ job[n] = "retried" /\ n + 1 \in Notes /\ job[n + 1] = "none"
    /\ job' = [job EXCEPT ![n + 1] = "queued"]
    /\ queue' = [queue EXCEPT ![n + 1] = "visible"]
    /\ UNCHANGED <<operation, late, main, threads, pending, sigterm>>

\* A message that was not deleted is delivered again.
VisibilityEnds(n) ==
    /\ pc # "exit" /\ queue[n] = "hidden" /\ note # n
    /\ queue' = [queue EXCEPT ![n] = "visible"]
    /\ UNCHANGED <<operation, job, late, main, threads, pending, sigterm>>

\* What a request of a live attempt does to the job.
Effect(call, state) ==
    CASE call = "complete"                   -> "succeeded"
      [] call = "fail" /\ failure = "internal"    -> "retried"
      [] call = "fail" /\ failure = "shutdown"    -> "retried"
      [] call = "fail" /\ failure = "unsupported" -> "failed"
      [] call = "fail" /\ failure = "value"       -> "failed"
      [] OTHER                               -> state

\* Requests that are a conflict although the attempt is live: the input's object
\* is not found, or the result is refused before anything is committed.
Refusable == {"input", "complete"}

\* WorkerClient.request: what may be read and what may have happened.  A
\* conflict is LeaseLost, whoever caused it; every other failure leaves open
\* whether the request was carried out.
Answers(call, n) ==
    {<<"error", job[n]>>}
    \cup (IF Live(n) THEN {<<"ok", Effect(call, job[n])>>, <<"error", Effect(call, job[n])>>} ELSE {})
    \cup (IF Live(n) /\ call \notin Refusable THEN {} ELSE {<<"conflict", job[n]>>})

-----------------------------------------------------------------------------
(***************************************************************************)
(* The main thread.  It takes no step of its own while an interrupt waits. *)
(***************************************************************************)

\* What each operation does: consecutive requests that leave the job as it is
\* count as one.  An analysis uploads its document before its result.
Handler(op) ==
    IF op = "validate" THEN <<"input", "work">> ELSE <<"input", "work", "upload">>

\* _attempt from the claim to the commit; "accept" is _operation, "check" the
\* look at the stop event before the result is uploaded.
Plan ==
    <<"progress", "accept">> \o Handler(operation) \o <<"check", "upload", "complete">>

Call == Plan[step]
Local == {"accept", "work", "check"}

\* source.next(): a hidden message, or nothing.
Receive(n) ==
    /\ pc = "idle" /\ ~pending /\ queue[n] = "visible"
    /\ queue' = [queue EXCEPT ![n] = "hidden"]
    /\ pc' = "received" /\ note' = n
    /\ UNCHANGED <<operation, job, late, step, reply, failure, ending, threads, pending, sigterm>>

\* The claim reaches the control plane.
SendClaim ==
    /\ pc = "received" /\ ~pending
    /\ \E a \in (IF job[note] = "queued"
                 THEN {<<"ok", "live">>, <<"error", "live">>, <<"error", "queued">>}
                 ELSE {<<"conflict", job[note]>>, <<"error", job[note]>>}) :
           /\ reply' = a[1]
           /\ job' = [job EXCEPT ![note] = a[2]]
    /\ pc' = "claiming"
    /\ UNCHANGED <<operation, queue, late, note, step, failure, ending, threads, pending, sigterm>>

\* Back in _supervise, which recovers from everything but an interrupt.
Supervise(next) ==
    /\ pc' = next /\ note' = None /\ step' = 0 /\ reply' = None
    /\ failure' = None /\ ending' = "loop"

\* delivery.acknowledge(): the message is deleted, or the call fails either way.
Acknowledge(ok) == queue' = [queue EXCEPT ![note] = IF ok THEN "deleted" ELSE @]

\* The claim is answered: work starts with two fresh threads; a conflict
\* settles the message; anything else is left for another delivery.
ClaimAnswered ==
    /\ pc = "claiming" /\ ~pending
    /\ \/ /\ reply = "ok"
          /\ pc' = "running" /\ step' = 1 /\ reply' = None
          /\ beat' = [beat EXCEPT ![note] = "wait"]
          /\ watch' = [watch EXCEPT ![note] = "wait"]
          /\ UNCHANGED <<queue, note, failure, ending>>
       \/ /\ reply = "conflict"
          /\ \E ok \in BOOLEAN : Acknowledge(ok)
          /\ Supervise("idle")
          /\ UNCHANGED <<beat, watch>>
       \/ /\ reply = "error"
          /\ Supervise("idle")
          /\ UNCHANGED <<queue, beat, watch>>
    /\ UNCHANGED <<operation, job, late, stop, reason, pending, sigterm>>

Proceed == step' = step + 1 /\ UNCHANGED pc

\* An exception leaves the try block for the handler that reports it.
Report(kind) == pc' = "failing" /\ failure' = kind /\ step' = 0

\* except LeaseLost: the message is left for redelivery.
Abandon == pc' = "leaving" /\ step' = 0 /\ UNCHANGED failure

\* Requests of the attempt that leave the job as it is.  An input that does
\* not match its declaration and an output over its limit are values that no
\* retry can mend.
Request ==
    /\ pc = "running" /\ ~pending /\ Call \notin Local \cup {"complete"}
    /\ \E a \in Answers(Call, note) :
           \/ a[1] = "ok" /\ Proceed /\ UNCHANGED failure
           \/ a[1] = "ok" /\ Call \in {"input", "upload"} /\ Report("value")
           \/ a[1] = "conflict" /\ Abandon
           \/ a[1] = "error" /\ Report("internal")
    /\ UNCHANGED <<world, note, reply, ending, threads, pending, sigterm>>

\* The commit reaches the control plane.
SendComplete ==
    /\ pc = "running" /\ ~pending /\ Call = "complete"
    /\ \E a \in Answers("complete", note) :
           reply' = a[1] /\ job' = [job EXCEPT ![note] = a[2]]
    /\ pc' = "committing"
    /\ UNCHANGED <<operation, queue, late, note, step, failure, ending, threads, pending, sigterm>>

\* Its answer is read.
CompleteAnswered ==
    /\ pc = "committing" /\ ~pending
    /\ reply' = None
    /\ \/ reply = "ok" /\ pc' = "committed" /\ step' = 0 /\ UNCHANGED failure
       \/ reply = "conflict" /\ Abandon
       \/ reply = "error" /\ Report("internal")
    /\ UNCHANGED <<world, note, ending, threads, pending, sigterm>>

\* A step without a request: the operation is refused or not, the analysis
\* succeeds or raises, the stop event is looked at.
Work ==
    /\ pc = "running" /\ ~pending /\ Call \in Local
    /\ \/ /\ Call = "accept"
          /\ IF operation \in Operations THEN Proceed /\ UNCHANGED failure
             ELSE Report("unsupported")
       \/ /\ Call = "work"
          /\ \/ Proceed /\ UNCHANGED failure
             \/ \E kind \in {"value", "internal"} : Report(kind)
       \/ /\ Call = "check"
          /\ IF stop[note] THEN Abandon ELSE Proceed /\ UNCHANGED failure
    /\ UNCHANGED <<world, note, reply, ending, threads, pending, sigterm>>

\* The result is committed and the message settled; a failure to settle it is
\* reported like any other, to a control plane that refuses the report.
Settle ==
    /\ pc = "committed" /\ ~pending
    /\ \/ Acknowledge(TRUE) /\ pc' = "leaving" /\ UNCHANGED failure
       \/ (\E ok \in BOOLEAN : Acknowledge(ok)) /\ pc' = "failing" /\ failure' = "internal"
    /\ UNCHANGED <<operation, job, late, note, step, reply, ending, threads, pending, sigterm>>

\* A handler posts the failure.
SendFailure ==
    /\ pc = "failing" /\ ~pending
    /\ \E a \in Answers("fail", note) :
           reply' = a[1] /\ job' = [job EXCEPT ![note] = a[2]]
    /\ pc' = "failed"
    /\ UNCHANGED <<operation, queue, late, note, step, failure, ending, threads, pending, sigterm>>

\* Fault: the message is settled whatever became of the report.
SettlesFailureAlways == TRUE

\* Only a report that was accepted settles the message.
SettlesFailure == reply = "ok"

\* Then the message is settled; an error of either request propagates.
FailureAnswered ==
    /\ pc = "failed" /\ ~pending
    /\ \/ SettlesFailure /\ \E ok \in BOOLEAN : Acknowledge(ok)
       \/ ~SettlesFailure /\ UNCHANGED queue
    /\ pc' = "leaving" /\ reply' = None /\ failure' = None
    /\ UNCHANGED <<operation, job, late, note, step, ending, threads, pending, sigterm>>

\* except KeyboardInterrupt with the reason "cancelled".
SettleCancelled ==
    /\ pc = "settling" /\ ~pending
    /\ \E ok \in BOOLEAN : Acknowledge(ok)
    /\ pc' = "leaving"
    /\ UNCHANGED <<operation, job, late, note, step, reply, failure, ending, threads, pending, sigterm>>

\* What is left of a thread whose stop event is set: it may still renew the
\* visibility it was granted, or interrupt the main thread.
Lingering(state) == IF state \in {"ok", "set"} THEN state ELSE "off"

\* The process ends, and its threads with it.
Exit ==
    /\ Supervise("exit")
    /\ stop' = [n \in Notes |-> FALSE] /\ reason' = [n \in Notes |-> None]
    /\ beat' = [n \in Notes |-> "off"] /\ watch' = [n \in Notes |-> "off"]

\* finally: the threads are told to stop and joined for a second each, so they
\* may outlive the attempt; stop_reason is gone with the call.
Leave ==
    /\ pc = "leaving" /\ ~pending
    /\ \/ /\ ending = "loop"
          /\ Supervise("idle")
          /\ stop' = [stop EXCEPT ![note] = TRUE]
          /\ reason' = [reason EXCEPT ![note] = None]
          /\ beat' = [beat EXCEPT ![note] = Lingering(@)]
          /\ watch' = [watch EXCEPT ![note] = Lingering(@)]
       \/ ending = "exit" /\ Exit
    /\ UNCHANGED <<world, pending, sigterm>>

\* KeyboardInterrupt is raised where the main thread is.  In the try block its
\* handler asks why: a reason means that the attempt is over, none means that
\* the worker shuts down.  Anywhere else it ends the process.
Interrupted ==
    /\ pending /\ pc # "exit"
    /\ pending' = FALSE
    /\ \/ /\ InTry /\ reason[note] # None
          /\ pc' = IF reason[note] = "cancelled" THEN "settling" ELSE "leaving"
          /\ step' = 0 /\ reply' = None
          /\ UNCHANGED <<note, failure, ending, threads>>
       \/ /\ InTry /\ reason[note] = None
          /\ pc' = "failing" /\ failure' = "shutdown" /\ ending' = "exit"
          /\ step' = 0 /\ reply' = None
          /\ UNCHANGED <<note, threads>>
       \/ /\ InHandler
          /\ pc' = "leaving" /\ failure' = None /\ ending' = "exit" /\ reply' = None
          /\ UNCHANGED <<note, step, threads>>
       \/ ~InTry /\ ~InHandler /\ Exit
    /\ UNCHANGED <<world, sigterm>>

-----------------------------------------------------------------------------
(***************************************************************************)
(* The threads of an attempt.                                              *)
(***************************************************************************)

\* interrupt(why), first half, under interrupt_lock: nothing if the attempt
\* already stops, else the reason is noted and the event set.
Reason(n, why) ==
    IF stop[n] THEN UNCHANGED <<stop, reason>>
    ELSE /\ stop' = [stop EXCEPT ![n] = TRUE]
         /\ reason' = [reason EXCEPT ![n] = why]

AfterReason(n) == IF stop[n] THEN "off" ELSE "set"

\* Fault: a heartbeat that fails ends its thread and nothing else.
BeatFailedSilently(n) ==
    /\ beat[n] = "lost"
    /\ beat' = [beat EXCEPT ![n] = "off"]
    /\ UNCHANGED <<stop, reason>>

\* _heartbeat, except Exception: whatever went wrong, the lease counts as lost.
BeatFailed(n) ==
    /\ beat[n] = "lost"
    /\ Reason(n, "lease_lost")
    /\ beat' = [beat EXCEPT ![n] = AfterReason(n)]

\* What the control plane answers a heartbeat.
Beats(n) == IF Live(n) THEN {"ok", "lost"} ELSE {"lost"}

\* _heartbeat sends its request.
SendBeat(n) ==
    /\ beat[n] = "wait" /\ ~stop[n]
    /\ \E a \in Beats(n) : beat' = [beat EXCEPT ![n] = a]
    /\ UNCHANGED <<stop, reason, late>>

\* The lease was current a moment ago: visibility is renewed.
ExtendVisibility(n) ==
    /\ beat[n] = "ok"
    /\ beat' = [beat EXCEPT ![n] = IF stop[n] THEN "off" ELSE "wait"]
    /\ late' = [late EXCEPT ![n] = IF Live(n) THEN @ ELSE @ + 1]
    /\ UNCHANGED <<stop, reason>>

\* _watch_cancellation asks; an answer it cannot use is only logged.
SendWatch(n) ==
    /\ watch[n] = "wait" /\ ~stop[n]
    /\ \E a \in (CASE job[n] = "cancelled" -> {"cancelled", "wait"}
                   [] Live(n)              -> {"wait"}
                   [] OTHER                -> {"lost", "wait"}) :
           watch' = [watch EXCEPT ![n] = a]
    /\ UNCHANGED <<stop, reason>>

\* It was told that the job is cancelled, or that the lease is gone.
WatchAnswered(n) ==
    /\ watch[n] \in {"cancelled", "lost"}
    /\ Reason(n, IF watch[n] = "cancelled" THEN "cancelled" ELSE "lease_lost")
    /\ watch' = [watch EXCEPT ![n] = AfterReason(n)]

\* interrupt(why), second half, outside the lock.
InterruptMain(thread, n) == thread[n] = "set" /\ pending' = TRUE

\* One iteration of a thread in steps; a thread that waits when the event is
\* set has ended.
Beating(n) ==
    /\ pc # "exit"
    /\ \/ (SendBeat(n) \/ ExtendVisibility(n)) /\ UNCHANGED pending
       \/ BeatFailed(n) /\ UNCHANGED <<late, pending>>
       \/ /\ InterruptMain(beat, n)
          /\ beat' = [beat EXCEPT ![n] = "off"]
          /\ UNCHANGED <<stop, reason, late>>
    /\ UNCHANGED <<operation, job, queue, main, watch, sigterm>>

Watching(n) ==
    /\ pc # "exit"
    /\ \/ (SendWatch(n) \/ WatchAnswered(n)) /\ UNCHANGED pending
       \/ /\ InterruptMain(watch, n)
          /\ watch' = [watch EXCEPT ![n] = "off"]
          /\ UNCHANGED <<stop, reason>>
    /\ UNCHANGED <<world, main, beat, sigterm>>

\* The signal handler of main().
Sigterm ==
    /\ ~sigterm /\ pc # "exit"
    /\ sigterm' = TRUE /\ pending' = TRUE
    /\ UNCHANGED <<world, main, threads>>

-----------------------------------------------------------------------------
\* Everything the main thread does within bounded time; an analysis may take
\* as long as it likes.
Bounded ==
    \/ SendClaim \/ ClaimAnswered \/ Request \/ SendComplete \/ CompleteAnswered
    \/ Settle \/ SendFailure \/ FailureAnswered \/ SettleCancelled
    \/ Leave \/ Interrupted

Next ==
    \/ \E n \in Notes : Receive(n) \/ TakenElsewhere(n) \/ Reissue(n) \/ VisibilityEnds(n)
    \/ \E n \in Notes, state \in {"retried", "cancelled"} : EndLease(n, state)
    \/ Work \/ Bounded
    \/ \E n \in Notes : Beating(n) \/ Watching(n)
    \/ Sigterm

Spec == Init /\ [][Next]_vars

\* Requests have time limits and the threads of an attempt run on timers of
\* their own (HEARTBEAT_SECONDS, CANCELLATION_SECONDS).  Nothing is assumed of
\* the analysis, of the queue, of the control plane, or of the answers to the
\* cancellation thread: it may fail to learn anything for ever.
Fairness ==
    /\ WF_vars(Bounded)
    /\ \A n \in Notes : /\ WF_vars(Beating(n))
                        /\ WF_vars(Watching(n) /\ watch[n] # "wait")

FairSpec == Spec /\ Fairness

-----------------------------------------------------------------------------
JobStates == {"none", "queued", "live", "elsewhere", "retried", "cancelled", "succeeded", "failed"}

\* Every variable keeps its type, and the two threads of an attempt exist only
\* once its claim was granted.
TypeOK ==
    /\ operation \in Requested
    /\ job \in [Notes -> JobStates]
    /\ queue \in [Notes -> {"none", "visible", "hidden", "deleted"}]
    /\ late \in [Notes -> Nat]
    /\ pc \in {"idle", "received", "claiming", "running", "committing", "committed", "failing",
               "failed", "settling", "leaving", "exit"}
    /\ note \in Notes \cup {None}
    /\ pc \in {"running", "committing"} => note # None /\ step \in DOMAIN Plan
    /\ InHandler /\ pc # "settling" => failure \in Failures
    /\ reply \in {None, "ok", "conflict", "error"} /\ ending \in {"loop", "exit"}
    /\ stop \in [Notes -> BOOLEAN]
    /\ reason \in [Notes -> {None, "lease_lost", "cancelled"}]
    /\ beat \in [Notes -> ThreadStates] /\ watch \in [Notes -> ThreadStates]
    /\ \A n \in Notes : beat[n] # "off" => job[n] \notin {"none", "queued", "elsewhere"}
    /\ pending \in BOOLEAN /\ sigterm \in BOOLEAN

\* The acknowledgement matrix (contracts/lifecycle-v1.md): a message is deleted
\* only when the control plane durably refuses its claim, or when the attempt it
\* started has ended there, however replies are lost and interrupts arrive.
SettledIsDurable ==
    [][\A n \in Notes : queue[n] # "deleted" /\ queue'[n] = "deleted" =>
           IF pc = "claiming" THEN job[n] # "queued"
           ELSE job[n] \in {"succeeded", "failed", "retried", "cancelled"}]_vars

\* "a fenced worker stops holding the message": once the lease is gone, at most
\* the heartbeat that was already answered renews the visibility.
FencedStopsHolding == \A n \in Notes : late[n] <= 1

\* A worker whose lease is gone stops executing the attempt, even inside an
\* analysis that never ends by itself.
LostLeaseStops == \A n \in Notes : (Holding(n) /\ ~Live(n)) ~> ~Holding(n)

\* A fenced worker lets go of the message and of the execution.
FencedWorkerLetsGo == [](TypeOK /\ FencedStopsHolding) /\ LostLeaseStops

\* "On shutdown it stops new claims" (contracts/worker-protocol-v1.md): after
\* SIGTERM the worker sends no claim.
ShutdownStopsClaims == [][pc' = "claiming" /\ pc # "claiming" => ~sigterm]_vars
=============================================================================
