---------------------------- MODULE JobContract -----------------------------
(***************************************************************************)
(* What the control plane promises of a job: the transition table of       *)
(* contracts/lifecycle-v1.json, with the numbers and the identity that the *)
(* table's preconditions and postconditions mention.  Nothing is said of   *)
(* leases, notifications, runs or who asks.  Jobs are independent, and one *)
(* transaction may take one transition in each of several jobs.            *)
(***************************************************************************)
EXTENDS Naturals

CONSTANTS Jobs, MaxAttempts

VARIABLES
    state,     \* lifecycle state, "absent" before creation
    attempt,   \* number of attempts made
    current,   \* number of the current attempt, 0 when there is none
    result,    \* attempt whose artifact is authoritative, 0 when there is none
    failure    \* why the job failed, "none" unless it did

vars == <<state, attempt, current, result, failure>>

Open == {"queued", "running", "retry_wait"}
Closed == {"succeeded", "failed", "cancelled"}

Init ==
    /\ state = [j \in Jobs |-> "absent"]
    /\ attempt = [j \in Jobs |-> 0]
    /\ current = [j \in Jobs |-> 0]
    /\ result = [j \in Jobs |-> 0]
    /\ failure = [j \in Jobs |-> "none"]

\* The columns of j after a transition.
Becomes(j, s, a, c, r, f) ==
    /\ state'[j] = s /\ attempt'[j] = a /\ current'[j] = c
    /\ result'[j] = r /\ failure'[j] = f

Create(j) ==
    /\ state[j] = "absent"
    /\ Becomes(j, "queued", 0, 0, 0, "none")

ClaimNext(j) ==
    /\ state[j] = "queued" /\ current[j] = 0 /\ attempt[j] < MaxAttempts
    /\ Becomes(j, "running", attempt[j] + 1, attempt[j] + 1, 0, "none")

ResolveCancellation(j) ==
    /\ state[j] \in Open
    /\ Becomes(j, "cancelled", attempt[j], current[j], 0, "none")

Complete(j) ==
    /\ state[j] = "running" /\ current[j] = attempt[j]
    /\ Becomes(j, "succeeded", attempt[j], current[j], current[j], "none")

PermanentFailure(j) ==
    /\ state[j] = "running" /\ current[j] = attempt[j]
    /\ Becomes(j, "failed", attempt[j], current[j], 0, "permanent")

\* A retryable failure or an expired lease ends the job at the last attempt only.
RetryExhausted(j) ==
    /\ state[j] = "running" /\ current[j] = attempt[j] /\ attempt[j] = MaxAttempts
    /\ Becomes(j, "failed", attempt[j], current[j], 0, "retry_exhausted")

ScheduleRetry(j) ==
    /\ state[j] = "running" /\ current[j] = attempt[j] /\ attempt[j] < MaxAttempts
    /\ Becomes(j, "retry_wait", attempt[j], 0, 0, "none")

ReleaseRetry(j) ==
    /\ state[j] = "retry_wait"
    /\ Becomes(j, "queued", attempt[j], 0, 0, "none")

Transition(j) ==
    \/ Create(j) \/ ClaimNext(j) \/ ResolveCancellation(j) \/ Complete(j)
    \/ PermanentFailure(j) \/ RetryExhausted(j) \/ ScheduleRetry(j) \/ ReleaseRetry(j)

\* Duplicate deliveries, heartbeats, progress and stale requests.
Unchanged(j) == Becomes(j, state[j], attempt[j], current[j], result[j], failure[j])

Next == \A j \in Jobs : Transition(j) \/ Unchanged(j)

Spec == Init /\ [][Next]_vars
=============================================================================
