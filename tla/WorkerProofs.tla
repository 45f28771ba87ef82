---------------------------- MODULE WorkerProofs ----------------------------
(***************************************************************************)
(* One hosted worker process against a control plane that may lose every   *)
(* reply, for any number of attempts and any operation: what it knows of   *)
(* the job when it settles a message, and what it still renews when its    *)
(* lease is gone.                                                          *)
(***************************************************************************)
EXTENDS WorkerThreads, SequenceTheorems, TLAPS

\* The last call of an attempt is the one that commits it.
LEMMA PlanShape ==
    /\ DOMAIN Plan = 1 .. Len(Plan) /\ Len(Plan) \in Nat \ {0}
    /\ Plan[Len(Plan)] = "complete"
<1> DEFINE Calls == {"progress", "accept", "input", "work", "upload", "check", "complete"}
<1> DEFINE before == <<"progress", "accept">> \o Handler(operation)
<1> DEFINE after == <<"check", "upload", "complete">>
<1>1. Handler(operation) \in Seq(Calls)
  <2>1. <<"input", "work">> \in Seq(Calls) /\ <<"input", "work", "upload">> \in Seq(Calls)
    OBVIOUS
  <2> QED
    BY <2>1 DEF Handler
<1>2. <<"progress", "accept">> \in Seq(Calls)
  OBVIOUS
<1>3. before \in Seq(Calls)
  BY <1>1, <1>2
<1>4. after \in Seq(Calls) /\ Len(after) = 3 /\ after[3] = "complete"
  OBVIOUS
<1>5. Plan = before \o after
  BY DEF Plan
<1> HIDE DEF before, after, Calls
<1>6. Len(before) \in Nat
  BY <1>3
<1>7. /\ Plan \in Seq(Calls) /\ Len(Plan) = Len(before) + Len(after)
      /\ \A i \in 1 .. Len(before) + Len(after) :
             Plan[i] = IF i <= Len(before) THEN before[i] ELSE after[i - Len(before)]
  BY <1>3, <1>4, <1>5, ConcatProperties
<1>8. Plan[Len(before) + 3] = after[3]
  <2>1. Len(before) + 3 \in 1 .. Len(before) + Len(after) /\ ~(Len(before) + 3 <= Len(before))
    BY <1>4, <1>6
  <2>2. (Len(before) + 3) - Len(before) = 3
    BY <1>6
  <2> QED
    BY <1>7, <2>1, <2>2
<1> QED
  BY <1>4, <1>6, <1>7, <1>8

-----------------------------------------------------------------------------
\* The attempt has ended at the control plane.
Over == {"succeeded", "failed", "retried", "cancelled"}

\* The main thread works on a notification that was published; once its claim was
\* granted the attempt is live or over.
NoteHolds ==
    /\ \A n \in Notes : queue[n] # "none" => job[n] # "none"
    /\ pc \notin {"idle", "exit"} => note \in Notes /\ job[note] # "none"
    /\ pc \in {"running", "committing", "failing", "failed", "leaving"} => job[note] \in Over \cup {"live"}
    /\ pc = "committed" => job[note] \in Over
    /\ pc = "settling" => job[note] = "cancelled"

\* What a reply that is on its way says is true when it is read.
ReplyHolds ==
    /\ pc = "claiming" /\ reply = "ok" => job[note] \in Over \cup {"live"}
    /\ pc = "claiming" /\ reply = "conflict" => job[note] # "queued"
    /\ pc \in {"committing", "failed"} /\ reply = "ok" => job[note] \in Over

\* The cancellation thread is told of a cancellation only by one.
CancelHolds == \A n \in Notes : "cancelled" \in {reason[n], watch[n]} => job[n] = "cancelled"

\* A renewal that came too late was the last.
LateHolds == \A n \in Notes : late[n] # 0 => late[n] = 1 /\ job[n] \in Over /\ beat[n] # "ok"

\* The parts of the type invariant.
WorldTyped ==
    /\ operation \in Requested /\ job \in [Notes -> JobStates]
    /\ queue \in [Notes -> {"none", "visible", "hidden", "deleted"}] /\ late \in [Notes -> Nat]
MainTyped ==
    /\ pc \in {"idle", "received", "claiming", "running", "committing", "committed", "failing",
               "failed", "settling", "leaving", "exit"}
    /\ note \in Notes \cup {None}
    /\ pc \in {"running", "committing"} => note # None /\ step \in DOMAIN Plan
    /\ pc \in {"failing", "failed"} => failure \in Failures
    /\ reply \in {None, "ok", "conflict", "error"} /\ ending \in {"loop", "exit"}
ThreadsTyped ==
    /\ stop \in [Notes -> BOOLEAN]
    /\ reason \in [Notes -> {None, "lease_lost", "cancelled"}]
    /\ beat \in [Notes -> ThreadStates] /\ watch \in [Notes -> ThreadStates]
    /\ \A n \in Notes : beat[n] # "off" => job[n] \notin {"none", "queued", "elsewhere"}
    /\ pending \in BOOLEAN /\ sigterm \in BOOLEAN

WorkerHolds == TypeOK /\ NoteHolds /\ ReplyHolds /\ CancelHolds /\ LateHolds

\* How the job of a notification may move: what is over stays as it is.
Moves(n) ==
    /\ job[n] \in Over => job'[n] = job[n]
    /\ job[n] = "live" => job'[n] \in Over \cup {"live"}
    /\ job[n] \notin {"none", "queued"} => job'[n] \notin {"none", "queued"}
    /\ job[n] # "none" => job'[n] # "none"

\* Every step moves the jobs that way, and only in the three requests and in the steps of the
\* control plane.
LEMMA JobMoves == WorkerHolds /\ [Next]_vars => \A m \in Notes : Moves(m)
<1> SUFFICES ASSUME WorkerHolds, [Next]_vars PROVE \A m \in Notes : Moves(m)
  OBVIOUS
<1>1. ASSUME NEW n \in Notes, Receive(n) PROVE \A m \in Notes : Moves(m)
  BY <1>1 DEF Moves, Over, WorkerHolds, TypeOK, JobStates, world, main, threads, Receive
<1>2. ASSUME NEW n \in Notes, TakenElsewhere(n) PROVE \A m \in Notes : Moves(m)
  BY <1>2 DEF Moves, Over, WorkerHolds, TypeOK, JobStates, world, main, threads, TakenElsewhere
<1>3. ASSUME NEW n \in Notes, Reissue(n) PROVE \A m \in Notes : Moves(m)
  BY <1>3 DEF Moves, Over, WorkerHolds, TypeOK, JobStates, world, main, threads, Reissue
<1>4. ASSUME NEW n \in Notes, VisibilityEnds(n) PROVE \A m \in Notes : Moves(m)
  BY <1>4 DEF Moves, Over, WorkerHolds, TypeOK, JobStates, world, main, threads, VisibilityEnds
<1>5. ASSUME NEW n \in Notes, NEW state \in {"retried", "cancelled"}, EndLease(n, state) PROVE \A m \in Notes : Moves(m)
  BY <1>5 DEF Moves, Over, WorkerHolds, TypeOK, JobStates, world, main, threads, EndLease, Live
<1>6. ASSUME Work PROVE \A m \in Notes : Moves(m)
  BY <1>6 DEF Moves, Over, WorkerHolds, TypeOK, JobStates, world, main, threads, Work, Proceed,
     Report, Abandon, Local
<1>7. ASSUME SendClaim PROVE \A m \in Notes : Moves(m)
  BY <1>7 DEF Moves, Over, WorkerHolds, TypeOK, JobStates, world, main, threads, SendClaim
<1>8. ASSUME ClaimAnswered PROVE \A m \in Notes : Moves(m)
  BY <1>8 DEF Moves, Over, WorkerHolds, TypeOK, JobStates, world, main, threads, ClaimAnswered,
     Supervise, Acknowledge
<1>9. ASSUME Request PROVE \A m \in Notes : Moves(m)
  BY <1>9 DEF Moves, Over, WorkerHolds, TypeOK, JobStates, world, main, threads, Request, Proceed,
     Report, Abandon, Local
<1>10. ASSUME SendComplete PROVE \A m \in Notes : Moves(m)
  BY <1>10 DEF Moves, Over, WorkerHolds, TypeOK, JobStates, world, main, threads, SendComplete,
     Answers, Refusable, Live, Effect
<1>11. ASSUME CompleteAnswered PROVE \A m \in Notes : Moves(m)
  BY <1>11 DEF Moves, Over, WorkerHolds, TypeOK, JobStates, world, main, threads, CompleteAnswered,
     Report, Abandon
<1>12. ASSUME Settle PROVE \A m \in Notes : Moves(m)
  BY <1>12 DEF Moves, Over, WorkerHolds, TypeOK, JobStates, world, main, threads, Settle,
     Acknowledge
<1>13. ASSUME SendFailure PROVE \A m \in Notes : Moves(m)
  BY <1>13 DEF Moves, Over, WorkerHolds, TypeOK, JobStates, world, main, threads, SendFailure,
     Answers, Refusable, Live, Effect
<1>14. ASSUME FailureAnswered PROVE \A m \in Notes : Moves(m)
  BY <1>14 DEF Moves, Over, WorkerHolds, TypeOK, JobStates, world, main, threads, FailureAnswered,
     SettlesFailure, Acknowledge
<1>15. ASSUME SettleCancelled PROVE \A m \in Notes : Moves(m)
  BY <1>15 DEF Moves, Over, WorkerHolds, TypeOK, JobStates, world, main, threads, SettleCancelled,
     Acknowledge
<1>16. ASSUME Leave PROVE \A m \in Notes : Moves(m)
  BY <1>16 DEF Moves, Over, WorkerHolds, TypeOK, JobStates, world, main, threads, Leave, Supervise,
     Exit, Lingering
<1>17. ASSUME Interrupted PROVE \A m \in Notes : Moves(m)
  BY <1>17 DEF Moves, Over, WorkerHolds, TypeOK, JobStates, world, main, threads, Interrupted,
     Supervise, Exit
<1>18. ASSUME NEW n \in Notes, Beating(n) PROVE \A m \in Notes : Moves(m)
  BY <1>18 DEF Moves, Over, WorkerHolds, TypeOK, JobStates, world, main, threads, Beating, SendBeat,
     ExtendVisibility, BeatFailed, Reason, AfterReason, InterruptMain, Beats, Live
<1>19. ASSUME NEW n \in Notes, Watching(n) PROVE \A m \in Notes : Moves(m)
  BY <1>19 DEF Moves, Over, WorkerHolds, TypeOK, JobStates, world, main, threads, Watching,
     SendWatch, WatchAnswered, Reason, AfterReason, InterruptMain, Live
<1>20. ASSUME Sigterm PROVE \A m \in Notes : Moves(m)
  BY <1>20 DEF Moves, Over, WorkerHolds, TypeOK, JobStates, world, main, threads, Sigterm
<1>21. ASSUME UNCHANGED vars PROVE \A m \in Notes : Moves(m)
  BY <1>21 DEF Moves, Over, WorkerHolds, TypeOK, JobStates, world, main, threads, vars
<1> QED
  BY <1>1, <1>2, <1>3, <1>4, <1>5, <1>6, <1>7, <1>8, <1>9, <1>10, <1>11, <1>12, <1>13, <1>14, <1>15,
     <1>16, <1>17, <1>18, <1>19, <1>20, <1>21 DEF Next, Bounded

\* The type invariant is its parts.
LEMMA TypeParts == TypeOK <=> WorldTyped /\ MainTyped /\ ThreadsTyped
  BY DEF TypeOK, WorldTyped, MainTyped, ThreadsTyped, InHandler

\* Every variable keeps its type; the plan is never overrun.
LEMMA TypeStep == WorkerHolds /\ [Next]_vars => TypeOK'
<1> SUFFICES ASSUME WorkerHolds, [Next]_vars PROVE TypeOK'
  OBVIOUS
<1>a. WorldTyped /\ MainTyped /\ ThreadsTyped /\ NoteHolds /\ ReplyHolds
  BY TypeParts DEF WorkerHolds
<1>b. UNCHANGED operation => Plan' = Plan
  BY DEF Plan, Handler
<1>1. ASSUME NEW n \in Notes, Receive(n) PROVE TypeOK'
  BY <1>1, NoneAssumption DEF WorkerHolds, TypeOK, JobStates, ThreadStates, Failures, InTry,
     InHandler, NoteHolds, ReplyHolds, Plan, world, main, threads, Receive
<1>2. ASSUME NEW n \in Notes, TakenElsewhere(n) PROVE TypeOK'
  BY <1>2, NoneAssumption DEF WorkerHolds, TypeOK, JobStates, ThreadStates, Failures, InTry,
     InHandler, NoteHolds, ReplyHolds, Plan, world, main, threads, TakenElsewhere
<1>3. ASSUME NEW n \in Notes, Reissue(n) PROVE TypeOK'
  BY <1>3, NoneAssumption DEF WorkerHolds, TypeOK, JobStates, ThreadStates, Failures, InTry,
     InHandler, NoteHolds, ReplyHolds, Plan, world, main, threads, Reissue
<1>4. ASSUME NEW n \in Notes, VisibilityEnds(n) PROVE TypeOK'
  BY <1>4, NoneAssumption DEF WorkerHolds, TypeOK, JobStates, ThreadStates, Failures, InTry,
     InHandler, NoteHolds, ReplyHolds, Plan, world, main, threads, VisibilityEnds
<1>5. ASSUME NEW n \in Notes, NEW state \in {"retried", "cancelled"}, EndLease(n, state) PROVE TypeOK'
  BY <1>5, NoneAssumption DEF WorkerHolds, TypeOK, JobStates, ThreadStates, Failures, InTry,
     InHandler, NoteHolds, ReplyHolds, Plan, world, main, threads, EndLease, Live
<1>6. ASSUME Work PROVE TypeOK'
  <2>1. WorldTyped'
    BY <1>6, <1>a DEF WorldTyped, world, main, threads, Work, Proceed, Report, Abandon, Local
  <2>2. MainTyped'
    BY <1>6, <1>a, <1>b, PlanShape DEF MainTyped, NoteHolds, Failures, Call, world, main, threads,
       Work, Proceed, Report, Abandon, Local
  <2>3. ThreadsTyped'
    BY <1>6, <1>a DEF WorldTyped, ThreadsTyped, ThreadStates, NoteHolds, ReplyHolds, Over, InTry,
       InHandler, world, main, threads, Work, Proceed, Report, Abandon, Local
  <2> QED
    BY <2>1, <2>2, <2>3, TypeParts, PTL
<1>7. ASSUME SendClaim PROVE TypeOK'
  BY <1>7, NoneAssumption DEF WorkerHolds, TypeOK, JobStates, ThreadStates, Failures, InTry,
     InHandler, NoteHolds, ReplyHolds, Plan, world, main, threads, SendClaim
<1>8. ASSUME ClaimAnswered PROVE TypeOK'
  <2>1. WorldTyped'
    BY <1>8, <1>a DEF WorldTyped, world, main, threads, ClaimAnswered, Supervise, Acknowledge
  <2>2. MainTyped'
    BY <1>8, <1>a, <1>b, PlanShape, NoneAssumption DEF MainTyped, NoteHolds, Failures, world, main,
       threads, ClaimAnswered, Supervise, Acknowledge
  <2>3. ThreadsTyped'
    BY <1>8, <1>a DEF WorldTyped, ThreadsTyped, ThreadStates, NoteHolds, ReplyHolds, Over, InTry,
       InHandler, world, main, threads, ClaimAnswered, Supervise, Acknowledge
  <2> QED
    BY <2>1, <2>2, <2>3, TypeParts, PTL
<1>9. ASSUME Request PROVE TypeOK'
  <2>1. WorldTyped'
    BY <1>9, <1>a DEF WorldTyped, world, main, threads, Request, Proceed, Report, Abandon, Local
  <2>2. MainTyped'
    BY <1>9, <1>a, <1>b, PlanShape DEF MainTyped, NoteHolds, Failures, Call, world, main, threads,
       Request, Proceed, Report, Abandon, Local
  <2>3. ThreadsTyped'
    BY <1>9, <1>a DEF WorldTyped, ThreadsTyped, ThreadStates, NoteHolds, ReplyHolds, Over, InTry,
       InHandler, world, main, threads, Request, Proceed, Report, Abandon, Local
  <2> QED
    BY <2>1, <2>2, <2>3, TypeParts, PTL
<1>10. ASSUME SendComplete PROVE TypeOK'
  BY <1>10, NoneAssumption DEF WorkerHolds, TypeOK, JobStates, ThreadStates, Failures, InTry,
     InHandler, NoteHolds, ReplyHolds, Plan, world, main, threads, SendComplete, Answers, Refusable, Live,
     Effect
<1>11. ASSUME CompleteAnswered PROVE TypeOK'
  BY <1>11, NoneAssumption DEF WorkerHolds, TypeOK, JobStates, ThreadStates, Failures, InTry,
     InHandler, NoteHolds, ReplyHolds, Plan, world, main, threads, CompleteAnswered, Report, Abandon
<1>12. ASSUME Settle PROVE TypeOK'
  BY <1>12, NoneAssumption DEF WorkerHolds, TypeOK, JobStates, ThreadStates, Failures, InTry,
     InHandler, NoteHolds, ReplyHolds, Plan, world, main, threads, Settle, Acknowledge
<1>13. ASSUME SendFailure PROVE TypeOK'
  BY <1>13, NoneAssumption DEF WorkerHolds, TypeOK, JobStates, ThreadStates, Failures, InTry,
     InHandler, NoteHolds, ReplyHolds, Plan, world, main, threads, SendFailure, Answers, Refusable, Live,
     Effect
<1>14. ASSUME FailureAnswered PROVE TypeOK'
  BY <1>14, NoneAssumption DEF WorkerHolds, TypeOK, JobStates, ThreadStates, Failures, InTry,
     InHandler, NoteHolds, ReplyHolds, Plan, world, main, threads, FailureAnswered, SettlesFailure,
     Acknowledge
<1>15. ASSUME SettleCancelled PROVE TypeOK'
  BY <1>15, NoneAssumption DEF WorkerHolds, TypeOK, JobStates, ThreadStates, Failures, InTry,
     InHandler, NoteHolds, ReplyHolds, Plan, world, main, threads, SettleCancelled, Acknowledge
<1>16. ASSUME Leave PROVE TypeOK'
  <2>1. WorldTyped'
    BY <1>16, <1>a DEF WorldTyped, world, main, threads, Leave, Supervise, Exit, Lingering
  <2>2. MainTyped'
    BY <1>16, <1>a, NoneAssumption DEF MainTyped, Failures, NoteHolds, InTry, InHandler, Plan, world,
       main, threads, Leave, Supervise, Exit, Lingering
  <2>3. ThreadsTyped'
    <3>1. stop' \in [Notes -> BOOLEAN]
      <4>1. stop' = [stop EXCEPT ![note] = TRUE] \/ stop' = [n \in Notes |-> FALSE]
        BY <1>16 DEF threads, Leave, Supervise, Exit, Lingering
      <4>2. stop \in [Notes -> BOOLEAN]
        BY <1>a DEF ThreadsTyped
      <4> QED
        BY <4>1, <4>2
    <3>2. reason' \in [Notes -> {None, "lease_lost", "cancelled"}]
      BY <1>16, <1>a DEF WorldTyped, ThreadsTyped, ThreadStates, NoteHolds, ReplyHolds, Over, InTry,
         InHandler, world, main, threads, Leave, Supervise, Exit, Lingering
    <3>3. beat' \in [Notes -> ThreadStates]
      BY <1>16, <1>a DEF WorldTyped, ThreadsTyped, ThreadStates, NoteHolds, ReplyHolds, Over, InTry,
         InHandler, world, main, threads, Leave, Supervise, Exit, Lingering
    <3>4. watch' \in [Notes -> ThreadStates]
      BY <1>16, <1>a DEF WorldTyped, ThreadsTyped, ThreadStates, NoteHolds, ReplyHolds, Over, InTry,
         InHandler, world, main, threads, Leave, Supervise, Exit, Lingering
    <3>5. pending' \in BOOLEAN /\ sigterm' \in BOOLEAN
      BY <1>16, <1>a DEF WorldTyped, ThreadsTyped, ThreadStates, NoteHolds, ReplyHolds, Over, InTry,
         InHandler, world, main, threads, Leave, Supervise, Exit, Lingering
    <3>6. \A m \in Notes : beat'[m] # "off" => job'[m] \notin {"none", "queued", "elsewhere"}
      BY <1>16, <1>a DEF WorldTyped, ThreadsTyped, ThreadStates, NoteHolds, ReplyHolds, Over, InTry,
         InHandler, world, main, threads, Leave, Supervise, Exit, Lingering
    <3> QED
      BY <3>1, <3>2, <3>3, <3>4, <3>5, <3>6 DEF ThreadsTyped
  <2> QED
    BY <2>1, <2>2, <2>3, TypeParts, PTL
<1>17. ASSUME Interrupted PROVE TypeOK'
  <2>1. WorldTyped'
    BY <1>17, <1>a DEF WorldTyped, world, main, threads, Interrupted, Supervise, Exit
  <2>2. MainTyped'
    BY <1>17, <1>a, NoneAssumption DEF MainTyped, Failures, NoteHolds, InTry, InHandler, Plan, world,
       main, threads, Interrupted, Supervise, Exit
  <2>3. ThreadsTyped'
    <3>1. stop' \in [Notes -> BOOLEAN]
      <4>1. stop' = stop \/ stop' = [n \in Notes |-> FALSE]
        BY <1>17 DEF threads, Interrupted, Supervise, Exit
      <4>2. stop \in [Notes -> BOOLEAN]
        BY <1>a DEF ThreadsTyped
      <4> QED
        BY <4>1, <4>2
    <3>2. reason' \in [Notes -> {None, "lease_lost", "cancelled"}]
      BY <1>17, <1>a DEF WorldTyped, ThreadsTyped, ThreadStates, NoteHolds, ReplyHolds, Over, InTry,
         InHandler, world, main, threads, Interrupted, Supervise, Exit
    <3>3. beat' \in [Notes -> ThreadStates]
      BY <1>17, <1>a DEF WorldTyped, ThreadsTyped, ThreadStates, NoteHolds, ReplyHolds, Over, InTry,
         InHandler, world, main, threads, Interrupted, Supervise, Exit
    <3>4. watch' \in [Notes -> ThreadStates]
      BY <1>17, <1>a DEF WorldTyped, ThreadsTyped, ThreadStates, NoteHolds, ReplyHolds, Over, InTry,
         InHandler, world, main, threads, Interrupted, Supervise, Exit
    <3>5. pending' \in BOOLEAN /\ sigterm' \in BOOLEAN
      BY <1>17, <1>a DEF WorldTyped, ThreadsTyped, ThreadStates, NoteHolds, ReplyHolds, Over, InTry,
         InHandler, world, main, threads, Interrupted, Supervise, Exit
    <3>6. \A m \in Notes : beat'[m] # "off" => job'[m] \notin {"none", "queued", "elsewhere"}
      BY <1>17, <1>a DEF WorldTyped, ThreadsTyped, ThreadStates, NoteHolds, ReplyHolds, Over, InTry,
         InHandler, world, main, threads, Interrupted, Supervise, Exit
    <3> QED
      BY <3>1, <3>2, <3>3, <3>4, <3>5, <3>6 DEF ThreadsTyped
  <2> QED
    BY <2>1, <2>2, <2>3, TypeParts, PTL
<1>18. ASSUME NEW n \in Notes, Beating(n) PROVE TypeOK'
  <2>1. WorldTyped'
    BY <1>18, <1>a DEF WorldTyped, world, main, threads, Beating, SendBeat, ExtendVisibility,
       BeatFailed, Reason, AfterReason, InterruptMain, Beats, Live
  <2>2. MainTyped'
    BY <1>18, <1>a, NoneAssumption DEF MainTyped, Failures, NoteHolds, InTry, InHandler, Plan, world,
       main, threads, Beating, SendBeat, ExtendVisibility, BeatFailed, Reason, AfterReason,
       InterruptMain, Beats, Live
  <2>3. ThreadsTyped'
    <3>1. stop' \in [Notes -> BOOLEAN]
      BY <1>18, <1>a DEF WorldTyped, ThreadsTyped, ThreadStates, NoteHolds, ReplyHolds, Over, InTry,
         InHandler, world, main, threads, Beating, SendBeat, ExtendVisibility, BeatFailed, Reason,
         AfterReason, InterruptMain, Beats, Live
    <3>2. reason' \in [Notes -> {None, "lease_lost", "cancelled"}]
      BY <1>18, <1>a DEF WorldTyped, ThreadsTyped, ThreadStates, NoteHolds, ReplyHolds, Over, InTry,
         InHandler, world, main, threads, Beating, SendBeat, ExtendVisibility, BeatFailed, Reason,
         AfterReason, InterruptMain, Beats, Live
    <3>3. beat' \in [Notes -> ThreadStates]
      BY <1>18, <1>a DEF WorldTyped, ThreadsTyped, ThreadStates, NoteHolds, ReplyHolds, Over, InTry,
         InHandler, world, main, threads, Beating, SendBeat, ExtendVisibility, BeatFailed, Reason,
         AfterReason, InterruptMain, Beats, Live
    <3>4. watch' \in [Notes -> ThreadStates]
      BY <1>18, <1>a DEF WorldTyped, ThreadsTyped, ThreadStates, NoteHolds, ReplyHolds, Over, InTry,
         InHandler, world, main, threads, Beating, SendBeat, ExtendVisibility, BeatFailed, Reason,
         AfterReason, InterruptMain, Beats, Live
    <3>5. pending' \in BOOLEAN /\ sigterm' \in BOOLEAN
      BY <1>18, <1>a DEF WorldTyped, ThreadsTyped, ThreadStates, NoteHolds, ReplyHolds, Over, InTry,
         InHandler, world, main, threads, Beating, SendBeat, ExtendVisibility, BeatFailed, Reason,
         AfterReason, InterruptMain, Beats, Live
    <3>6. \A m \in Notes : beat'[m] # "off" => job'[m] \notin {"none", "queued", "elsewhere"}
      BY <1>18, <1>a DEF WorldTyped, ThreadsTyped, ThreadStates, NoteHolds, ReplyHolds, Over, InTry,
         InHandler, world, main, threads, Beating, SendBeat, ExtendVisibility, BeatFailed, Reason,
         AfterReason, InterruptMain, Beats, Live
    <3> QED
      BY <3>1, <3>2, <3>3, <3>4, <3>5, <3>6 DEF ThreadsTyped
  <2> QED
    BY <2>1, <2>2, <2>3, TypeParts, PTL
<1>19. ASSUME NEW n \in Notes, Watching(n) PROVE TypeOK'
  <2>1. WorldTyped'
    BY <1>19, <1>a DEF WorldTyped, world, main, threads, Watching, SendWatch, WatchAnswered, Reason,
       AfterReason, InterruptMain, Live
  <2>2. MainTyped'
    BY <1>19, <1>a, NoneAssumption DEF MainTyped, Failures, NoteHolds, InTry, InHandler, Plan, world,
       main, threads, Watching, SendWatch, WatchAnswered, Reason, AfterReason, InterruptMain, Live
  <2>3. ThreadsTyped'
    <3>1. stop' \in [Notes -> BOOLEAN]
      BY <1>19, <1>a DEF WorldTyped, ThreadsTyped, ThreadStates, NoteHolds, ReplyHolds, Over, InTry,
         InHandler, world, main, threads, Watching, SendWatch, WatchAnswered, Reason, AfterReason,
         InterruptMain, Live
    <3>2. reason' \in [Notes -> {None, "lease_lost", "cancelled"}]
      BY <1>19, <1>a DEF WorldTyped, ThreadsTyped, ThreadStates, NoteHolds, ReplyHolds, Over, InTry,
         InHandler, world, main, threads, Watching, SendWatch, WatchAnswered, Reason, AfterReason,
         InterruptMain, Live
    <3>3. beat' \in [Notes -> ThreadStates]
      BY <1>19, <1>a DEF WorldTyped, ThreadsTyped, ThreadStates, NoteHolds, ReplyHolds, Over, InTry,
         InHandler, world, main, threads, Watching, SendWatch, WatchAnswered, Reason, AfterReason,
         InterruptMain, Live
    <3>4. watch' \in [Notes -> ThreadStates]
      BY <1>19, <1>a DEF WorldTyped, ThreadsTyped, ThreadStates, NoteHolds, ReplyHolds, Over, InTry,
         InHandler, world, main, threads, Watching, SendWatch, WatchAnswered, Reason, AfterReason,
         InterruptMain, Live
    <3>5. pending' \in BOOLEAN /\ sigterm' \in BOOLEAN
      BY <1>19, <1>a DEF WorldTyped, ThreadsTyped, ThreadStates, NoteHolds, ReplyHolds, Over, InTry,
         InHandler, world, main, threads, Watching, SendWatch, WatchAnswered, Reason, AfterReason,
         InterruptMain, Live
    <3>6. \A m \in Notes : beat'[m] # "off" => job'[m] \notin {"none", "queued", "elsewhere"}
      BY <1>19, <1>a DEF WorldTyped, ThreadsTyped, ThreadStates, NoteHolds, ReplyHolds, Over, InTry,
         InHandler, world, main, threads, Watching, SendWatch, WatchAnswered, Reason, AfterReason,
         InterruptMain, Live
    <3> QED
      BY <3>1, <3>2, <3>3, <3>4, <3>5, <3>6 DEF ThreadsTyped
  <2> QED
    BY <2>1, <2>2, <2>3, TypeParts, PTL
<1>20. ASSUME Sigterm PROVE TypeOK'
  BY <1>20, NoneAssumption DEF WorkerHolds, TypeOK, JobStates, ThreadStates, Failures, InTry,
     InHandler, NoteHolds, ReplyHolds, Plan, world, main, threads, Sigterm
<1>21. ASSUME UNCHANGED vars PROVE TypeOK'
  BY <1>21, NoneAssumption DEF WorkerHolds, TypeOK, JobStates, ThreadStates, Failures, InTry,
     InHandler, NoteHolds, ReplyHolds, Plan, world, main, threads, vars
<1> QED
  BY <1>1, <1>2, <1>3, <1>4, <1>5, <1>6, <1>7, <1>8, <1>9, <1>10, <1>11, <1>12, <1>13, <1>14, <1>15,
     <1>16, <1>17, <1>18, <1>19, <1>20, <1>21 DEF Next, Bounded

\* A claim is granted only to a notification that was published; a commit, and an interrupt for
\* a cancellation, are news of an attempt that is over.
LEMMA NoteStep == WorkerHolds /\ [Next]_vars => NoteHolds'
<1> SUFFICES ASSUME WorkerHolds, [Next]_vars PROVE NoteHolds'
  OBVIOUS
<1>a. WorldTyped /\ MainTyped /\ ThreadsTyped /\ NoteHolds /\ ReplyHolds /\ CancelHolds
  BY TypeParts DEF WorkerHolds
<1>b. \A m \in Notes : Moves(m)
  BY JobMoves
<1>1. ASSUME NEW n \in Notes, Receive(n) PROVE NoteHolds'
  BY <1>1, <1>a, <1>b DEF WorldTyped, MainTyped, JobStates, NoteHolds, ReplyHolds, CancelHolds,
     Moves, Over, InTry, InHandler, world, main, threads, Receive
<1>2. ASSUME NEW n \in Notes, TakenElsewhere(n) PROVE NoteHolds'
  BY <1>2, <1>a, <1>b DEF WorldTyped, MainTyped, JobStates, NoteHolds, ReplyHolds, CancelHolds,
     Moves, Over, InTry, InHandler, world, main, threads, TakenElsewhere
<1>3. ASSUME NEW n \in Notes, Reissue(n) PROVE NoteHolds'
  BY <1>3, <1>a, <1>b DEF WorldTyped, MainTyped, JobStates, NoteHolds, ReplyHolds, CancelHolds,
     Moves, Over, InTry, InHandler, world, main, threads, Reissue
<1>4. ASSUME NEW n \in Notes, VisibilityEnds(n) PROVE NoteHolds'
  BY <1>4, <1>a, <1>b DEF WorldTyped, MainTyped, JobStates, NoteHolds, ReplyHolds, CancelHolds,
     Moves, Over, InTry, InHandler, world, main, threads, VisibilityEnds
<1>5. ASSUME NEW n \in Notes, NEW state \in {"retried", "cancelled"}, EndLease(n, state) PROVE NoteHolds'
  BY <1>5, <1>a, <1>b DEF WorldTyped, MainTyped, JobStates, NoteHolds, ReplyHolds, CancelHolds,
     Moves, Over, InTry, InHandler, world, main, threads, EndLease, Live
<1>6. ASSUME Work PROVE NoteHolds'
  BY <1>6, <1>a, <1>b DEF WorldTyped, MainTyped, JobStates, NoteHolds, ReplyHolds, CancelHolds,
     Moves, Over, InTry, InHandler, world, main, threads, Work, Proceed, Report, Abandon, Local
<1>7. ASSUME SendClaim PROVE NoteHolds'
  BY <1>7, <1>a, <1>b DEF WorldTyped, MainTyped, JobStates, NoteHolds, ReplyHolds, CancelHolds,
     Moves, Over, InTry, InHandler, world, main, threads, SendClaim
<1>8. ASSUME ClaimAnswered PROVE NoteHolds'
  BY <1>8, <1>a, <1>b DEF WorldTyped, MainTyped, JobStates, NoteHolds, ReplyHolds, CancelHolds,
     Moves, Over, InTry, InHandler, world, main, threads, ClaimAnswered, Supervise, Acknowledge
<1>9. ASSUME Request PROVE NoteHolds'
  BY <1>9, <1>a, <1>b DEF WorldTyped, MainTyped, JobStates, NoteHolds, ReplyHolds, CancelHolds,
     Moves, Over, InTry, InHandler, world, main, threads, Request, Proceed, Report, Abandon, Local
<1>10. ASSUME SendComplete PROVE NoteHolds'
  BY <1>10, <1>a, <1>b DEF WorldTyped, MainTyped, JobStates, NoteHolds, ReplyHolds, CancelHolds,
     Moves, Over, InTry, InHandler, world, main, threads, SendComplete, Answers, Refusable, Live, Effect
<1>11. ASSUME CompleteAnswered PROVE NoteHolds'
  BY <1>11, <1>a, <1>b DEF WorldTyped, MainTyped, JobStates, NoteHolds, ReplyHolds, CancelHolds,
     Moves, Over, InTry, InHandler, world, main, threads, CompleteAnswered, Report, Abandon
<1>12. ASSUME Settle PROVE NoteHolds'
  BY <1>12, <1>a, <1>b DEF WorldTyped, MainTyped, JobStates, NoteHolds, ReplyHolds, CancelHolds,
     Moves, Over, InTry, InHandler, world, main, threads, Settle, Acknowledge
<1>13. ASSUME SendFailure PROVE NoteHolds'
  BY <1>13, <1>a, <1>b DEF WorldTyped, MainTyped, JobStates, NoteHolds, ReplyHolds, CancelHolds,
     Moves, Over, InTry, InHandler, world, main, threads, SendFailure, Answers, Refusable, Live, Effect
<1>14. ASSUME FailureAnswered PROVE NoteHolds'
  BY <1>14, <1>a, <1>b DEF WorldTyped, MainTyped, JobStates, NoteHolds, ReplyHolds, CancelHolds,
     Moves, Over, InTry, InHandler, world, main, threads, FailureAnswered, SettlesFailure,
     Acknowledge
<1>15. ASSUME SettleCancelled PROVE NoteHolds'
  BY <1>15, <1>a, <1>b DEF WorldTyped, MainTyped, JobStates, NoteHolds, ReplyHolds, CancelHolds,
     Moves, Over, InTry, InHandler, world, main, threads, SettleCancelled, Acknowledge
<1>16. ASSUME Leave PROVE NoteHolds'
  BY <1>16, <1>a, <1>b DEF WorldTyped, MainTyped, JobStates, NoteHolds, ReplyHolds, CancelHolds,
     Moves, Over, InTry, InHandler, world, main, threads, Leave, Supervise, Exit, Lingering
<1>17. ASSUME Interrupted PROVE NoteHolds'
  BY <1>17, <1>a, <1>b DEF WorldTyped, MainTyped, JobStates, NoteHolds, ReplyHolds, CancelHolds,
     Moves, Over, InTry, InHandler, world, main, threads, Interrupted, Supervise, Exit
<1>18. ASSUME NEW n \in Notes, Beating(n) PROVE NoteHolds'
  BY <1>18, <1>a, <1>b DEF WorldTyped, MainTyped, JobStates, NoteHolds, ReplyHolds, CancelHolds,
     Moves, Over, InTry, InHandler, world, main, threads, Beating, SendBeat, ExtendVisibility,
     BeatFailed, Reason, AfterReason, InterruptMain, Beats, Live
<1>19. ASSUME NEW n \in Notes, Watching(n) PROVE NoteHolds'
  BY <1>19, <1>a, <1>b DEF WorldTyped, MainTyped, JobStates, NoteHolds, ReplyHolds, CancelHolds,
     Moves, Over, InTry, InHandler, world, main, threads, Watching, SendWatch, WatchAnswered,
     Reason, AfterReason, InterruptMain, Live
<1>20. ASSUME Sigterm PROVE NoteHolds'
  BY <1>20, <1>a, <1>b DEF WorldTyped, MainTyped, JobStates, NoteHolds, ReplyHolds, CancelHolds,
     Moves, Over, InTry, InHandler, world, main, threads, Sigterm
<1>21. ASSUME UNCHANGED vars PROVE NoteHolds'
  BY <1>21, <1>a, <1>b DEF WorldTyped, MainTyped, JobStates, NoteHolds, ReplyHolds, CancelHolds,
     Moves, Over, InTry, InHandler, world, main, threads, vars
<1> QED
  BY <1>1, <1>2, <1>3, <1>4, <1>5, <1>6, <1>7, <1>8, <1>9, <1>10, <1>11, <1>12, <1>13, <1>14, <1>15,
     <1>16, <1>17, <1>18, <1>19, <1>20, <1>21 DEF Next, Bounded

\* Nothing that a reply says is undone while it is on its way.
LEMMA ReplyStep == WorkerHolds /\ [Next]_vars => ReplyHolds'
<1> SUFFICES ASSUME WorkerHolds, [Next]_vars PROVE ReplyHolds'
  OBVIOUS
<1>a. WorldTyped /\ MainTyped /\ ThreadsTyped /\ NoteHolds /\ ReplyHolds
  BY TypeParts DEF WorkerHolds
<1>b. \A m \in Notes : Moves(m)
  BY JobMoves
<1>1. ASSUME NEW n \in Notes, Receive(n) PROVE ReplyHolds'
  BY <1>1, <1>a, <1>b DEF WorldTyped, MainTyped, JobStates, NoteHolds, ReplyHolds, Moves, Over,
     InTry, InHandler, Failures, world, main, threads, Receive
<1>2. ASSUME NEW n \in Notes, TakenElsewhere(n) PROVE ReplyHolds'
  BY <1>2, <1>a, <1>b DEF WorldTyped, MainTyped, JobStates, NoteHolds, ReplyHolds, Moves, Over,
     InTry, InHandler, Failures, world, main, threads, TakenElsewhere
<1>3. ASSUME NEW n \in Notes, Reissue(n) PROVE ReplyHolds'
  BY <1>3, <1>a, <1>b DEF WorldTyped, MainTyped, JobStates, NoteHolds, ReplyHolds, Moves, Over,
     InTry, InHandler, Failures, world, main, threads, Reissue
<1>4. ASSUME NEW n \in Notes, VisibilityEnds(n) PROVE ReplyHolds'
  BY <1>4, <1>a, <1>b DEF WorldTyped, MainTyped, JobStates, NoteHolds, ReplyHolds, Moves, Over,
     InTry, InHandler, Failures, world, main, threads, VisibilityEnds
<1>5. ASSUME NEW n \in Notes, NEW state \in {"retried", "cancelled"}, EndLease(n, state) PROVE ReplyHolds'
  BY <1>5, <1>a, <1>b DEF WorldTyped, MainTyped, JobStates, NoteHolds, ReplyHolds, Moves, Over,
     InTry, InHandler, Failures, world, main, threads, EndLease, Live
<1>6. ASSUME Work PROVE ReplyHolds'
  BY <1>6, <1>a, <1>b DEF WorldTyped, MainTyped, JobStates, NoteHolds, ReplyHolds, Moves, Over,
     InTry, InHandler, Failures, world, main, threads, Work, Proceed, Report, Abandon, Local
<1>7. ASSUME SendClaim PROVE ReplyHolds'
  BY <1>7, <1>a, <1>b DEF WorldTyped, MainTyped, JobStates, NoteHolds, ReplyHolds, Moves, Over,
     InTry, InHandler, Failures, world, main, threads, SendClaim
<1>8. ASSUME ClaimAnswered PROVE ReplyHolds'
  BY <1>8, <1>a, <1>b DEF WorldTyped, MainTyped, JobStates, NoteHolds, ReplyHolds, Moves, Over,
     InTry, InHandler, Failures, world, main, threads, ClaimAnswered, Supervise, Acknowledge
<1>9. ASSUME Request PROVE ReplyHolds'
  BY <1>9, <1>a, <1>b DEF WorldTyped, MainTyped, JobStates, NoteHolds, ReplyHolds, Moves, Over,
     InTry, InHandler, Failures, world, main, threads, Request, Proceed, Report, Abandon, Local
<1>10. ASSUME SendComplete PROVE ReplyHolds'
  BY <1>10, <1>a, <1>b DEF WorldTyped, MainTyped, JobStates, NoteHolds, ReplyHolds, Moves, Over,
     InTry, InHandler, Failures, world, main, threads, SendComplete, Answers, Refusable, Live, Effect
<1>11. ASSUME CompleteAnswered PROVE ReplyHolds'
  BY <1>11, <1>a, <1>b DEF WorldTyped, MainTyped, JobStates, NoteHolds, ReplyHolds, Moves, Over,
     InTry, InHandler, Failures, world, main, threads, CompleteAnswered, Report, Abandon
<1>12. ASSUME Settle PROVE ReplyHolds'
  BY <1>12, <1>a, <1>b DEF WorldTyped, MainTyped, JobStates, NoteHolds, ReplyHolds, Moves, Over,
     InTry, InHandler, Failures, world, main, threads, Settle, Acknowledge
<1>13. ASSUME SendFailure PROVE ReplyHolds'
  BY <1>13, <1>a, <1>b DEF WorldTyped, MainTyped, JobStates, NoteHolds, ReplyHolds, Moves, Over,
     InTry, InHandler, Failures, world, main, threads, SendFailure, Answers, Refusable, Live, Effect
<1>14. ASSUME FailureAnswered PROVE ReplyHolds'
  BY <1>14, <1>a, <1>b DEF WorldTyped, MainTyped, JobStates, NoteHolds, ReplyHolds, Moves, Over,
     InTry, InHandler, Failures, world, main, threads, FailureAnswered, SettlesFailure, Acknowledge
<1>15. ASSUME SettleCancelled PROVE ReplyHolds'
  BY <1>15, <1>a, <1>b DEF WorldTyped, MainTyped, JobStates, NoteHolds, ReplyHolds, Moves, Over,
     InTry, InHandler, Failures, world, main, threads, SettleCancelled, Acknowledge
<1>16. ASSUME Leave PROVE ReplyHolds'
  BY <1>16, <1>a, <1>b DEF WorldTyped, MainTyped, JobStates, NoteHolds, ReplyHolds, Moves, Over,
     InTry, InHandler, Failures, world, main, threads, Leave, Supervise, Exit, Lingering
<1>17. ASSUME Interrupted PROVE ReplyHolds'
  BY <1>17, <1>a, <1>b DEF WorldTyped, MainTyped, JobStates, NoteHolds, ReplyHolds, Moves, Over,
     InTry, InHandler, Failures, world, main, threads, Interrupted, Supervise, Exit
<1>18. ASSUME NEW n \in Notes, Beating(n) PROVE ReplyHolds'
  BY <1>18, <1>a, <1>b DEF WorldTyped, MainTyped, JobStates, NoteHolds, ReplyHolds, Moves, Over,
     InTry, InHandler, Failures, world, main, threads, Beating, SendBeat, ExtendVisibility,
     BeatFailed, Reason, AfterReason, InterruptMain, Beats, Live
<1>19. ASSUME NEW n \in Notes, Watching(n) PROVE ReplyHolds'
  BY <1>19, <1>a, <1>b DEF WorldTyped, MainTyped, JobStates, NoteHolds, ReplyHolds, Moves, Over,
     InTry, InHandler, Failures, world, main, threads, Watching, SendWatch, WatchAnswered, Reason,
     AfterReason, InterruptMain, Live
<1>20. ASSUME Sigterm PROVE ReplyHolds'
  BY <1>20, <1>a, <1>b DEF WorldTyped, MainTyped, JobStates, NoteHolds, ReplyHolds, Moves, Over,
     InTry, InHandler, Failures, world, main, threads, Sigterm
<1>21. ASSUME UNCHANGED vars PROVE ReplyHolds'
  BY <1>21, <1>a, <1>b DEF WorldTyped, MainTyped, JobStates, NoteHolds, ReplyHolds, Moves, Over,
     InTry, InHandler, Failures, world, main, threads, vars
<1> QED
  BY <1>1, <1>2, <1>3, <1>4, <1>5, <1>6, <1>7, <1>8, <1>9, <1>10, <1>11, <1>12, <1>13, <1>14, <1>15,
     <1>16, <1>17, <1>18, <1>19, <1>20, <1>21 DEF Next, Bounded

\* Only an answer that the job is cancelled makes the reason "cancelled".
LEMMA CancelStep == WorkerHolds /\ [Next]_vars => CancelHolds'
<1> SUFFICES ASSUME WorkerHolds, [Next]_vars PROVE CancelHolds'
  OBVIOUS
<1>a. WorldTyped /\ MainTyped /\ ThreadsTyped /\ CancelHolds /\ NoteHolds
  BY TypeParts DEF WorkerHolds
<1>b. \A m \in Notes : Moves(m)
  BY JobMoves
<1>1. ASSUME NEW n \in Notes, Receive(n) PROVE CancelHolds'
  BY <1>1, <1>a, <1>b, NoneAssumption DEF WorldTyped, MainTyped, JobStates, ThreadsTyped,
     CancelHolds, NoteHolds, Moves, Over, world, main, threads, Receive
<1>2. ASSUME NEW n \in Notes, TakenElsewhere(n) PROVE CancelHolds'
  BY <1>2, <1>a, <1>b, NoneAssumption DEF WorldTyped, MainTyped, JobStates, ThreadsTyped,
     CancelHolds, NoteHolds, Moves, Over, world, main, threads, TakenElsewhere
<1>3. ASSUME NEW n \in Notes, Reissue(n) PROVE CancelHolds'
  BY <1>3, <1>a, <1>b, NoneAssumption DEF WorldTyped, MainTyped, JobStates, ThreadsTyped,
     CancelHolds, NoteHolds, Moves, Over, world, main, threads, Reissue
<1>4. ASSUME NEW n \in Notes, VisibilityEnds(n) PROVE CancelHolds'
  BY <1>4, <1>a, <1>b, NoneAssumption DEF WorldTyped, MainTyped, JobStates, ThreadsTyped,
     CancelHolds, NoteHolds, Moves, Over, world, main, threads, VisibilityEnds
<1>5. ASSUME NEW n \in Notes, NEW state \in {"retried", "cancelled"}, EndLease(n, state) PROVE CancelHolds'
  BY <1>5, <1>a, <1>b, NoneAssumption DEF WorldTyped, MainTyped, JobStates, ThreadsTyped,
     CancelHolds, NoteHolds, Moves, Over, world, main, threads, EndLease, Live
<1>6. ASSUME Work PROVE CancelHolds'
  BY <1>6, <1>a, <1>b, NoneAssumption DEF WorldTyped, MainTyped, JobStates, ThreadsTyped,
     CancelHolds, NoteHolds, Moves, Over, world, main, threads, Work, Proceed, Report, Abandon,
     Local
<1>7. ASSUME SendClaim PROVE CancelHolds'
  BY <1>7, <1>a, <1>b, NoneAssumption DEF WorldTyped, MainTyped, JobStates, ThreadsTyped,
     CancelHolds, NoteHolds, Moves, Over, world, main, threads, SendClaim
<1>8. ASSUME ClaimAnswered PROVE CancelHolds'
  BY <1>8, <1>a, <1>b, NoneAssumption DEF WorldTyped, MainTyped, JobStates, ThreadsTyped,
     CancelHolds, NoteHolds, Moves, Over, world, main, threads, ClaimAnswered, Supervise,
     Acknowledge
<1>9. ASSUME Request PROVE CancelHolds'
  BY <1>9, <1>a, <1>b, NoneAssumption DEF WorldTyped, MainTyped, JobStates, ThreadsTyped,
     CancelHolds, NoteHolds, Moves, Over, world, main, threads, Request, Proceed, Report, Abandon,
     Local
<1>10. ASSUME SendComplete PROVE CancelHolds'
  BY <1>10, <1>a, <1>b, NoneAssumption DEF WorldTyped, MainTyped, JobStates, ThreadsTyped,
     CancelHolds, NoteHolds, Moves, Over, world, main, threads, SendComplete, Answers, Refusable, Live, Effect
<1>11. ASSUME CompleteAnswered PROVE CancelHolds'
  BY <1>11, <1>a, <1>b, NoneAssumption DEF WorldTyped, MainTyped, JobStates, ThreadsTyped,
     CancelHolds, NoteHolds, Moves, Over, world, main, threads, CompleteAnswered, Report, Abandon
<1>12. ASSUME Settle PROVE CancelHolds'
  BY <1>12, <1>a, <1>b, NoneAssumption DEF WorldTyped, MainTyped, JobStates, ThreadsTyped,
     CancelHolds, NoteHolds, Moves, Over, world, main, threads, Settle, Acknowledge
<1>13. ASSUME SendFailure PROVE CancelHolds'
  BY <1>13, <1>a, <1>b, NoneAssumption DEF WorldTyped, MainTyped, JobStates, ThreadsTyped,
     CancelHolds, NoteHolds, Moves, Over, world, main, threads, SendFailure, Answers, Refusable, Live, Effect
<1>14. ASSUME FailureAnswered PROVE CancelHolds'
  BY <1>14, <1>a, <1>b, NoneAssumption DEF WorldTyped, MainTyped, JobStates, ThreadsTyped,
     CancelHolds, NoteHolds, Moves, Over, world, main, threads, FailureAnswered, SettlesFailure,
     Acknowledge
<1>15. ASSUME SettleCancelled PROVE CancelHolds'
  BY <1>15, <1>a, <1>b, NoneAssumption DEF WorldTyped, MainTyped, JobStates, ThreadsTyped,
     CancelHolds, NoteHolds, Moves, Over, world, main, threads, SettleCancelled, Acknowledge
<1>16. ASSUME Leave PROVE CancelHolds'
  BY <1>16, <1>a, <1>b, NoneAssumption DEF WorldTyped, MainTyped, JobStates, ThreadsTyped,
     CancelHolds, NoteHolds, Moves, Over, world, main, threads, Leave, Supervise, Exit, Lingering
<1>17. ASSUME Interrupted PROVE CancelHolds'
  BY <1>17, <1>a, <1>b, NoneAssumption DEF WorldTyped, MainTyped, JobStates, ThreadsTyped,
     CancelHolds, NoteHolds, Moves, Over, world, main, threads, Interrupted, Supervise, Exit
<1>18. ASSUME NEW n \in Notes, Beating(n) PROVE CancelHolds'
  BY <1>18, <1>a, <1>b, NoneAssumption DEF WorldTyped, MainTyped, JobStates, ThreadsTyped,
     CancelHolds, NoteHolds, Moves, Over, world, main, threads, Beating, SendBeat, ExtendVisibility,
     BeatFailed, Reason, AfterReason, InterruptMain, Beats, Live
<1>19. ASSUME NEW n \in Notes, Watching(n) PROVE CancelHolds'
  BY <1>19, <1>a, <1>b, NoneAssumption DEF WorldTyped, MainTyped, JobStates, ThreadsTyped,
     CancelHolds, NoteHolds, Moves, Over, world, main, threads, Watching, SendWatch, WatchAnswered,
     Reason, AfterReason, InterruptMain, Live
<1>20. ASSUME Sigterm PROVE CancelHolds'
  BY <1>20, <1>a, <1>b, NoneAssumption DEF WorldTyped, MainTyped, JobStates, ThreadsTyped,
     CancelHolds, NoteHolds, Moves, Over, world, main, threads, Sigterm
<1>21. ASSUME UNCHANGED vars PROVE CancelHolds'
  BY <1>21, <1>a, <1>b, NoneAssumption DEF WorldTyped, MainTyped, JobStates, ThreadsTyped,
     CancelHolds, NoteHolds, Moves, Over, world, main, threads, vars
<1> QED
  BY <1>1, <1>2, <1>3, <1>4, <1>5, <1>6, <1>7, <1>8, <1>9, <1>10, <1>11, <1>12, <1>13, <1>14, <1>15,
     <1>16, <1>17, <1>18, <1>19, <1>20, <1>21 DEF Next, Bounded

\* A heartbeat that was answered is applied once, and no other is answered after the lease is gone.
LEMMA LateStep == WorkerHolds /\ [Next]_vars => LateHolds'
<1> SUFFICES ASSUME WorkerHolds, [Next]_vars PROVE LateHolds'
  OBVIOUS
<1>a. WorldTyped /\ MainTyped /\ ThreadsTyped /\ LateHolds /\ NoteHolds /\ ReplyHolds
  BY TypeParts DEF WorkerHolds
<1>b. \A m \in Notes : Moves(m)
  BY JobMoves
<1>1. ASSUME NEW n \in Notes, Receive(n) PROVE LateHolds'
  BY <1>1, <1>a, <1>b DEF WorldTyped, MainTyped, JobStates, ThreadsTyped, LateHolds, NoteHolds,
     ReplyHolds, Moves, Over, world, main, threads, Receive
<1>2. ASSUME NEW n \in Notes, TakenElsewhere(n) PROVE LateHolds'
  BY <1>2, <1>a, <1>b DEF WorldTyped, MainTyped, JobStates, ThreadsTyped, LateHolds, NoteHolds,
     ReplyHolds, Moves, Over, world, main, threads, TakenElsewhere
<1>3. ASSUME NEW n \in Notes, Reissue(n) PROVE LateHolds'
  BY <1>3, <1>a, <1>b DEF WorldTyped, MainTyped, JobStates, ThreadsTyped, LateHolds, NoteHolds,
     ReplyHolds, Moves, Over, world, main, threads, Reissue
<1>4. ASSUME NEW n \in Notes, VisibilityEnds(n) PROVE LateHolds'
  BY <1>4, <1>a, <1>b DEF WorldTyped, MainTyped, JobStates, ThreadsTyped, LateHolds, NoteHolds,
     ReplyHolds, Moves, Over, world, main, threads, VisibilityEnds
<1>5. ASSUME NEW n \in Notes, NEW state \in {"retried", "cancelled"}, EndLease(n, state) PROVE LateHolds'
  BY <1>5, <1>a, <1>b DEF WorldTyped, MainTyped, JobStates, ThreadsTyped, LateHolds, NoteHolds,
     ReplyHolds, Moves, Over, world, main, threads, EndLease, Live
<1>6. ASSUME Work PROVE LateHolds'
  BY <1>6, <1>a, <1>b DEF WorldTyped, MainTyped, JobStates, ThreadsTyped, LateHolds, NoteHolds,
     ReplyHolds, Moves, Over, world, main, threads, Work, Proceed, Report, Abandon, Local
<1>7. ASSUME SendClaim PROVE LateHolds'
  BY <1>7, <1>a, <1>b DEF WorldTyped, MainTyped, JobStates, ThreadsTyped, LateHolds, NoteHolds,
     ReplyHolds, Moves, Over, world, main, threads, SendClaim
<1>8. ASSUME ClaimAnswered PROVE LateHolds'
  BY <1>8, <1>a, <1>b DEF WorldTyped, MainTyped, JobStates, ThreadsTyped, LateHolds, NoteHolds,
     ReplyHolds, Moves, Over, world, main, threads, ClaimAnswered, Supervise, Acknowledge
<1>9. ASSUME Request PROVE LateHolds'
  BY <1>9, <1>a, <1>b DEF WorldTyped, MainTyped, JobStates, ThreadsTyped, LateHolds, NoteHolds,
     ReplyHolds, Moves, Over, world, main, threads, Request, Proceed, Report, Abandon, Local
<1>10. ASSUME SendComplete PROVE LateHolds'
  BY <1>10, <1>a, <1>b DEF WorldTyped, MainTyped, JobStates, ThreadsTyped, LateHolds, NoteHolds,
     ReplyHolds, Moves, Over, world, main, threads, SendComplete, Answers, Refusable, Live, Effect
<1>11. ASSUME CompleteAnswered PROVE LateHolds'
  BY <1>11, <1>a, <1>b DEF WorldTyped, MainTyped, JobStates, ThreadsTyped, LateHolds, NoteHolds,
     ReplyHolds, Moves, Over, world, main, threads, CompleteAnswered, Report, Abandon
<1>12. ASSUME Settle PROVE LateHolds'
  BY <1>12, <1>a, <1>b DEF WorldTyped, MainTyped, JobStates, ThreadsTyped, LateHolds, NoteHolds,
     ReplyHolds, Moves, Over, world, main, threads, Settle, Acknowledge
<1>13. ASSUME SendFailure PROVE LateHolds'
  BY <1>13, <1>a, <1>b DEF WorldTyped, MainTyped, JobStates, ThreadsTyped, LateHolds, NoteHolds,
     ReplyHolds, Moves, Over, world, main, threads, SendFailure, Answers, Refusable, Live, Effect
<1>14. ASSUME FailureAnswered PROVE LateHolds'
  BY <1>14, <1>a, <1>b DEF WorldTyped, MainTyped, JobStates, ThreadsTyped, LateHolds, NoteHolds,
     ReplyHolds, Moves, Over, world, main, threads, FailureAnswered, SettlesFailure, Acknowledge
<1>15. ASSUME SettleCancelled PROVE LateHolds'
  BY <1>15, <1>a, <1>b DEF WorldTyped, MainTyped, JobStates, ThreadsTyped, LateHolds, NoteHolds,
     ReplyHolds, Moves, Over, world, main, threads, SettleCancelled, Acknowledge
<1>16. ASSUME Leave PROVE LateHolds'
  BY <1>16, <1>a, <1>b DEF WorldTyped, MainTyped, JobStates, ThreadsTyped, LateHolds, NoteHolds,
     ReplyHolds, Moves, Over, world, main, threads, Leave, Supervise, Exit, Lingering
<1>17. ASSUME Interrupted PROVE LateHolds'
  BY <1>17, <1>a, <1>b DEF WorldTyped, MainTyped, JobStates, ThreadsTyped, LateHolds, NoteHolds,
     ReplyHolds, Moves, Over, world, main, threads, Interrupted, Supervise, Exit
<1>18. ASSUME NEW n \in Notes, Beating(n) PROVE LateHolds'
  BY <1>18, <1>a, <1>b DEF WorldTyped, MainTyped, JobStates, ThreadsTyped, LateHolds, NoteHolds,
     ReplyHolds, Moves, Over, world, main, threads, Beating, SendBeat, ExtendVisibility, BeatFailed,
     Reason, AfterReason, InterruptMain, Beats, Live
<1>19. ASSUME NEW n \in Notes, Watching(n) PROVE LateHolds'
  BY <1>19, <1>a, <1>b DEF WorldTyped, MainTyped, JobStates, ThreadsTyped, LateHolds, NoteHolds,
     ReplyHolds, Moves, Over, world, main, threads, Watching, SendWatch, WatchAnswered, Reason,
     AfterReason, InterruptMain, Live
<1>20. ASSUME Sigterm PROVE LateHolds'
  BY <1>20, <1>a, <1>b DEF WorldTyped, MainTyped, JobStates, ThreadsTyped, LateHolds, NoteHolds,
     ReplyHolds, Moves, Over, world, main, threads, Sigterm
<1>21. ASSUME UNCHANGED vars PROVE LateHolds'
  BY <1>21, <1>a, <1>b DEF WorldTyped, MainTyped, JobStates, ThreadsTyped, LateHolds, NoteHolds,
     ReplyHolds, Moves, Over, world, main, threads, vars
<1> QED
  BY <1>1, <1>2, <1>3, <1>4, <1>5, <1>6, <1>7, <1>8, <1>9, <1>10, <1>11, <1>12, <1>13, <1>14, <1>15,
     <1>16, <1>17, <1>18, <1>19, <1>20, <1>21 DEF Next, Bounded

\* The worker starts idle, with one notification of a queued job.
LEMMA WorkerHoldsInit == Init => WorkerHolds
<1> SUFFICES ASSUME Init PROVE WorkerHolds
  OBVIOUS
<1>1. TypeOK
  BY AttemptsAssumption DEF Init, TypeOK, JobStates, ThreadStates, InTry, InHandler
<1>2. NoteHolds /\ ReplyHolds
  BY DEF Init, NoteHolds, ReplyHolds
<1>3. CancelHolds /\ LateHolds
  BY NoneAssumption DEF Init, CancelHolds, LateHolds
<1> QED
  BY <1>1, <1>2, <1>3 DEF WorkerHolds

\* The worker's knowledge of the job is never refuted.
THEOREM WorkerKnows == Spec => []WorkerHolds
<1>1. WorkerHolds /\ [Next]_vars => WorkerHolds'
  BY TypeStep, NoteStep, ReplyStep, CancelStep, LateStep DEF WorkerHolds
<1> QED
  BY <1>1, WorkerHoldsInit, PTL DEF Spec

\* tracewake/worker.py and the acknowledgement matrix of its contract: whatever
\* replies are lost and wherever an interrupt arrives, a message is deleted only
\* when its claim is durably refused or its attempt is over.
THEOREM MessagesSettleLast == Spec => SettledIsDurable
<1> DEFINE Settled ==
        \A n \in Notes : queue[n] # "deleted" /\ queue'[n] = "deleted" =>
            IF pc = "claiming" THEN job[n] # "queued"
            ELSE job[n] \in {"succeeded", "failed", "retried", "cancelled"}
<1>1. ASSUME WorkerHolds, [Next]_vars PROVE [Settled]_vars
  <2> SUFFICES ASSUME Next PROVE Settled
    BY <1>1
  <2>a. WorldTyped /\ MainTyped /\ NoteHolds /\ ReplyHolds
    BY <1>1, TypeParts DEF WorkerHolds
  <2>1. ASSUME NEW n \in Notes, Receive(n) PROVE Settled
    BY <2>1, <2>a DEF WorldTyped, NoteHolds, ReplyHolds, Over, world, main, threads, Receive
  <2>2. ASSUME NEW n \in Notes, TakenElsewhere(n) PROVE Settled
    BY <2>2, <2>a DEF WorldTyped, NoteHolds, ReplyHolds, Over, world, main, threads, TakenElsewhere
  <2>3. ASSUME NEW n \in Notes, Reissue(n) PROVE Settled
    BY <2>3, <2>a DEF WorldTyped, NoteHolds, ReplyHolds, Over, world, main, threads, Reissue
  <2>4. ASSUME NEW n \in Notes, VisibilityEnds(n) PROVE Settled
    BY <2>4, <2>a DEF WorldTyped, NoteHolds, ReplyHolds, Over, world, main, threads, VisibilityEnds
  <2>5. ASSUME NEW n \in Notes, NEW state \in {"retried", "cancelled"}, EndLease(n, state) PROVE Settled
    BY <2>5, <2>a DEF WorldTyped, NoteHolds, ReplyHolds, Over, world, main, threads, EndLease, Live
  <2>6. ASSUME Work PROVE Settled
    BY <2>6, <2>a DEF WorldTyped, NoteHolds, ReplyHolds, Over, world, main, threads, Work, Proceed,
       Report, Abandon, Local
  <2>7. ASSUME SendClaim PROVE Settled
    BY <2>7, <2>a DEF WorldTyped, NoteHolds, ReplyHolds, Over, world, main, threads, SendClaim
  <2>8. ASSUME ClaimAnswered PROVE Settled
    BY <2>8, <2>a DEF WorldTyped, NoteHolds, ReplyHolds, Over, world, main, threads, ClaimAnswered,
       Supervise, Acknowledge
  <2>9. ASSUME Request PROVE Settled
    BY <2>9, <2>a DEF WorldTyped, NoteHolds, ReplyHolds, Over, world, main, threads, Request,
       Proceed, Report, Abandon, Local
  <2>10. ASSUME SendComplete PROVE Settled
    BY <2>10, <2>a DEF WorldTyped, NoteHolds, ReplyHolds, Over, world, main, threads, SendComplete,
       Answers, Refusable, Live, Effect
  <2>11. ASSUME CompleteAnswered PROVE Settled
    BY <2>11, <2>a DEF WorldTyped, NoteHolds, ReplyHolds, Over, world, main, threads,
       CompleteAnswered, Report, Abandon
  <2>12. ASSUME Settle PROVE Settled
    BY <2>12, <2>a DEF WorldTyped, NoteHolds, ReplyHolds, Over, world, main, threads, Settle,
       Acknowledge
  <2>13. ASSUME SendFailure PROVE Settled
    BY <2>13, <2>a DEF WorldTyped, NoteHolds, ReplyHolds, Over, world, main, threads, SendFailure,
       Answers, Refusable, Live, Effect
  <2>14. ASSUME FailureAnswered PROVE Settled
    BY <2>14, <2>a DEF WorldTyped, NoteHolds, ReplyHolds, Over, world, main, threads,
       FailureAnswered, SettlesFailure, Acknowledge
  <2>15. ASSUME SettleCancelled PROVE Settled
    BY <2>15, <2>a DEF WorldTyped, NoteHolds, ReplyHolds, Over, world, main, threads,
       SettleCancelled, Acknowledge
  <2>16. ASSUME Leave PROVE Settled
    BY <2>16, <2>a DEF WorldTyped, NoteHolds, ReplyHolds, Over, world, main, threads, Leave,
       Supervise, Exit, Lingering
  <2>17. ASSUME Interrupted PROVE Settled
    BY <2>17, <2>a DEF WorldTyped, NoteHolds, ReplyHolds, Over, world, main, threads, Interrupted,
       Supervise, Exit
  <2>18. ASSUME NEW n \in Notes, Beating(n) PROVE Settled
    BY <2>18, <2>a DEF WorldTyped, NoteHolds, ReplyHolds, Over, world, main, threads, Beating,
       SendBeat, ExtendVisibility, BeatFailed, Reason, AfterReason, InterruptMain, Beats, Live
  <2>19. ASSUME NEW n \in Notes, Watching(n) PROVE Settled
    BY <2>19, <2>a DEF WorldTyped, NoteHolds, ReplyHolds, Over, world, main, threads, Watching,
       SendWatch, WatchAnswered, Reason, AfterReason, InterruptMain, Live
  <2>20. ASSUME Sigterm PROVE Settled
    BY <2>20, <2>a DEF WorldTyped, NoteHolds, ReplyHolds, Over, world, main, threads, Sigterm
  <2> QED
    BY <2>1, <2>2, <2>3, <2>4, <2>5, <2>6, <2>7, <2>8, <2>9, <2>10, <2>11, <2>12, <2>13, <2>14,
       <2>15, <2>16, <2>17, <2>18, <2>19, <2>20 DEF Next, Bounded
<1> QED
  BY <1>1, WorkerKnows, PTL DEF Spec, SettledIsDurable

\* _heartbeat: however the threads of an attempt interleave with the end of its
\* lease, at most one renewal of the message's visibility comes after that.
THEOREM FencedWorkerIsBounded == Spec => [](TypeOK /\ FencedStopsHolding)
<1>1. WorkerHolds => TypeOK /\ FencedStopsHolding
  BY DEF WorkerHolds, LateHolds, TypeOK, FencedStopsHolding
<1> QED
  BY <1>1, WorkerKnows, PTL
=============================================================================
