----------------------------- MODULE BenchAgent -----------------------------
(***************************************************************************)
(* The agent of the benchmark, bench/agent.py: one turn per reply of the   *)
(* model, with a budget of actions, a budget of turns, old observations    *)
(* dropped from the context and repeated actions refused.                  *)
(*                                                                         *)
(* An action is a record [name, arg]; it is its own signature.  What an    *)
(* action returns depends on the files, known by the number of changes     *)
(* made to them.                                                           *)
(***************************************************************************)
EXTENDS Naturals, Sequences, FiniteSets

CONSTANTS
    Actions,           \* what the model may ask for, edits and others
    MaxSteps,          \* max_steps
    KeepObservations,  \* KEEP_OBSERVATIONS
    MaxStalls          \* MAX_CONSECUTIVE_STALLS

ASSUME BudgetsAssumption == MaxSteps \in Nat /\ KeepObservations \in Nat /\ MaxStalls \in Nat

VARIABLES
    trace,        \* the Trace: counters and stop_reason
    taken,        \* set of <<signature, step>>: what would be a repeat
    observations, \* sequence of [sig, step, change]
    change,       \* changes made to the files so far
    broke,        \* the change after which a file last failed to compile, or 0
    said          \* what the last turn did: [kind, sig, step]

agentVars == <<trace, taken, observations, change, broke, said>>

Silent == [kind |-> "none", sig |-> [name |-> "none", arg |-> 0], step |-> 0]

AgentInit ==
    /\ trace = [turns |-> 0, actions |-> 0, stalled |-> 0, parse |-> 0, repeats |-> 0,
                edits |-> 0, stop |-> "running"]
    /\ taken = {} /\ observations = <<>> /\ change = 0 /\ broke = 0 /\ said = Silent

Looping == trace.stop = "running"

\* The condition of the loop.
InBudget == trace.actions < MaxSteps /\ trace.turns < 2 * MaxSteps

\* The observations the model still sees in full (_context).
Visible ==
    LET n == Len(observations)
    IN {observations[k] : k \in {j \in 1 .. n : j > n - KeepObservations}}
Stale ==
    LET n == Len(observations)
    IN {observations[k].sig : k \in {j \in 1 .. n : j <= n - KeepObservations}}

\* Fault: what was dropped from the context still counts as a repeat.
RememberedAll == taken

\* A dropped observation makes its action worth taking again.
Remembered == {t \in taken : t[1] \notin Stale}

\* The loop ends by its condition, or because the model is stuck.
Stop ==
    /\ Looping
    /\ ~InBudget \/ trace.stalled >= MaxStalls
    /\ trace' = [trace EXCEPT !.stop = IF InBudget THEN "stuck" ELSE "step_budget"]
    /\ said' = Silent
    /\ UNCHANGED <<taken, observations, change, broke>>

Turning == Looping /\ InBudget /\ trace.stalled < MaxStalls

\* A reply without an action.
NoAction ==
    /\ Turning
    /\ trace' = [trace EXCEPT !.turns = @ + 1, !.parse = @ + 1, !.stalled = @ + 1]
    /\ taken' = Remembered /\ said' = Silent
    /\ UNCHANGED <<observations, change, broke>>

Submit ==
    /\ Turning
    /\ trace' = [trace EXCEPT !.turns = @ + 1, !.stop = "submitted"]
    /\ taken' = Remembered /\ said' = Silent
    /\ UNCHANGED <<observations, change, broke>>

\* The action was taken before: it is refused, and charged nothing.
Refuse(a) ==
    /\ Turning
    /\ \E t \in Remembered :
           t[1] = a /\ said' = [kind |-> "refused", sig |-> a, step |-> t[2]]
    /\ trace' = [trace EXCEPT !.turns = @ + 1, !.repeats = @ + 1, !.stalled = @ + 1]
    /\ taken' = Remembered
    /\ UNCHANGED <<observations, change, broke>>

\* An edit that is reported as done makes every other action new again.
TakenAfter(a, step, ok) ==
    IF a.name = "edit" /\ ok THEN {<<a, step>>} ELSE Remembered \cup {<<a, step>>}

\* The action is dispatched.  An edit is done, or it is written and leaves a
\* file that does not compile (reported as an error), or it matches nothing.
Dispatch(a, result) ==
    LET step == trace.actions + 1
        writes == a.name = "edit" /\ result \in {"ok", "broken"}
    IN /\ Turning
       /\ \A t \in Remembered : t[1] # a
       /\ a.name # "edit" => result = "ok"
       /\ trace' = [trace EXCEPT !.turns = @ + 1, !.actions = step, !.stalled = 0,
                                 !.edits = IF a.name = "edit" /\ result = "ok" THEN @ + 1 ELSE @]
       /\ change' = IF writes THEN change + 1 ELSE change
       /\ broke' = IF writes /\ result = "broken" THEN change' ELSE broke
       /\ taken' = TakenAfter(a, step, result = "ok")
       /\ observations' = Append(observations, [sig |-> a, step |-> step, change |-> change'])
       /\ said' = [kind |-> "dispatched", sig |-> a, step |-> step]

AgentNext ==
    \/ Stop \/ NoAction \/ Submit
    \/ \E a \in Actions : Refuse(a)
    \/ \E a \in Actions, result \in {"ok", "broken", "nomatch"} : Dispatch(a, result)

AgentSpec == AgentInit /\ [][AgentNext]_agentVars

-----------------------------------------------------------------------------
\* "its output is above. Repeating it will return the same thing": what a
\* refused action returned is still in the context, and no file has changed
\* since.  An edit that left a file which does not compile is excepted: it is
\* written and reported as an error, and the actions before it stay refused.
RefusalsAreTrue ==
    said.kind = "refused" =>
        \E o \in Visible :
            /\ o.sig = said.sig /\ o.step = said.step
            /\ said.sig.name # "edit" /\ change # o.change => broke > o.change

\* Every turn is accounted for, neither budget is exceeded, and the reason a
\* run stopped is the one that held.
BudgetsHold ==
    /\ trace.turns = trace.actions + trace.parse + trace.repeats
                     + (IF trace.stop = "submitted" THEN 1 ELSE 0)
    /\ trace.actions <= MaxSteps /\ trace.turns <= 2 * MaxSteps
    /\ trace.stalled <= MaxStalls
    /\ trace.stop = "stuck" => trace.stalled = MaxStalls /\ trace.turns < 2 * MaxSteps
    /\ trace.stop = "step_budget" => ~InBudget

\* What the agent of the benchmark tells the model and the trace is true.
AgentAccounts == RefusalsAreTrue /\ BudgetsHold
=============================================================================
