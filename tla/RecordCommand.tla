---------------------------- MODULE RecordCommand ----------------------------
(***************************************************************************)
(* `tracewake record`, `replay` and `intervene` (tracewake/cli.py): the    *)
(* command starts the program as a child, the child opens the session,     *)
(* announces its run in a file, closes the session when it ends and leaves *)
(* a report in a second file; the command settles the row from what it     *)
(* finds.  Environment and files are inherited, so a Python process the    *)
(* program starts itself goes through the same steps.                      *)
(*                                                                         *)
(* A schedule says which process takes its next step; a process that has   *)
(* taken fewer than all of them was killed.                                *)
(***************************************************************************)
EXTENDS Integers, Sequences, FiniteSets, SequencesExt, TLC

\* What a process of the command is, at its start and after its steps: open,
\* announce, close, report.
Unstarted == [done |-> 0, row |-> "none", records |-> FALSE]

\* _open_session and Store.find: the run a process works on.  A name finds the
\* newest run of that name, that is the one a process of this command made.
Found(mode, rows) ==
    IF mode \in {"all", "fork"} THEN "none"
    ELSE IF "child" \in DOMAIN rows THEN "child"
    ELSE IF "old" \in DOMAIN rows THEN "old" ELSE "none"

Opened(state, mode, proc) ==
    LET found == Found(mode, state.rows)
        row == IF found = "none" THEN proc ELSE found
        records == mode \in {"all", "fork", "new_episodes"} \/ (mode = "once" /\ found = "none")
        opened == [done |-> 1, row |-> row, records |-> records]
    IN CASE found = "none" /\ mode = "none" -> [state EXCEPT ![proc].done = 4]
         [] found = "none" /\ mode # "none" ->
                [state EXCEPT ![proc] = opened, !.rows = @ @@ (row :> "running")]
         [] OTHER -> [state EXCEPT ![proc] = opened]

Announced(state, proc) == [state EXCEPT ![proc].done = 2, !.id = state[proc].row]

\* The session closes without an exception: atexit runs after the program's own
\* handling of what it raised.
Closed(state, proc) ==
    [state EXCEPT ![proc].done = 3,
                  !.rows = IF state[proc].records THEN [@ EXCEPT ![state[proc].row] = "ok"] ELSE @]

Reported(state, proc) ==
    [state EXCEPT ![proc].done = 4, !.report = IF state[proc].records THEN "records" ELSE "replays"]

ProcessStep(mode, state, proc) ==
    CASE state[proc].done = 0 -> Opened(state, mode, proc)
      [] state[proc].done = 1 -> Announced(state, proc)
      [] state[proc].done = 2 -> Closed(state, proc)
      [] state[proc].done = 3 -> Reported(state, proc)
      [] OTHER -> state

\* _run_child: what is left behind by the processes.
RunChild(mode, rows, schedule) ==
    FoldLeft(LAMBDA state, proc : ProcessStep(mode, state, proc),
             [rows |-> rows, id |-> "none", report |-> "none", child |-> Unstarted, helper |-> Unstarted],
             schedule)

Verdict(code) == IF code = 0 THEN "ok" ELSE "error"

\* _finish_if_running
FinishIfRunning(rows, id, code) ==
    IF rows[id] = "running" THEN [rows EXCEPT ![id] = Verdict(code)] ELSE rows

\* Fault: a session that closed has settled the row.
SettleByChild(state, command, code) == FinishIfRunning(state.rows, state.id, code)

\* What record and intervene do with the row once the child is gone; replay
\* does nothing.
Settle(state, command, code) ==
    CASE command = "replay" -> state.rows
      [] state.report = "none" -> FinishIfRunning(state.rows, state.id, code)
      [] command = "record" /\ state.report = "replays" -> state.rows
      [] OTHER -> [state.rows EXCEPT ![state.id] = Verdict(code)]

\* The command as a whole; without an announced run it gives up.
Command(command, mode, rows, schedule, code) ==
    LET state == RunChild(mode, rows, schedule)
    IN [id |-> state.id, started |-> state.child,
        rows |-> IF state.id = "none" THEN state.rows ELSE Settle(state, command, code)]
=============================================================================
