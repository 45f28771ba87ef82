----------------------------- MODULE Divergence -----------------------------
(***************************************************************************)
(* Where a failing run went wrong, from its own steps alone:               *)
(* tracewake/diverge.py.  A step is                                        *)
(*    [writes |-> the paths it is recorded to have written,                *)
(*     tools |-> the tools of the step, more than one for a batch].        *)
(* A tool is                                                               *)
(*    [creates |-> its name says that it brings files into existence,      *)
(*     verb |-> a word of its name starts with a writing verb,             *)
(*     target |-> the path it names, NoPath when it names none].           *)
(* The fold over the steps keeps what the code keeps; the paths a step     *)
(* writes are visited in any order.                                        *)
(***************************************************************************)
EXTENDS Naturals, Sequences, FiniteSets, SequencesExt, FiniteSetsExt

CONSTANTS
    ScratchFallback, \* SCRATCH_FALLBACK: what is reported when nothing was committed
    LongTrace        \* LONG_TRACE

ASSUME ReliabilityAssumption == ScratchFallback \in Nat \ {0} /\ LongTrace \in Nat

NoPath == 0

\* Step.targets
Targets(step) == {tool.target : tool \in Range(step.tools)} \ {NoPath}

\* creates_files: one creating name is enough for the whole step.
Creates(step) == \E tool \in Range(step.tools) : tool.creates

\* _written_paths: the recorded writes, or the targets of the tools whose own
\* verb says that they write.
WrittenPaths(step) ==
    IF step.writes # {} THEN step.writes
    ELSE {tool.target : tool \in {t \in Range(step.tools) : t.verb}} \ {NoPath}

\* Fault: whatever a creating step writes is its own.
OwnedSeenToo(k, step) == IF Creates(step) THEN k.owned \cup WrittenPaths(step) ELSE k.owned

\* A path is claimed by the step that creates it, if nothing mentioned it before.
Owned(k, step) ==
    IF Creates(step) THEN k.owned \cup (WrittenPaths(step) \ k.seen) ELSE k.owned

\* One step of _commitments: what it changes that the run did not create.
Commit(k, step) ==
    LET changed == {p \in WrittenPaths(step) \ k.owned : p \in k.seen \/ ~Creates(step)}
    IN [at |-> k.at + 1,
        seen |-> k.seen \cup WrittenPaths(step) \cup Targets(step),
        owned |-> Owned(k, step),
        steps |-> IF changed # {} THEN Append(k.steps, k.at + 1) ELSE k.steps]

\* The indices of the steps that commit the run to something.
Commitments(steps) ==
    FoldLeft(Commit, [at |-> 0, seen |-> {}, owned |-> {}, steps |-> <<>>], steps).steps

\* One step of first_nonscratch_write; found is 0 until the rule fires.  Paths
\* are numbers, so that min() has a meaning.
Judge(k, step) ==
    LET written == WrittenPaths(step)
        fires == \E p \in written : p \in k.read \/ (k.scratch # 0 /\ p # k.scratch)
    IN IF k.found # 0 THEN [k EXCEPT !.at = @ + 1]
       ELSE [at |-> k.at + 1,
             found |-> IF fires THEN k.at + 1 ELSE 0,
             scratch |-> IF k.scratch = 0 /\ written # {} THEN Min(written) ELSE k.scratch,
             read |-> k.read \cup (Targets(step) \ written)]

RuleFires(steps) ==
    FoldLeft(Judge, [at |-> 0, found |-> 0, scratch |-> 0, read |-> {}], steps).found

\* Nothing but scratch work was written.
Fallback(steps) == IF ScratchFallback < Len(steps) THEN ScratchFallback ELSE Len(steps)

\* first_nonscratch_write
FirstNonscratchWrite(steps) ==
    IF RuleFires(steps) # 0 THEN RuleFires(steps)
    ELSE IF steps = <<>> THEN 1 ELSE Fallback(steps)

\* reliability
Reliability(steps) ==
    LET n == Len(Commitments(steps))
        long == Len(steps) > LongTrace
    IN CASE n = 0 /\ long  -> "silent-long"
         [] n = 0 /\ ~long -> "silent-short"
         [] n > 0 /\ ~long -> "commit-short"
         [] n = 1 /\ long  -> "commit-long-single"
         [] n > 1 /\ long  -> "commit-long-many"

\* localize, for a run with steps.
Localize(steps) == <<FirstNonscratchWrite(steps), Reliability(steps)>>
=============================================================================
