---------------------------- MODULE BenchCompare ----------------------------
(***************************************************************************)
(* How the benchmark compares runs and predictions: bench/fidelity.py      *)
(* (position by position, at three granularities) and bench/aligneval.py   *)
(* (hits within a tolerance, the best constant, McNemar's exact test).     *)
(*                                                                         *)
(* Positions and steps are 1-based; 0 is "none".                           *)
(***************************************************************************)
EXTENDS Integers, Sequences, FiniteSets, SequencesExt, FiniteSetsExt, Combinatorics

CONSTANT Tolerance \* tol of within_tol

-----------------------------------------------------------------------------
\* A step is [name, hash, target]; strict_key, target_key and name_key.
StepKey(width, step) ==
    CASE width = "strict" -> <<step.name, step.hash>>
      [] width = "target" -> <<step.name, step.target>>
      [] width = "name" -> <<step.name, "">>

Shorter(left, right) == IF Len(left) < Len(right) THEN Len(left) ELSE Len(right)

\* compare(): where two runs agree.
Agreeing(width, left, right) ==
    {k \in 1 .. Shorter(left, right) : StepKey(width, left[k]) = StepKey(width, right[k])}

\* Fault: a run that goes on where the other stopped has not parted from it.
PartingInside(width, left, right) ==
    LET differ == (1 .. Shorter(left, right)) \ Agreeing(width, left, right)
    IN IF differ = {} THEN 0 ELSE Min(differ)

\* compare(): the first difference; a run that goes on where the other stopped
\* parts from it there.
Parting(width, left, right) ==
    LET differ == (1 .. Shorter(left, right)) \ Agreeing(width, left, right)
    IN IF differ # {} THEN Min(differ)
       ELSE IF Len(left) # Len(right) THEN Shorter(left, right) + 1 ELSE 0

\* Comparison.realigns
Realigns(width, left, right) ==
    LET at == Parting(width, left, right)
    IN /\ at \notin {0, Shorter(left, right) + 1}
       /\ \E k \in Agreeing(width, left, right) : k > at

\* Comparison.survived
Survived(width, left, right) ==
    IF Parting(width, left, right) = 0 THEN Shorter(left, right) ELSE Parting(width, left, right) - 1

-----------------------------------------------------------------------------
Apart(a, b) == IF a > b THEN a - b ELSE b - a

\* within_tol
WithinTolerance(pred, label) == Apart(pred, label) <= Tolerance

\* Twice the statistical median of a sequence of labels.
TwiceMedian(labels) ==
    LET sorted == SortSeq(labels, <)
        n == Len(labels)
    IN IF n % 2 = 1 THEN 2 * sorted[(n + 1) \div 2] ELSE sorted[n \div 2] + sorted[(n \div 2) + 1]

Hits(candidate, labels) ==
    Cardinality({k \in DOMAIN labels : WithinTolerance(candidate, labels[k])})

Candidates(labels) == [k \in 1 .. Max(Range(labels)) |-> k]

\* oracle_constant: one pass over the candidates, the nearer to the median
\* winning a tie and the first of two equally near ones.
OracleConstant(labels) ==
    LET median == TwiceMedian(labels)
        better(best, c) ==
            LET hits == Hits(c, labels)
                dist == Apart(2 * c, median)
            IN IF hits > best.hits \/ (hits = best.hits /\ dist < best.dist)
               THEN [at |-> c, hits |-> hits, dist |-> dist] ELSE best
    IN FoldLeft(better, [at |-> median \div 2, hits |-> -1, dist |-> 0], Candidates(labels)).at

\* mcnemar: the discordant pairs of two methods.
Discordant(a, b) == Cardinality({k \in DOMAIN a : a[k] /\ ~b[k]})

OneTail(n, k) == FoldFunction(+, 0, [i \in 0 .. k |-> choose(n, i)])

\* mcnemar: the two-sided p value in units of 2^-n, 0 when there is no
\* discordant pair.
McNemar(a, b) ==
    LET n == Discordant(a, b) + Discordant(b, a)
        k == Min({Discordant(a, b), Discordant(b, a)})
    IN IF n = 0 THEN 0 ELSE Min({2 ^ n, 2 * OneTail(n, k)})
=============================================================================
