----------------------------- MODULE Alignment -----------------------------
(***************************************************************************)
(* Comparing two recorded runs: tracewake/align.py.  Steps are extracted   *)
(* from the event log, weighted step similarity fills a score matrix, an   *)
(* affine-gap dynamic program aligns the two runs, and the divergence is   *)
(* read off the alignment.                                                 *)
(*                                                                         *)
(* Indices are 1-based and a gap is 0.  Similarities are integers: One is  *)
(* the similarity 1, chosen so that the fractions that occur are exact.    *)
(***************************************************************************)
EXTENDS Integers, Sequences, FiniteSets, SequencesExt, FiniteSetsExt

One == 1200
Fraction(n, d) == (One * n) \div d

\* The hosted profile, in thousandths.
WeightTool == 450
WeightArgs == 250
WeightReasoning == 200
WeightFiles == 100
WeightTarget == 700
WeightArgRest == 300

-----------------------------------------------------------------------------
(***************************************************************************)
(* extract_traces: the steps of an event log.  An event is                 *)
(*    [type |-> "write", tool, path] or                                    *)
(*    [type |-> "tool", parent, id, batch, name, target, rest]             *)
(* A target is a path, the sequence of its components, or a query, one     *)
(* component; a component is the set of its words.  It is empty when the   *)
(* arguments name neither.  rest is what else the arguments say.           *)
(***************************************************************************)

Tools(events) == SelectSeq(events, LAMBDA e : e.type = "tool")

\* The model calls that started tools, in the order of their first result.
GroupOrder(events) ==
    LET parents == [k \in DOMAIN Tools(events) |-> Tools(events)[k].parent]
        first == {k \in DOMAIN parents : \A l \in 1 .. k - 1 : parents[l] # parents[k]}
        at == SetToSortSeq(first, <)
    IN [k \in DOMAIN at |-> parents[at[k]]]

WritesBy(events, tool) ==
    {e.path : e \in {x \in Range(events) : x.type = "write" /\ x.tool = tool}}

\* The tools of one batch, in the order in which the model asked for them.
Batch(events, parent) ==
    SortSeq(SelectSeq(Tools(events), LAMBDA e : e.parent = parent),
            LAMBDA a, b : a.batch < b.batch)

\* One step per batch: a batch is a partial order, not a sequence.
StepOf(events, parent, before) ==
    LET tools == Batch(events, parent)
        writes == UNION {WritesBy(events, t.id) : t \in Range(tools)}
    IN [names |-> [k \in DOMAIN tools |-> tools[k].name],
        targets |-> [k \in DOMAIN tools |-> tools[k].target],
        rest |-> [k \in DOMAIN tools |-> tools[k].rest],
        writes |-> writes,
        files |-> before \cup writes]

\* The steps of a run; the files a run has changed accumulate.
ExtractSteps(events) ==
    FoldLeft(LAMBDA steps, parent :
                 Append(steps, StepOf(events, parent,
                                      IF steps = <<>> THEN {} ELSE Last(steps).files)),
             <<>>, GroupOrder(events))

\* append_submit: a run that ended by submitting gets a step no tool stands for.
WithSubmit(steps) ==
    Append(steps, [names |-> <<"submit">>, targets |-> <<<<>>>>, rest |-> <<0>>, writes |-> {},
                   files |-> IF steps = <<>> THEN {} ELSE Last(steps).files])

NamesOf(step) == Range(step.names)
TargetsOf(step) == Range(step.targets) \ {<<>>}

\* target_agree
TargetAgree(a, b) == NamesOf(a) = NamesOf(b) /\ TargetsOf(a) = TargetsOf(b)

-----------------------------------------------------------------------------
(***************************************************************************)
(* Similarity.  A single action also says whether its target is a path, a  *)
(* query or missing (kind), and args has its other arguments by their      *)
(* keys: the line around which it looks, the text it writes.  The          *)
(* reasoning before it is a text: blank, or the set of its words.          *)
(***************************************************************************)
CONSTANT LineFalloff   \* lines after which two regions are unrelated

ASSUME FalloffAssumption == LineFalloff \in Nat \ {0} /\ One % LineFalloff = 0

Jaccard(a, b) ==
    IF a = {} /\ b = {} THEN One ELSE Fraction(Cardinality(a \cap b), Cardinality(a \cup b))

\* path_similarity: the common suffix, as a share of the longer path.
PathSimilarity(a, b) ==
    LET longer == IF Len(a) > Len(b) THEN Len(a) ELSE Len(b)
        shorter == IF Len(a) > Len(b) THEN Len(b) ELSE Len(a)
        common == {k \in 0 .. shorter :
                       \A l \in 0 .. k - 1 : a[Len(a) - l] = b[Len(b) - l]}
    IN IF a = b THEN One
       ELSE IF shorter = 0 THEN 0 ELSE Fraction(Max(common), longer)

\* number_similarity
NumberSimilarity(a, b) ==
    LET apart == IF a > b THEN a - b ELSE b - a
    IN IF apart >= LineFalloff THEN 0 ELSE One - Fraction(apart, LineFalloff)

\* token_jaccard of two queries.
TokenJaccard(a, b) == Jaccard(UNION Range(a), UNION Range(b))

\* The target component: sets of targets when a batch is involved, else paths
\* if either is one, else queries.
TargetSimilarity(a, b) ==
    IF Len(a.names) > 1 \/ Len(b.names) > 1 THEN Jaccard(TargetsOf(a), TargetsOf(b))
    ELSE IF "path" \in {a.kind, b.kind} THEN PathSimilarity(a.targets[1], b.targets[1])
    ELSE TokenJaccard(a.targets[1], b.targets[1])

\* Where a[i ..] and b[j ..] are equal within the two ranges: from none to k
\* characters.
CommonRun(a, b, i, j, k) == \A l \in 0 .. k - 1 : a[i + l] = b[j + l]

\* find_longest_match of difflib: the longest common run of a[alo .. ahi] and
\* b[blo .. bhi], the first one in a and then the first one in b.
LongestMatch(a, b, alo, ahi, blo, bhi) ==
    CHOOSE m \in (alo .. ahi + 1) \X (blo .. bhi + 1) \X (0 .. ahi + 1 - alo) :
        LET fits(i, j, k) == i + k <= ahi + 1 /\ j + k <= bhi + 1 /\ CommonRun(a, b, i, j, k)
        IN /\ fits(m[1], m[2], m[3])
           /\ \A i \in alo .. ahi + 1, j \in blo .. bhi + 1 :
                  /\ ~fits(i, j, m[3] + 1)
                  /\ fits(i, j, m[3]) => m[1] < i \/ (m[1] = i /\ m[2] <= j)

\* get_matching_blocks: how many characters are matched by the longest run and,
\* on either side of it, by the longest runs there.
Matched(a, b) ==
    LET count[alo \in 1 .. Len(a) + 1, ahi \in 0 .. Len(a),
              blo \in 1 .. Len(b) + 1, bhi \in 0 .. Len(b)] ==
            LET m == LongestMatch(a, b, alo, ahi, blo, bhi)
            IN IF m[3] = 0 THEN 0
               ELSE m[3] + count[alo, m[1] - 1, blo, m[2] - 1]
                         + count[m[1] + m[3], ahi, m[2] + m[3], bhi]
    IN count[1, Len(a), 1, Len(b)]

\* text_similarity: the ratio of difflib, for texts too short for its heuristic
\* about frequent characters.  It depends on the order of the texts.
TextSimilarity(a, b) ==
    IF a = b THEN One
    ELSE IF a = <<>> \/ b = <<>> THEN 0 ELSE Fraction(2 * Matched(a, b), Len(a) + Len(b))

\* _value_similarity
ValueSimilarity(key, x, y) ==
    IF x = y THEN One ELSE IF key = "around" THEN NumberSimilarity(x, y) ELSE TextSimilarity(x, y)

\* The other arguments, each weighing the same and one that only one side has
\* weighing as a difference; they are ignored when a batch is involved.
RestSimilarity(a, b) ==
    LET keys == DOMAIN a.args \cup DOMAIN b.args
        both == DOMAIN a.args \cap DOMAIN b.args
    IN IF Len(a.names) > 1 \/ Len(b.names) > 1 THEN TargetSimilarity(a, b)
       ELSE IF keys = {} THEN One
       ELSE MapThenSumSet(LAMBDA k : ValueSimilarity(k, a.args[k], b.args[k]), both)
                \div Cardinality(keys)

\* argument_similarity in the "weighted" mode, in thousandths of One.
ArgumentSimilarity(a, b) ==
    WeightTarget * TargetSimilarity(a, b) + WeightArgRest * RestSimilarity(a, b)

\* LexicalEmbedder: a bag of words, "." standing in for a blank text.
Embed(text) == IF text.blank THEN {"."} ELSE text.words

\* cosine of two bags in which no word repeats; the square, to stay rational.
CosineSquared(u, v) ==
    IF u = {} \/ v = {} THEN 0
    ELSE Fraction(Cardinality(u \cap v) * Cardinality(u \cap v), Cardinality(u) * Cardinality(v))

\* step_similarity without the reasoning term, in millionths of One.
ActionSimilarity(a, b) ==
    1000 * WeightTool * (IF NamesOf(a) = NamesOf(b) THEN One ELSE 0)
    + WeightArgs * ArgumentSimilarity(a, b)
    + 1000 * WeightFiles * Jaccard(a.files, b.files)

ReasoningSimilarity(a, b) == CosineSquared(Embed(a.reasoning), Embed(b.reasoning))

-----------------------------------------------------------------------------
(***************************************************************************)
(* Gotoh's affine-gap alignment.  Scores and penalties are in tenths.      *)
(***************************************************************************)
GapOpen == -10
GapExtend == -2
Neg == -1000000

Max3(a, b, c) == Max({a, b, c})

\* One table of the program: what is best when the last column at (i, j) is a
\* match, a gap in B or a gap in A, from the tables of the cells before it.
Cell(scores, t, i, j) ==
    IF i = 0 /\ j = 0 THEN [M |-> 0, X |-> Neg, Y |-> Neg]
    ELSE IF j = 0 THEN [M |-> Neg, X |-> GapOpen + (i - 1) * GapExtend, Y |-> Neg]
    ELSE IF i = 0 THEN [M |-> Neg, X |-> Neg, Y |-> GapOpen + (j - 1) * GapExtend]
    ELSE LET d == t[i - 1, j - 1]
             u == t[i - 1, j]
             l == t[i, j - 1]
         IN [M |-> Max3(d.M, d.X, d.Y) + scores[i][j],
             X |-> Max({u.M + GapOpen, u.X + GapExtend}),
             Y |-> Max({l.M + GapOpen, l.Y + GapExtend})]

Table(scores) ==
    LET t[i \in 0 .. Len(scores), j \in 0 .. Len(scores[1])] == Cell(scores, t, i, j)
    IN t

\* Where the traceback starts and where a match leads: the best table, the
\* later letter winning a tie after a match.
StartIn(c) ==
    LET best == Max3(c.M, c.X, c.Y)
    IN IF c.M = best THEN "M" ELSE IF c.X = best THEN "X" ELSE "Y"

AfterMatch(c) ==
    LET best == Max3(c.M, c.X, c.Y)
    IN IF c.Y = best THEN "Y" ELSE IF c.X = best THEN "X" ELSE "M"

\* Fault: the gap is left one cell early on a tie of nothing.
StateAfterGapEarly(stay, leave, left) == IF left > 2 /\ stay >= leave THEN "stay" ELSE "leave"

\* A gap goes on while that is no worse than having opened it here.
StateAfterGap(stay, leave, left) == IF left > 1 /\ stay >= leave THEN "stay" ELSE "leave"

\* The column at (i, j) in a state, and where the traceback goes from there.
Back(t, i, j, state) ==
    IF i > 0 /\ j > 0 /\ state = "M"
    THEN [col |-> <<i, j>>, i |-> i - 1, j |-> j - 1, state |-> AfterMatch(t[i - 1, j - 1])]
    ELSE IF i > 0 /\ state = "X"
    THEN [col |-> <<i, 0>>, i |-> i - 1, j |-> j,
          state |-> IF i = 1 /\ j > 0 THEN "Y"
                    ELSE IF StateAfterGap(t[i - 1, j].X + GapExtend, t[i - 1, j].M + GapOpen, i)
                            = "stay" THEN "X" ELSE "M"]
    ELSE IF j > 0
    THEN [col |-> <<0, j>>, i |-> i, j |-> j - 1,
          state |-> IF j = 1 /\ i > 0 THEN "X"
                    ELSE IF StateAfterGap(t[i, j - 1].Y + GapExtend, t[i, j - 1].M + GapOpen, j)
                            = "stay" THEN "Y" ELSE "M"]
    ELSE [col |-> <<0, 0>>, i |-> 0, j |-> 0, state |-> state]

\* The traceback stops at the origin, or where no case applies.
Traceback(t, n, m) ==
    LET start == [cols |-> <<>>, i |-> n, j |-> m, state |-> StartIn(t[n, m]), stuck |-> FALSE]
        move(at, k) ==
            IF (at.i = 0 /\ at.j = 0) \/ at.stuck THEN at
            ELSE LET b == Back(t, at.i, at.j, at.state)
                 IN IF b.col = <<0, 0>> THEN [at EXCEPT !.stuck = TRUE]
                    ELSE [cols |-> <<b.col>> \o at.cols, i |-> b.i, j |-> b.j,
                          state |-> b.state, stuck |-> FALSE]
    IN FoldLeft(move, start, [k \in 1 .. n + m |-> k]).cols

\* gotoh, on a matrix with rows and columns.
Gotoh(scores) ==
    LET n == Len(scores)
        m == Len(scores[1])
        t == Table(scores)
    IN [score |-> Max3(t[n, m].M, t[n, m].X, t[n, m].Y), cols |-> Traceback(t, n, m)]

-----------------------------------------------------------------------------
(***************************************************************************)
(* What is read off an alignment.                                          *)
(***************************************************************************)

\* align: an empty side needs no matrix.
Align(n, m, scores) ==
    CASE n = 0 /\ m = 0 -> [score |-> 0, cols |-> <<>>]
      [] n = 0 /\ m > 0 -> [score |-> GapOpen + (m - 1) * GapExtend,
                            cols |-> [j \in 1 .. m |-> <<0, j>>]]
      [] n > 0 /\ m = 0 -> [score |-> GapOpen + (n - 1) * GapExtend,
                            cols |-> [i \in 1 .. n |-> <<i, 0>>]]
      [] n > 0 /\ m > 0 -> Gotoh(scores)

SameAction(a, b) ==
    NamesOf(a) = NamesOf(b) /\ a.targets = b.targets /\ a.rest = b.rest

\* _trailing_identical_loop_start: the first step of two or more equal steps
\* that end the run, or 0.
LoopStart(steps) ==
    LET n == Len(steps)
        from == {k \in 1 .. n : \A l \in k .. n : SameAction(steps[l], steps[n])}
    IN IF n < 2 \/ Min(from) = n THEN 0 ELSE Min(from)

\* Agreement inside the loop a run ends in is not recovery.
Counts(bad, j) == LoopStart(bad) = 0 \/ j < LoopStart(bad)

\* divergence_step: the first step of the failing run after the last column
\* that agrees at target width; 0 when the runs re-align through the end.
DivergenceStep(cols, good, bad) ==
    LET agreed == {k \in DOMAIN cols :
                       /\ cols[k][1] # 0 /\ cols[k][2] # 0
                       /\ Counts(bad, cols[k][2])
                       /\ TargetAgree(good[cols[k][1]], bad[cols[k][2]])}
        last == IF agreed = {} THEN 0 ELSE Max(agreed)
        after == {k \in DOMAIN cols : k > last /\ cols[k][2] # 0}
    IN IF after # {} THEN cols[Min(after)][2] ELSE IF last = 0 THEN 1 ELSE 0

\* first_target_difference and last_common_prefix, the baselines.
FirstTargetDifference(good, bad) ==
    LET n == IF Len(good) < Len(bad) THEN Len(good) ELSE Len(bad)
        differ == {k \in 1 .. n : ~TargetAgree(good[k], bad[k])}
    IN CASE differ # {} -> Min(differ)
         [] differ = {} /\ Len(good) # Len(bad) ->
                IF n < Len(bad) THEN n + 1 ELSE IF Len(bad) > 1 THEN Len(bad) ELSE 1
         [] differ = {} /\ Len(good) = Len(bad) -> Len(bad)

LastCommonPrefix(good, bad) ==
    LET n == IF Len(good) < Len(bad) THEN Len(good) ELSE Len(bad)
        prefix == {k \in 0 .. n : \A l \in 1 .. k : TargetAgree(good[l], bad[l])}
    IN IF Max(prefix) = 0 THEN 1 ELSE Max(prefix)
=============================================================================
